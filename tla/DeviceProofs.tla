---------------------------- MODULE DeviceProofs ----------------------------
(***************************************************************************)
(* The device tools that share no state with the rest: the fault injector  *)
(* and the GPU monitor.                                                    *)
(*                                                                         *)
(* How far libcufaultinj may overshoot an interceptionCount, for any       *)
(* number of threads, any configuration files and any sequence of reloads. *)
(* The handler looks an entry up under one lock, checks its count under    *)
(* none and lowers it under another.  The argument is a balance kept per   *)
(* entry of the configuration in force: what was injected, what is about   *)
(* to be and what is left make up the configured count (Balanced), and the *)
(* count stays above what the threads past the check will still take off   *)
(* (Covered).  A configuration a handler wrote to through a reference into *)
(* the one before has no account; the next one that is read has again.     *)
(*                                                                         *)
(* The loops of the GPU monitor and the stats they keep, for any number of *)
(* GPUs, answers, starts and queries.                                      *)
(***************************************************************************)
EXTENDS FaultInjection, NvmlMonitor, FiniteOrders, SequenceTheorems

-----------------------------------------------------------------------------
(* The fault injector. *)

\* The callers that hold a reference to key's entry of the tree in force, at pc.
Holds(r, pc, key) == r.pc = pc /\ r.key = key /\ r.version = tree.version
Holders(pc, key) == {c \in Callers : Holds(caller[c], pc, key)}

Made(key) == IF key \in DOMAIN injected[tree.version] THEN injected[tree.version][key] ELSE 0

Keys == UNION {DOMAIN f.faults : f \in ConfigFiles}
CallerType == [pc : {"idle", "matched", "count", "inject"}, key : Keys \cup {NoConfig}, version : Nat,
               fault : FaultRecord \cup {NoConfig}]

CallerRecord(r) ==
    /\ r \in CallerType /\ r.version <= tree.version
    /\ r.pc \in {"matched", "count"} /\ r.version = tree.version => r.key \in DOMAIN tree.faults
    /\ r.pc = "count" /\ r.version = tree.version => tree.faults[r.key].count # Unlimited

TreeType ==
    /\ tree = [initialized |-> tree.initialized, dynamic |-> tree.dynamic, faults |-> tree.faults,
               version |-> tree.version]
    /\ tree.initialized \in BOOLEAN /\ tree.version \in Nat
    /\ tree.faults = [k \in DOMAIN tree.faults |-> tree.faults[k]]
    /\ \A k \in DOMAIN tree.faults : tree.faults[k] \in FaultRecord

InjectedType ==
    /\ injected = [v \in 0 .. MaxReloads + 1 |-> injected[v]]
    /\ \A v \in 0 .. MaxReloads + 1 : \A k \in DOMAIN injected[v] : injected[v][k] \in Nat
    /\ \A v \in 0 .. MaxReloads + 1 : v > tree.version => DOMAIN injected[v] = {}

\* Every reload follows a change of the file, so that the versions are numbered within the bound.
Numbered ==
    /\ reloads \in 0 .. MaxReloads /\ changed \in BOOLEAN
    /\ ~tree.initialized => tree.version = 0 /\ ~changed /\ watcher = "none"
    /\ tree.initialized => tree.version + (IF changed THEN 1 ELSE 0) <= reloads + 1

\* What is left, made and under way add up to what file configured.
Balanced(file, key) ==
    tree.faults[key].count + Made(key) + Cardinality(Holders("inject", key)) = file.faults[key].count

\* The count bears what the threads past the check will take off, or nobody has passed it.
Covered(file, key) ==
    \/ tree.faults[key].count - Cardinality(Holders("count", key)) >= 1 - Cardinality(Callers)
    \/ tree.faults[key].count = file.faults[key].count /\ Holders("count", key) = {}

Accounted(file) ==
    /\ file \in ConfigFiles /\ file.ok /\ DOMAIN tree.faults = DOMAIN file.faults
    /\ \A key \in DOMAIN tree.faults : tree.faults[key].count # Unlimited =>
         file.faults[key].count # Unlimited /\ Balanced(file, key) /\ Covered(file, key)

\* The inductive invariant.
FaultInv ==
    /\ configFile \in ConfigFiles
    /\ TreeType /\ InjectedType /\ Numbered
    /\ caller = [c \in Callers |-> caller[c]] /\ \A c \in Callers : CallerRecord(caller[c])
    /\ DOMAIN tree.faults \subseteq Keys
    /\ tree.version \in corrupted \/ DOMAIN tree.faults = {} \/ \E file \in ConfigFiles : Accounted(file)

-----------------------------------------------------------------------------
(* A set of callers has a size, no greater than that of Callers.           *)
LEMMA SomeCallers ==
  ASSUME NEW S \in SUBSET Callers
  PROVE  /\ IsFiniteSet(S) /\ Cardinality(S) \in Nat
         /\ Cardinality(S) <= Cardinality(Callers) /\ Cardinality(Callers) \in Nat
BY CallersAssumption, FS_Subset, FS_CardinalityType

(* How the number of holders changes when one caller moves.                *)
LEMMA OneMoves ==
  ASSUME caller = [d \in Callers |-> caller[d]], NEW c \in Callers, NEW r,
         caller' = [caller EXCEPT ![c] = r], tree'.version = tree.version, NEW pc, NEW key
  PROVE  LET before == Cardinality(Holders(pc, key))
             after == Cardinality(Holders(pc, key)')
         IN  /\ before \in Nat /\ after \in Nat
             /\ Holds(caller[c], pc, key) /\ ~Holds(r, pc, key) => after = before - 1
             /\ ~Holds(caller[c], pc, key) /\ Holds(r, pc, key) => after = before + 1
             /\ (Holds(caller[c], pc, key) <=> Holds(r, pc, key)) => Holders(pc, key)' = Holders(pc, key)
<1> DEFINE H == Holders(pc, key)
           K == Holders(pc, key)'
<1>1. H \in SUBSET Callers /\ K \in SUBSET Callers
  BY DEF Holders
<1>2. IsFiniteSet(H) /\ IsFiniteSet(K) /\ Cardinality(H) \in Nat /\ Cardinality(K) \in Nat
  BY <1>1, SomeCallers
<1>3. \A d \in Callers : caller'[d] = IF d = c THEN r ELSE caller[d]
  OBVIOUS
<1>4. \A d \in Callers : d \in K <=> Holds(IF d = c THEN r ELSE caller[d], pc, key)
  BY <1>3 DEF Holders, Holds
<1>5. \A d \in Callers : d \in H <=> Holds(caller[d], pc, key)
  BY DEF Holders
<1> HIDE DEF H, K
<1>6. Holds(caller[c], pc, key) /\ ~Holds(r, pc, key) => Cardinality(K) = Cardinality(H) - 1
  <2> SUFFICES ASSUME Holds(caller[c], pc, key), ~Holds(r, pc, key)
               PROVE  Cardinality(K) = Cardinality(H) - 1
    OBVIOUS
  <2>1. K = H \ {c} /\ c \in H
    BY <1>1, <1>4, <1>5
  <2> QED BY <1>2, <2>1, FS_RemoveElement
<1>7. ~Holds(caller[c], pc, key) /\ Holds(r, pc, key) => Cardinality(K) = Cardinality(H) + 1
  <2> SUFFICES ASSUME ~Holds(caller[c], pc, key), Holds(r, pc, key)
               PROVE  Cardinality(K) = Cardinality(H) + 1
    OBVIOUS
  <2>1. K = H \cup {c} /\ c \notin H
    BY <1>1, <1>4, <1>5
  <2> QED BY <1>2, <2>1, FS_AddElement
<1>8. (Holds(caller[c], pc, key) <=> Holds(r, pc, key)) => K = H
  BY <1>1, <1>4, <1>5
<1> QED BY <1>2, <1>6, <1>7, <1>8 DEF H, K

(* Nothing was injected of a version that is not in force yet.             *)
LEMMA MadeType ==
  ASSUME FaultInv, NEW key
  PROVE  Made(key) \in Nat /\ tree.version \in 0 .. MaxReloads + 1
<1>1. tree.version \in 0 .. MaxReloads + 1
  BY ReloadsAssumption DEF FaultInv, TreeType, Numbered
<1> QED BY <1>1 DEF FaultInv, InjectedType, Made

-----------------------------------------------------------------------------
(* Configuration.                                                          *)

(* While the tree's entries and version, the callers and the history stay, *)
(* so does what is said of them.                                           *)
LEMMA EntriesKept ==
  ASSUME FaultInv, tree'.faults = tree.faults, tree'.version = tree.version,
         UNCHANGED <<caller, injected, corrupted>>,
         configFile' \in ConfigFiles, TreeType', Numbered'
  PROVE  FaultInv'
<1>1. InjectedType'
  BY DEF FaultInv, InjectedType
<1>2. \A c \in Callers : CallerRecord(caller[c])'
  BY DEF FaultInv, CallerRecord
<1>3. ASSUME NEW pc, NEW key
      PROVE  Holders(pc, key)' = Holders(pc, key) /\ Made(key)' = Made(key)
  BY DEF Holders, Holds, Made
<1>4. ASSUME NEW file \in ConfigFiles, Accounted(file)
      PROVE  Accounted(file)'
  BY <1>3, <1>4 DEF Accounted, Balanced, Covered
<1> QED BY <1>1, <1>2, <1>4 DEF FaultInv

(* A file that parses starts a new account.                                *)
LEMMA NewAccount ==
  ASSUME FaultInv, configFile.ok, UNCHANGED <<caller, injected, configFile>>, Numbered',
         tree' = [initialized |-> TRUE, dynamic |-> configFile.dynamic, faults |-> configFile.faults,
                  version |-> tree.version + 1]
  PROVE  FaultInv'
<1>1. /\ tree'.faults = configFile.faults /\ tree'.version = tree.version + 1 /\ tree'.initialized = TRUE
      /\ tree'.dynamic = configFile.dynamic
  OBVIOUS
<1>2. tree.version \in Nat /\ configFile \in ConfigFiles
  BY DEF FaultInv, TreeType
<1>3. TreeType'
  <2>1. tree'.version \in Nat
    BY <1>1, <1>2
  <2>2. /\ configFile.faults = [k \in DOMAIN configFile.faults |-> configFile.faults[k]]
        /\ \A k \in DOMAIN configFile.faults : configFile.faults[k] \in FaultRecord
    BY <1>2, ConfigFilesAssumption
  <2> QED BY <1>1, <2>1, <2>2 DEF TreeType
<1>4. tree'.version \in 0 .. MaxReloads + 1
  BY <1>1, <1>2, ReloadsAssumption DEF Numbered
<1>5. InjectedType'
  BY <1>1, <1>2 DEF FaultInv, InjectedType
<1>6. \A c \in Callers : CallerRecord(caller[c])' /\ caller[c].version # tree'.version
  <2> SUFFICES ASSUME NEW c \in Callers
               PROVE  CallerRecord(caller[c])' /\ caller[c].version # tree'.version
    OBVIOUS
  <2>1. caller[c] \in CallerType /\ caller[c].version <= tree.version /\ caller[c].version \in Nat
    BY DEF FaultInv, CallerRecord, CallerType
  <2>2. caller[c].version < tree'.version
    BY <1>1, <1>2, <2>1
  <2> QED BY <1>1, <1>2, <2>1, <2>2 DEF CallerRecord
<1>7. ASSUME NEW pc, NEW key
      PROVE  Holders(pc, key)' = {} /\ Made(key)' = 0
  <2>1. Holders(pc, key)' = {}
    BY <1>6 DEF Holders, Holds
  <2>2. DOMAIN injected'[tree'.version] = {}
    BY <1>1, <1>2, <1>4 DEF FaultInv, InjectedType
  <2> QED BY <2>1, <2>2 DEF Made
<1>8. Accounted(configFile)'
  <2> SUFFICES ASSUME NEW key \in DOMAIN configFile.faults, configFile.faults[key].count # Unlimited
               PROVE  Balanced(configFile, key)' /\ Covered(configFile, key)'
    BY <1>1, <1>2 DEF Accounted
  <2>1. configFile.faults[key].count \in Int
    BY <1>2, ConfigFilesAssumption DEF FaultRecord
  <2>2. Cardinality({}) = 0
    BY FS_EmptySet
  <2>3. Holders("inject", key)' = {} /\ Holders("count", key)' = {} /\ Made(key)' = 0
    BY <1>7
  <2>4. tree'.faults[key].count = configFile'.faults[key].count
    BY <1>1
  <2>5. Balanced(configFile, key)'
    <3> DEFINE n == configFile.faults[key].count
    <3>1. n + 0 + 0 = n
      BY <2>1
    <3>2. tree'.faults[key].count = n /\ configFile'.faults[key].count = n
      BY <2>4
    <3> HIDE DEF n
    <3> QED BY <2>2, <2>3, <3>1, <3>2 DEF Balanced
  <2>6. Covered(configFile, key)'
    BY <2>3, <2>4 DEF Covered
  <2> QED BY <2>5, <2>6
<1>9. DOMAIN tree'.faults \subseteq Keys
  BY <1>1, <1>2 DEF Keys
<1> QED BY <1>2, <1>3, <1>5, <1>6, <1>8, <1>9 DEF FaultInv

(* InitializeInjection and the watcher.                                    *)
LEMMA ConfigIsRead ==
  ASSUME FaultInv, InitializeInjection \/ dynamicReconfig
  PROVE  FaultInv'
<1>1. configFile \in ConfigFiles /\ tree.version \in Nat /\ tree.initialized \in BOOLEAN
      /\ reloads \in Nat /\ changed \in BOOLEAN
  BY DEF FaultInv, TreeType, Numbered
<1>2. UNCHANGED <<caller, injected, corrupted, configFile, reloads>>
  BY DEF InitializeInjection, dynamicReconfig
<1>3. CASE InitializeInjection
  <2>1. /\ ~tree.initialized /\ UNCHANGED changed
        /\ tree' = [readFaultInjectorConfig(configFile, tree) EXCEPT !.initialized = TRUE]
    BY <1>3 DEF InitializeInjection
  <2>2. tree.version = 0 /\ changed = FALSE
    BY <1>1, <2>1 DEF FaultInv, Numbered
  <2>3. CASE configFile.ok
    <3>1. tree' = [initialized |-> TRUE, dynamic |-> configFile.dynamic, faults |-> configFile.faults,
                   version |-> tree.version + 1]
      BY <2>1, <2>3 DEF readFaultInjectorConfig
    <3>2. tree'.initialized = TRUE /\ tree'.version = 1
      BY <2>2, <3>1
    <3>3. Numbered'
      BY <1>1, <1>2, <2>1, <2>2, <3>2 DEF FaultInv, Numbered
    <3> QED BY <1>2, <2>3, <3>1, <3>3, NewAccount
  <2>4. CASE ~configFile.ok
    <3>1. tree' = [tree EXCEPT !.initialized = TRUE]
      BY <2>1, <2>4 DEF readFaultInjectorConfig
    <3>2. tree' = [initialized |-> TRUE, dynamic |-> tree.dynamic, faults |-> tree.faults, version |-> tree.version]
      BY <3>1 DEF FaultInv, TreeType
    <3>3. tree'.faults = tree.faults /\ tree'.version = tree.version /\ tree'.initialized = TRUE
          /\ tree'.dynamic = tree.dynamic
      BY <3>2
    <3>4. Numbered'
      BY <1>1, <1>2, <2>1, <2>2, <3>3 DEF FaultInv, Numbered
    <3>5. TreeType'
      BY <3>2, <3>3 DEF FaultInv, TreeType
    <3> QED BY <1>1, <1>2, <3>3, <3>4, <3>5, EntriesKept
  <2> QED BY <2>3, <2>4
<1>4. CASE dynamicReconfig /\ terminateThread
  <2>1. tree' = tree /\ changed' = changed /\ tree.initialized
    BY <1>4 DEF dynamicReconfig, FaultInv, Numbered
  <2>2. Numbered' /\ TreeType'
    BY <1>2, <2>1 DEF FaultInv, Numbered, TreeType
  <2> QED BY <1>1, <1>2, <2>1, <2>2, EntriesKept
<1>5. CASE dynamicReconfig /\ ~terminateThread
  <2>1. changed /\ changed' = FALSE /\ tree' = readFaultInjectorConfig(configFile, tree) /\ watcher = "select"
    BY <1>5 DEF dynamicReconfig
  <2>2. tree.initialized /\ tree.version + 1 <= reloads + 1 /\ (IF changed' THEN 1 ELSE 0) = 0
    BY <1>1, <2>1 DEF FaultInv, Numbered
  <2>5. ASSUME tree'.initialized, tree'.version \in {tree.version, tree.version + 1}
        PROVE  Numbered'
    <3>1. reloads' \in 0 .. MaxReloads
      BY <1>2 DEF FaultInv, Numbered
    <3>2. tree'.version + 0 <= reloads' + 1
      BY <1>1, <1>2, <2>2, <2>5
    <3>3. changed' \in BOOLEAN
      BY <2>1
    <3> QED BY <2>2, <2>5, <3>1, <3>2, <3>3 DEF Numbered
  <2>3. CASE configFile.ok
    <3>1. tree' = [initialized |-> TRUE, dynamic |-> configFile.dynamic, faults |-> configFile.faults,
                   version |-> tree.version + 1]
      BY <2>1, <2>3 DEF readFaultInjectorConfig
    <3>2. tree'.initialized = TRUE /\ tree'.version = tree.version + 1
      BY <3>1
    <3>3. Numbered'
      BY <2>5, <3>2
    <3> QED BY <1>2, <2>3, <3>1, <3>3, NewAccount
  <2>4. CASE ~configFile.ok
    <3>1. tree' = tree
      BY <2>1, <2>4 DEF readFaultInjectorConfig
    <3>2. Numbered'
      BY <2>2, <2>5, <3>1
    <3>3. TreeType'
      BY <3>1 DEF FaultInv, TreeType
    <3> QED BY <1>1, <1>2, <3>1, <3>2, <3>3, EntriesKept
  <2> QED BY <2>3, <2>4
<1> QED BY <1>3, <1>4, <1>5

(* The file changes, the process exits: nothing of the above.              *)
LEMMA FileOrExit ==
  ASSUME FaultInv, edit_config \/ atExitHandler \/ join_watcher
  PROVE  FaultInv'
<1>1. UNCHANGED <<tree, watcher, caller, injected, corrupted>>
  BY DEF edit_config, atExitHandler, join_watcher
<1>2. TreeType'
  BY <1>1 DEF FaultInv, TreeType
<1>3. Numbered' /\ configFile' \in ConfigFiles
  <2>1. CASE edit_config
    <3>1. tree.initialized /\ changed' = TRUE /\ reloads' = reloads + 1 /\ reloads < MaxReloads
          /\ configFile' \in ConfigFiles
      BY <2>1 DEF edit_config
    <3>2. tree.version \in Nat /\ tree.version <= reloads + 1 /\ reloads \in Nat
      BY <3>1 DEF FaultInv, TreeType, Numbered
    <3>3. reloads' \in 0 .. MaxReloads /\ tree.version + 1 <= reloads' + 1
      BY <3>1, <3>2, ReloadsAssumption
    <3> QED BY <1>1, <3>1, <3>3 DEF Numbered
  <2>2. CASE UNCHANGED <<configFile, changed, reloads>>
    BY <1>1, <2>2 DEF FaultInv, Numbered
  <2> QED BY <2>1, <2>2 DEF atExitHandler, join_watcher
<1> QED BY <1>1, <1>2, <1>3, EntriesKept

-----------------------------------------------------------------------------
(* The handler.                                                            *)

(* A step of one caller: what is left to show is the account of each key   *)
(* with a count.                                                           *)
LEMMA CallerMoves ==
  ASSUME FaultInv, NEW c \in Callers, NEW r, caller' = [caller EXCEPT ![c] = r],
         tree'.version = tree.version, DOMAIN tree'.faults = DOMAIN tree.faults,
         \A k \in DOMAIN tree.faults : tree'.faults[k].count = Unlimited <=> tree.faults[k].count = Unlimited,
         TreeType', InjectedType', Numbered', UNCHANGED <<configFile, corrupted>>, CallerRecord(caller[c])',
         \A file \in ConfigFiles : \A key \in DOMAIN tree.faults :
           /\ tree.faults[key].count \in Int /\ file.faults[key].count \in Int
           /\ Balanced(file, key) /\ Covered(file, key)
           => Balanced(file, key)' /\ Covered(file, key)'
  PROVE  FaultInv'
<1>1. \A d \in Callers : CallerRecord(caller[d])'
  <2> SUFFICES ASSUME NEW d \in Callers, d # c
               PROVE  CallerRecord(caller[d])'
    OBVIOUS
  <2>1. caller'[d] = caller[d] /\ CallerRecord(caller[d])
    BY DEF FaultInv
  <2> QED BY <2>1 DEF CallerRecord
<1>2. ASSUME NEW file \in ConfigFiles, Accounted(file)
      PROVE  Accounted(file)'
  <2> SUFFICES ASSUME NEW key \in DOMAIN tree.faults, tree.faults[key].count # Unlimited
               PROVE  Balanced(file, key)' /\ Covered(file, key)'
    BY <1>2 DEF Accounted
  <2>1. file.faults[key].count # Unlimited /\ Balanced(file, key) /\ Covered(file, key)
        /\ key \in DOMAIN file.faults
    BY <1>2 DEF Accounted
  <2>2. tree.faults[key].count \in Int
    BY DEF FaultInv, TreeType, FaultRecord
  <2>3. file.faults[key].count \in Int
    BY <2>1, ConfigFilesAssumption DEF FaultRecord
  <2> QED BY <2>1, <2>2, <2>3
<1>3. caller' = [d \in Callers |-> caller'[d]]
  BY DEF FaultInv
<1> QED BY <1>1, <1>2, <1>3 DEF FaultInv

(* The same when neither the tree nor the history changes and the caller   *)
(* is at no counted entry but to wait for the lock.                        *)
LEMMA CallerOnlyMoves ==
  ASSUME FaultInv, NEW c \in Callers, NEW r, caller' = [caller EXCEPT ![c] = r],
         UNCHANGED <<tree, injected, corrupted, configFile, reloads, changed, watcher>>,
         CallerRecord(caller[c])',
         \A key \in DOMAIN tree.faults : tree.faults[key].count \in Int =>
           /\ Holds(caller[c], "inject", key) <=> Holds(r, "inject", key)
           /\ ~Holds(caller[c], "count", key)
           /\ Holds(r, "count", key) => tree.faults[key].count > 0
  PROVE  FaultInv'
<1>1. TreeType' /\ InjectedType' /\ Numbered'
  BY DEF FaultInv, TreeType, InjectedType, Numbered
<1>2. ASSUME NEW file \in ConfigFiles, NEW key \in DOMAIN tree.faults,
             tree.faults[key].count \in Int, file.faults[key].count \in Int,
             Balanced(file, key), Covered(file, key)
      PROVE  Balanced(file, key)' /\ Covered(file, key)'
  <2> DEFINE n == tree.faults[key].count
             before == Cardinality(Holders("count", key))
             after == Cardinality(Holders("count", key)')
  <2>1. Holders("inject", key)' = Holders("inject", key)
    BY <1>2, OneMoves DEF FaultInv
  <2>2. Made(key)' = Made(key)
    BY DEF Made
  <2>3. Balanced(file, key)'
    BY <1>2, <2>1, <2>2 DEF Balanced
  <2>4. after \in Nat /\ after <= Cardinality(Callers) /\ Cardinality(Callers) \in Nat
    BY SomeCallers DEF Holders
  <2>5. CASE Holds(r, "count", key)
    <3>1. n > 0 /\ n \in Int
      BY <1>2, <2>5
    <3>2. n - after >= 1 - Cardinality(Callers)
      <4> HIDE DEF n, after
      <4> QED BY <2>4, <3>1
    <3> QED BY <2>3, <3>2 DEF Covered
  <2>6. CASE ~Holds(r, "count", key)
    <3>1. Holders("count", key)' = Holders("count", key)
      BY <1>2, <2>6, OneMoves DEF FaultInv
    <3> QED BY <1>2, <2>3, <3>1 DEF Covered
  <2> QED BY <2>3, <2>5, <2>6
<1> QED BY <1>1, <1>2, CallerMoves

(* A look-up.                                                              *)
LEMMA LookupKeeps ==
  ASSUME FaultInv, NEW c \in Callers, NEW api, handler_lookup(c, api)
  PROVE  FaultInv'
<1> DEFINE key == IF api = FakeLaunch THEN NoConfig ELSE lookupConfig(tree.faults, api)
           r == [pc |-> "matched", key |-> key, version |-> tree.version, fault |-> NoConfig]
<1>1. caller[c].pc = "idle" /\ UNCHANGED <<tree, injected, corrupted, configFile, reloads, changed, watcher>>
  BY DEF handler_lookup
<1>2. CASE key = NoConfig
  <2>1. caller' = caller
    BY <1>2 DEF handler_lookup
  <2>2. TreeType' /\ Numbered' /\ configFile' \in ConfigFiles
    BY <1>1 DEF FaultInv, TreeType, Numbered
  <2> QED BY <1>1, <2>1, <2>2, EntriesKept
<1>3. CASE key # NoConfig
  <2>1. caller' = [caller EXCEPT ![c] = r]
    BY <1>3 DEF handler_lookup
  <2>2. key \in DOMAIN tree.faults
    BY <1>3 DEF lookupConfig
  <2> HIDE DEF key
  <2>3. r.pc = "matched" /\ r.version = tree.version /\ r.key = key
    OBVIOUS
  <2>4. caller'[c] = r
    BY <2>1 DEF FaultInv
  <2>5. tree.version \in Nat
    BY DEF FaultInv, TreeType
  <2>6. CallerRecord(caller[c])'
    <3>1. key \in Keys
      BY <2>2 DEF FaultInv
    <3> QED BY <1>1, <2>2, <2>4, <2>5, <3>1 DEF CallerRecord, CallerType
  <2>7. \A k : /\ ~Holds(caller[c], "inject", k) /\ ~Holds(r, "inject", k)
               /\ ~Holds(caller[c], "count", k) /\ ~Holds(r, "count", k)
    BY <1>1, <2>3 DEF Holds
  <2> HIDE DEF r
  <2> QED BY <1>1, <2>1, <2>6, <2>7, CallerOnlyMoves
<1> QED BY <1>2, <1>3

(* A caller that passes its call over.                                     *)
LEMMA GivingUpKeeps ==
  ASSUME FaultInv, NEW c \in Callers, caller' = [caller EXCEPT ![c] = Idle],
         UNCHANGED <<tree, injected, corrupted, configFile, reloads, changed, watcher>>,
         caller[c].pc = "matched"
  PROVE  FaultInv'
<1>1. caller'[c] = Idle /\ tree.version \in Nat
  BY DEF FaultInv, TreeType
<1>2. CallerRecord(caller[c])'
  BY <1>1 DEF CallerRecord, CallerType, Idle
<1>3. \A k : /\ ~Holds(caller[c], "inject", k) /\ ~Holds(Idle, "inject", k)
             /\ ~Holds(caller[c], "count", k) /\ ~Holds(Idle, "count", k)
  BY DEF Holds, Idle
<1> QED BY <1>2, <1>3, CallerOnlyMoves

(* A caller with a reference to a node that was freed is in no account of  *)
(* the tree in force, however it goes on.                                  *)
LEMMA StaleGoesOn ==
  ASSUME FaultInv, NEW c \in Callers, ~Valid(c), NEW pc \in {"count", "inject"},
         caller' = [caller EXCEPT ![c] = [caller[c] EXCEPT !.pc = pc]],
         UNCHANGED <<tree, injected, corrupted, configFile, reloads, changed, watcher>>
  PROVE  FaultInv'
<1> DEFINE r == [caller[c] EXCEPT !.pc = pc]
<1>1. CallerRecord(caller[c]) /\ caller[c].version # tree.version
  BY DEF FaultInv, Valid
<1>2. r \in CallerType /\ r.version = caller[c].version
  BY <1>1 DEF CallerRecord, CallerType
<1> HIDE DEF r
<1>3. caller'[c] = r
  BY DEF FaultInv, r
<1>4. CallerRecord(caller[c])'
  BY <1>1, <1>2, <1>3 DEF CallerRecord
<1>5. \A p, k : ~Holds(caller[c], p, k) /\ ~Holds(r, p, k)
  BY <1>1, <1>2 DEF Holds
<1> QED BY <1>4, <1>5, CallerOnlyMoves DEF r

(* Its write to a node of the tree in force ends the account of that tree. *)
LEMMA StaleWrites ==
  ASSUME FaultInv, NEW c \in Callers, ~Valid(c), NEW at \in DOMAIN tree.faults,
         tree.faults[at].count # Unlimited,
         tree' = [tree EXCEPT !.faults[at].count = @ - 1], corrupted' = corrupted \cup {tree.version},
         caller' = [caller EXCEPT ![c] = [caller[c] EXCEPT !.pc = "inject"]],
         UNCHANGED <<injected, configFile, reloads, changed, watcher>>
  PROVE  FaultInv'
<1> DEFINE fault == tree.faults[at]
           low == [fault EXCEPT !.count = @ - 1]
           r == [caller[c] EXCEPT !.pc = "inject"]
<1>1. TreeType /\ CallerRecord(caller[c]) /\ caller[c].version # tree.version
  BY DEF FaultInv, Valid
<1>2. fault \in FaultRecord /\ fault.count \in Int
  BY <1>1 DEF TreeType, FaultRecord
<1>3. low \in FaultRecord /\ low.count \in Int
  <2>1. ASSUME NEW f \in FaultRecord, NEW n \in Int
        PROVE  [f EXCEPT !.count = n] \in FaultRecord /\ [f EXCEPT !.count = n].count = n
    BY DEF FaultRecord
  <2>2. fault.count - 1 \in Int
    BY <1>2
  <2> HIDE DEF fault
  <2>3. low = [fault EXCEPT !.count = fault.count - 1]
    OBVIOUS
  <2> QED BY <1>2, <2>1, <2>2, <2>3
<1>4. /\ tree'.faults = [tree.faults EXCEPT ![at] = low]
      /\ tree'.initialized = tree.initialized /\ tree'.version = tree.version
      /\ tree' = [initialized |-> tree'.initialized, dynamic |-> tree'.dynamic, faults |-> tree'.faults,
                  version |-> tree'.version]
  BY <1>1 DEF TreeType
<1> HIDE DEF fault, low
<1>5. /\ DOMAIN tree'.faults = DOMAIN tree.faults
      /\ \A k \in DOMAIN tree.faults : tree'.faults[k] = IF k = at THEN low ELSE tree.faults[k]
      /\ tree'.faults = [k \in DOMAIN tree'.faults |-> tree'.faults[k]]
  BY <1>1, <1>4 DEF TreeType
<1>6. TreeType' /\ InjectedType' /\ Numbered'
  <2>1. TreeType'
    BY <1>1, <1>3, <1>4, <1>5 DEF TreeType
  <2>2. InjectedType' /\ Numbered'
    BY <1>4 DEF FaultInv, InjectedType, Numbered
  <2> QED BY <2>1, <2>2
<1>7. r \in CallerType /\ r.version = caller[c].version
  BY <1>1 DEF CallerRecord, CallerType
<1> HIDE DEF r
<1>8. \A d \in Callers : caller'[d] = IF d = c THEN r ELSE caller[d]
  BY DEF FaultInv, r
<1>9. low.count # Unlimited
  BY <1>3, UnlimitedAssumption
<1>10. \A d \in Callers : CallerRecord(caller[d])'
  <2> SUFFICES ASSUME NEW d \in Callers
               PROVE  CallerRecord(caller[d])'
    OBVIOUS
  <2>1. CASE d = c
    BY <1>1, <1>4, <1>7, <1>8, <2>1 DEF CallerRecord
  <2>2. CASE d # c
    <3>1. caller'[d] = caller[d] /\ CallerRecord(caller[d])
      BY <1>8, <2>2 DEF FaultInv
    <3> QED BY <1>4, <1>5, <1>9, <3>1 DEF CallerRecord
  <2> QED BY <2>1, <2>2
<1>11. tree'.version \in corrupted' /\ DOMAIN tree'.faults \subseteq Keys
  BY <1>4, <1>5 DEF FaultInv
<1>12. caller' = [d \in Callers |-> caller'[d]]
  BY DEF FaultInv
<1> QED BY <1>6, <1>10, <1>11, <1>12 DEF FaultInv

(* What a handler does through a reference into a tree that was replaced.  *)
LEMMA StaleKeeps ==
  ASSUME FaultInv, NEW c \in Callers, handler_stale(c)
  PROVE  FaultInv'
<1>1. CASE handler_decide_stale(c)
  <2>1. /\ caller[c].pc = "matched" /\ ~Valid(c)
        /\ UNCHANGED <<tree, injected, corrupted, configFile, reloads, changed, watcher>>
    BY <1>1 DEF handler_decide_stale
  <2>2. \/ caller' = [caller EXCEPT ![c] = Idle]
        \/ \E pc \in {"count", "inject"} : caller' = [caller EXCEPT ![c] = [caller[c] EXCEPT !.pc = pc]]
    BY <1>1 DEF handler_decide_stale
  <2> QED BY <2>1, <2>2, GivingUpKeeps, StaleGoesOn
<1>2. CASE handler_count_stale(c)
  <2>1. /\ ~Valid(c) /\ caller' = [caller EXCEPT ![c] = [caller[c] EXCEPT !.pc = "inject"]]
        /\ UNCHANGED <<injected, configFile, reloads, changed, watcher>>
    BY <1>2 DEF handler_count_stale
  <2>2. CASE UNCHANGED <<tree, corrupted>>
    BY <2>1, <2>2, StaleGoesOn
  <2>3. ASSUME NEW key \in DOMAIN tree.faults, tree.faults[key].count # Unlimited,
               tree' = [tree EXCEPT !.faults[key].count = @ - 1],
               corrupted' = corrupted \cup {tree.version}
        PROVE  FaultInv'
    BY <2>1, <2>3, StaleWrites
  <2> QED BY <1>2, <2>2, <2>3 DEF handler_count_stale
<1> QED BY <1>1, <1>2 DEF handler_stale

(* The check, under no lock: who passes it saw a count above 0.            *)
LEMMA DecideKeeps ==
  ASSUME FaultInv, NEW c \in Callers, handler_decide(c)
  PROVE  FaultInv'
<1> DEFINE fault == tree.faults[caller[c].key]
           pc == IF fault.count = Unlimited THEN "inject" ELSE "count"
           r == [caller[c] EXCEPT !.pc = pc, !.fault = fault]
<1>1. /\ caller[c].pc = "matched" /\ Valid(c)
      /\ UNCHANGED <<tree, injected, corrupted, configFile, reloads, changed, watcher>>
  BY DEF handler_decide
<1>2. CASE caller' = [caller EXCEPT ![c] = Idle]
  BY <1>1, <1>2, GivingUpKeeps
<1>3. CASE caller' = [caller EXCEPT ![c] = r] /\ ~(fault.count # Unlimited /\ fault.count <= 0)
  <2>1. CallerRecord(caller[c]) /\ tree.version \in Nat /\ caller[c].version = tree.version
    BY <1>1 DEF FaultInv, TreeType, Valid
  <2>2. caller[c].key \in DOMAIN tree.faults
    BY <1>1, <2>1 DEF CallerRecord
  <2>3. fault.count \in Int \cup {Unlimited}
    BY <2>2 DEF FaultInv, TreeType, FaultRecord
  <2>4. fault \in FaultRecord /\ pc \in {"count", "inject"}
    BY <2>2 DEF FaultInv, TreeType
  <2>5. r \in CallerType /\ r.pc = pc /\ r.key = caller[c].key /\ r.version = caller[c].version
    <3> HIDE DEF pc, fault
    <3> QED BY <2>1, <2>4 DEF CallerRecord, CallerType
  <2> HIDE DEF r
  <2>6. caller'[c] = r
    BY <1>3 DEF FaultInv
  <2>7. CallerRecord(caller[c])'
    BY <1>1, <2>1, <2>2, <2>5, <2>6 DEF CallerRecord
  <2>8. ASSUME NEW k \in DOMAIN tree.faults, tree.faults[k].count \in Int
        PROVE  /\ ~Holds(caller[c], "inject", k) /\ ~Holds(r, "inject", k)
               /\ ~Holds(caller[c], "count", k)
               /\ Holds(r, "count", k) => tree.faults[k].count > 0
    <3>1. ~Holds(caller[c], "inject", k) /\ ~Holds(caller[c], "count", k)
      BY <1>1 DEF Holds
    <3>2. ~Holds(r, "inject", k)
      BY <2>5, <2>8, UnlimitedAssumption DEF Holds
    <3>3. Holds(r, "count", k) => tree.faults[k].count > 0
      BY <1>3, <2>3, <2>5, <2>8, UnlimitedAssumption DEF Holds
    <3> QED BY <3>1, <3>2, <3>3
  <2> QED BY <1>1, <1>3, <2>7, <2>8, CallerOnlyMoves
<1>4. \/ caller' = [caller EXCEPT ![c] = Idle]
      \/ caller' = [caller EXCEPT ![c] = r] /\ ~(fault.count # Unlimited /\ fault.count <= 0)
  BY DEF handler_decide
<1> QED BY <1>2, <1>3, <1>4

(* The lowering, under the write lock: one fewer is left and one fewer is  *)
(* at the lock, one more is under way.                                     *)
LEMMA CountKeeps ==
  ASSUME FaultInv, NEW c \in Callers, handler_count(c)
  PROVE  FaultInv'
<1> DEFINE at == caller[c].key
           fault == tree.faults[at]
           low == [fault EXCEPT !.count = @ - 1]
           r == [caller[c] EXCEPT !.pc = "inject"]
<1>1. /\ caller[c].pc = "count" /\ caller[c].version = tree.version
      /\ tree' = [tree EXCEPT !.faults[caller[c].key].count = @ - 1]
      /\ caller' = [caller EXCEPT ![c] = r]
      /\ UNCHANGED <<injected, corrupted, configFile, reloads, changed, watcher>>
  BY DEF handler_count, Valid
<1>2. CallerRecord(caller[c]) /\ TreeType
  BY DEF FaultInv
<1>3. at \in DOMAIN tree.faults /\ fault.count # Unlimited
  BY <1>1, <1>2 DEF CallerRecord
<1>4. fault \in FaultRecord
  BY <1>2, <1>3 DEF TreeType
<1>5. fault.count \in Int
  BY <1>3, <1>4 DEF FaultRecord
<1>6. low \in FaultRecord /\ low.count = fault.count - 1
  <2>1. ASSUME NEW f \in FaultRecord, NEW n \in Int
        PROVE  [f EXCEPT !.count = n] \in FaultRecord /\ [f EXCEPT !.count = n].count = n
    BY DEF FaultRecord
  <2>2. fault.count - 1 \in Int
    BY <1>5
  <2> HIDE DEF fault
  <2>3. low = [fault EXCEPT !.count = fault.count - 1]
    OBVIOUS
  <2> QED BY <1>4, <2>1, <2>2, <2>3
<1>7. tree'.faults = [tree.faults EXCEPT ![at] = low]
  BY <1>1, <1>2 DEF TreeType
<1>8. tree'.initialized = tree.initialized /\ tree'.dynamic = tree.dynamic /\ tree'.version = tree.version
  BY <1>1, <1>2 DEF TreeType
<1>9. tree' = [initialized |-> tree'.initialized, dynamic |-> tree'.dynamic, faults |-> tree'.faults,
               version |-> tree'.version]
  BY <1>1, <1>2 DEF TreeType
<1> HIDE DEF fault, low
<1>10. /\ DOMAIN tree'.faults = DOMAIN tree.faults
       /\ \A k \in DOMAIN tree.faults : tree'.faults[k] = IF k = at THEN low ELSE tree.faults[k]
       /\ tree'.faults = [k \in DOMAIN tree'.faults |-> tree'.faults[k]]
  BY <1>2, <1>3, <1>7 DEF TreeType
<1>11. TreeType'
  BY <1>2, <1>6, <1>8, <1>9, <1>10 DEF TreeType
<1>12. Numbered' /\ InjectedType'
  BY <1>1, <1>8 DEF FaultInv, Numbered, InjectedType
<1>13. r \in CallerType /\ r.pc = "inject" /\ r.key = at /\ r.version = caller[c].version
  BY <1>2 DEF CallerRecord, CallerType
<1> HIDE DEF r
<1>14. CallerRecord(caller[c])'
  <2>1. caller'[c] = r
    BY <1>1 DEF FaultInv
  <2> QED BY <1>1, <1>2, <1>8, <1>13, <2>1 DEF CallerRecord
<1>15. \A k \in DOMAIN tree.faults : tree'.faults[k].count = Unlimited <=> tree.faults[k].count = Unlimited
  BY <1>3, <1>5, <1>6, <1>10, UnlimitedAssumption DEF fault
<1>16. ASSUME NEW file \in ConfigFiles, NEW key \in DOMAIN tree.faults,
              tree.faults[key].count \in Int, file.faults[key].count \in Int,
              Balanced(file, key), Covered(file, key)
       PROVE  Balanced(file, key)' /\ Covered(file, key)'
  <2> DEFINE n == tree.faults[key].count
             n2 == tree'.faults[key].count
             conf == file.faults[key].count
             made == Made(key)
             passed == Cardinality(Holders("inject", key))
             passed2 == Cardinality(Holders("inject", key)')
             waits == Cardinality(Holders("count", key))
             waits2 == Cardinality(Holders("count", key)')
             N == Cardinality(Callers)
  <2>1. /\ passed \in Nat /\ passed2 \in Nat /\ waits \in Nat /\ waits2 \in Nat /\ N \in Nat
    BY SomeCallers DEF Holders
  <2>2. made \in Nat /\ Made(key)' = made
    BY <1>1, <1>8, MadeType DEF Made
  <2>3. n + made + passed = conf /\ n \in Int /\ conf \in Int
    BY <1>16 DEF Balanced
  <2>4. CASE key # at
    <3>1. n2 = n
      BY <1>10, <2>4
    <3>2. /\ Holds(caller[c], "inject", key) <=> Holds(r, "inject", key)
          /\ Holds(caller[c], "count", key) <=> Holds(r, "count", key)
      BY <1>13, <2>4 DEF Holds
    <3>3. Holders("inject", key)' = Holders("inject", key) /\ Holders("count", key)' = Holders("count", key)
      BY <1>1, <1>8, <3>2, OneMoves DEF FaultInv
    <3> QED BY <1>16, <2>2, <3>1, <3>3 DEF Balanced, Covered
  <2>5. CASE key = at
    <3>1. n2 = n - 1
      BY <1>6, <1>10, <2>5 DEF fault
    <3>2. /\ ~Holds(caller[c], "inject", key) /\ Holds(r, "inject", key)
          /\ Holds(caller[c], "count", key) /\ ~Holds(r, "count", key)
      BY <1>1, <1>13, <2>5 DEF Holds
    <3>3. passed2 = passed + 1 /\ waits2 = waits - 1
      BY <1>1, <1>8, <3>2, OneMoves DEF FaultInv
    <3>4. c \in Holders("count", key)
      BY <3>2 DEF Holders
    <3>5. n - waits >= 1 - N
      BY <1>16, <3>4 DEF Covered
    <3> HIDE DEF n, n2, conf, made, passed, passed2, waits, waits2, N
    <3>6. n2 + made + passed2 = conf
      BY <2>1, <2>2, <2>3, <3>1, <3>3
    <3>7. n2 - waits2 >= 1 - N
      BY <2>1, <2>3, <3>1, <3>3, <3>5
    <3>8. Balanced(file, key)'
      BY <2>2, <3>6 DEF Balanced, n2, passed2, conf
    <3>9. Covered(file, key)'
      BY <3>7 DEF Covered, n2, waits2, N
    <3> QED BY <3>8, <3>9
  <2> QED BY <2>4, <2>5
<1> QED BY <1>1, <1>8, <1>10, <1>11, <1>12, <1>14, <1>15, <1>16, CallerMoves

(* The injection: what was under way is made.                              *)
LEMMA InjectKeeps ==
  ASSUME FaultInv, NEW c \in Callers, handler_inject(c)
  PROVE  FaultInv'
<1> DEFINE at == caller[c].version
           mine == caller[c].key
           old == injected[at]
           new == [k \in DOMAIN old \cup {mine} |->
                     (IF k \in DOMAIN old THEN old[k] ELSE 0) + (IF k = mine THEN 1 ELSE 0)]
<1>1. /\ caller[c].pc = "inject" /\ caller' = [caller EXCEPT ![c] = Idle]
      /\ injected' = [injected EXCEPT ![at] = new]
      /\ UNCHANGED <<tree, corrupted, configFile, reloads, changed, watcher>>
  BY DEF handler_inject
<1>2. CallerRecord(caller[c]) /\ TreeType /\ InjectedType /\ tree.version \in 0 .. MaxReloads + 1
  BY MadeType DEF FaultInv
<1>3. at \in 0 .. MaxReloads + 1 /\ at <= tree.version
  BY <1>2, ReloadsAssumption DEF CallerRecord, CallerType
<1>4. \A k \in DOMAIN old : old[k] \in Nat
  BY <1>2, <1>3 DEF InjectedType
<1>5. DOMAIN new = DOMAIN old \cup {mine} /\ \A k \in DOMAIN new : new[k] \in Nat
  BY <1>4
<1>6. \A k : (IF k \in DOMAIN new THEN new[k] ELSE 0) =
               (IF k \in DOMAIN old THEN old[k] ELSE 0) + (IF k = mine THEN 1 ELSE 0)
  BY <1>4
<1>7. /\ injected'[at] = new
      /\ \A v \in 0 .. MaxReloads + 1 : v # at => injected'[v] = injected[v]
      /\ injected' = [v \in 0 .. MaxReloads + 1 |-> injected'[v]]
  BY <1>1, <1>2, <1>3 DEF InjectedType
<1> HIDE DEF new
<1>8. InjectedType'
  <2>1. \A v \in 0 .. MaxReloads + 1 : \A k \in DOMAIN injected'[v] : injected'[v][k] \in Nat
    BY <1>2, <1>5, <1>7 DEF InjectedType
  <2>2. \A v \in 0 .. MaxReloads + 1 : v > tree'.version => DOMAIN injected'[v] = {}
    BY <1>1, <1>2, <1>3, <1>7 DEF InjectedType
  <2> QED BY <1>7, <2>1, <2>2 DEF InjectedType
<1>9. TreeType' /\ Numbered' /\ CallerRecord(caller[c])'
  <2>1. caller'[c] = Idle /\ tree'.version \in Nat
    BY <1>1, <1>2 DEF FaultInv, TreeType
  <2>2. TreeType' /\ Numbered'
    BY <1>1 DEF FaultInv, TreeType, Numbered
  <2> QED BY <2>1, <2>2 DEF CallerRecord, CallerType, Idle
<1>10. ASSUME NEW file \in ConfigFiles, NEW key \in DOMAIN tree.faults,
              tree.faults[key].count \in Int, file.faults[key].count \in Int,
              Balanced(file, key), Covered(file, key)
       PROVE  Balanced(file, key)' /\ Covered(file, key)'
  <2> DEFINE n == tree.faults[key].count
             conf == file.faults[key].count
             made == Made(key)
             made2 == Made(key)'
             passed == Cardinality(Holders("inject", key))
             passed2 == Cardinality(Holders("inject", key)')
  <2>1. passed \in Nat /\ passed2 \in Nat
    BY SomeCallers DEF Holders
  <2>2. made \in Nat
    BY MadeType
  <2>3. n + made + passed = conf /\ n \in Int /\ conf \in Int
    BY <1>10 DEF Balanced
  <2>4. ~Holds(Idle, "inject", key) /\ ~Holds(Idle, "count", key) /\ ~Holds(caller[c], "count", key)
    BY <1>1 DEF Holds, Idle
  <2>5. Holders("count", key)' = Holders("count", key)
    BY <1>1, <2>4, OneMoves DEF FaultInv
  <2>6. Covered(file, key)'
    BY <1>1, <1>10, <2>5 DEF Covered
  <2>7. CASE Holds(caller[c], "inject", key)
    <3>1. passed2 = passed - 1
      BY <1>1, <2>4, <2>7, OneMoves DEF FaultInv
    <3>2. key = mine /\ at = tree.version
      BY <2>7 DEF Holds
    <3>3. made2 = made + 1
      BY <1>1, <1>6, <1>7, <3>2, <2>2 DEF Made
    <3> HIDE DEF n, conf, made, made2, passed, passed2
    <3>4. n + made2 + passed2 = conf
      BY <2>1, <2>2, <2>3, <3>1, <3>3
    <3>5. Balanced(file, key)'
      BY <1>1, <3>4 DEF Balanced, n, made2, passed2, conf
    <3> QED BY <2>6, <3>5
  <2>8. CASE ~Holds(caller[c], "inject", key)
    <3>1. Holders("inject", key)' = Holders("inject", key)
      BY <1>1, <2>4, <2>8, OneMoves DEF FaultInv
    <3>2. key # mine \/ at # tree.version
      BY <1>1, <2>8 DEF Holds
    <3>3. made2 = made
      <4>1. CASE at # tree.version
        BY <1>1, <1>2, <1>7, <4>1 DEF Made
      <4>2. CASE at = tree.version /\ key # mine
        BY <1>1, <1>6, <1>7, <4>2, <2>2 DEF Made
      <4> QED BY <3>2, <4>1, <4>2
    <3>4. Balanced(file, key)'
      BY <1>1, <1>10, <3>1, <3>3 DEF Balanced
    <3> QED BY <2>6, <3>4
  <2> QED BY <2>7, <2>8
<1> QED BY <1>1, <1>8, <1>9, <1>10, CallerMoves

(* FaultInv is an invariant of the injector.                               *)
THEOREM FaultInvariant == FaultSpec => []FaultInv
<1>1. FaultInit => FaultInv
  <2> SUFFICES ASSUME FaultInit
               PROVE  FaultInv
    OBVIOUS
  <2>1. tree.initialized = FALSE /\ tree.faults = NoFaults /\ tree.version = 0
    BY DEF FaultInit
  <2>2. TreeType
    <3>1. tree.faults = [k \in DOMAIN tree.faults |-> tree.faults[k]] /\ DOMAIN tree.faults = {}
      BY <2>1 DEF NoFaults
    <3>2. tree = [initialized |-> tree.initialized, dynamic |-> tree.dynamic, faults |-> tree.faults,
                  version |-> tree.version]
      BY DEF FaultInit
    <3>3. tree.initialized \in BOOLEAN
      BY <2>1
    <3>4. tree.version \in Nat
      BY <2>1
    <3> QED BY <3>1, <3>2, <3>3, <3>4 DEF TreeType
  <2>3. InjectedType
    BY ReloadsAssumption DEF FaultInit, InjectedType
  <2>4. Numbered
    BY <2>1, ReloadsAssumption DEF FaultInit, Numbered
  <2>5. \A c \in Callers : CallerRecord(caller[c])
    BY <2>1 DEF FaultInit, CallerRecord, CallerType, Idle
  <2>6. DOMAIN tree.faults = {}
    BY <2>1 DEF NoFaults
  <2> QED BY <2>2, <2>3, <2>4, <2>5, <2>6 DEF FaultInit, FaultInv
<1>2. FaultInv /\ [FaultNext]_faultVars => FaultInv'
  <2> SUFFICES ASSUME FaultInv, [FaultNext]_faultVars
               PROVE  FaultInv'
    OBVIOUS
  <2>1. CASE InitializeInjection \/ dynamicReconfig
    BY <2>1, ConfigIsRead
  <2>2. CASE edit_config \/ atExitHandler \/ join_watcher
    BY <2>2, FileOrExit
  <2>3. ASSUME NEW c \in Callers, handler(c)
        PROVE  FaultInv'
    BY <2>3, DecideKeeps, CountKeeps, InjectKeeps, StaleKeeps DEF handler
  <2>4. ASSUME NEW c \in Callers, NEW api \in DOMAIN ApiIds, handler_lookup(c, api)
        PROVE  FaultInv'
    BY <2>4, LookupKeeps
  <2>5. CASE UNCHANGED faultVars
    <3>1. UNCHANGED <<tree, caller, injected, corrupted, configFile, reloads, changed, watcher>>
      BY <2>5 DEF faultVars
    <3>2. TreeType' /\ Numbered' /\ configFile' \in ConfigFiles
      BY <3>1 DEF FaultInv, TreeType, Numbered
    <3> QED BY <3>1, <3>2, EntriesKept
  <2> QED BY <2>1, <2>2, <2>3, <2>4, <2>5 DEF FaultNext
<1> QED BY <1>1, <1>2, PTL DEF FaultSpec

(* What faultinj/README.md says of interceptionCount holds up to the other *)
(* threads: the injections made and under way and the count left add up to *)
(* the configured count, and the count falls no lower than one less than   *)
(* the number of threads below 0, whatever is reloaded meanwhile, as long  *)
(* as no handler has written to this configuration through a reference     *)
(* into the one before.                                                    *)
THEOREM CountsAreKept == FaultSpec => []InjectionsStayNearCount
<1>1. FaultInv => InjectionsStayNearCount
  <2> SUFFICES ASSUME FaultInv, tree.version \notin corrupted,
                      NEW key \in DOMAIN tree.faults, tree.faults[key].count # Unlimited
               PROVE  LET now == tree.faults[key]
                          made == IF key \in DOMAIN injected[tree.version] THEN injected[tree.version][key] ELSE 0
                          passed == Cardinality({c \in Callers : caller[c].pc = "inject" /\ caller[c].key = key
                                                                   /\ caller[c].version = tree.version})
                          allowed == {f.faults[key].count :
                                        f \in {g \in ConfigFiles : g.ok /\ key \in DOMAIN g.faults}}
                      IN  \E configured \in allowed \ {Unlimited} :
                            /\ now.count + made + passed = configured
                            /\ now.count < configured => now.count >= 1 - Cardinality(Callers)
    BY DEF InjectionsStayNearCount, CountsAddUp
  <2> DEFINE now == tree.faults[key]
             passed == Cardinality({c \in Callers : caller[c].pc = "inject" /\ caller[c].key = key
                                                      /\ caller[c].version = tree.version})
             allowed == {f.faults[key].count : f \in {g \in ConfigFiles : g.ok /\ key \in DOMAIN g.faults}}
             waits == Cardinality(Holders("count", key))
  <2>1. PICK file \in ConfigFiles : Accounted(file)
    BY DEF FaultInv, Accounted
  <2> DEFINE configured == file.faults[key].count
  <2>2. /\ file.ok /\ key \in DOMAIN file.faults /\ configured # Unlimited
        /\ Balanced(file, key) /\ Covered(file, key)
    BY <2>1 DEF Accounted
  <2>3. configured \in allowed \ {Unlimited}
    BY <2>1, <2>2
  <2>4. now.count \in Int /\ waits \in Nat /\ Cardinality(Callers) \in Nat
    BY SomeCallers DEF FaultInv, TreeType, FaultRecord, Holders
  <2>5. now.count + Made(key) + passed = configured
    BY <2>2 DEF Balanced, Holders, Holds
  <2>6. now.count < configured => now.count >= 1 - Cardinality(Callers)
    <3>1. now.count - waits >= 1 - Cardinality(Callers) \/ now.count = configured
      BY <2>2 DEF Covered
    <3> HIDE DEF now, waits, configured
    <3> QED BY <2>4, <3>1
  <2> HIDE DEF passed, allowed, configured
  <2>7. \E x \in allowed \ {Unlimited} :
          /\ now.count + Made(key) + passed = x
          /\ now.count < x => now.count >= 1 - Cardinality(Callers)
    BY <2>3, <2>5, <2>6
  <2> QED BY <2>7 DEF Made, passed, allowed
<1> QED BY <1>1, FaultInvariant, PTL

-----------------------------------------------------------------------------
(* The GPU monitor.  Its types; the device part of an answer is only       *)
(* compared with Failed, so nothing is asked of it.                        *)

Answers == {reply[g] : reply \in Replies, g \in GPUs} \ {NoHandle}

Infos == UNION {{[gpu |-> g, device |-> a.device, utilization |-> a.utilization] : g \in GPUs} : a \in Answers}

\* What getAllGPUInfo returns for one GPU.
Data == {<< >>} \cup {<<info>> : info \in Infos}

Stats == [samples : Seq(Infos), min : Int, max : Int, sum : Int, count : Nat]

Pcs == {"none", "check", "query", "update", "sleep", "ended"}

LoopStates == [pc : Pcs, results : Seq(Data), i : Nat]

NvmlType ==
    /\ monitoringThread \in 0 .. MaxStarts
    /\ lateJoins \in Nat
    /\ loop \in [Loops -> LoopStates]
    /\ DOMAIN lifecycleStats \subseteq GPUs
    /\ lifecycleStats \in [DOMAIN lifecycleStats -> Stats]

\* Loop threads are numbered in the order of their starts; a stop and a
\* running monitor have one.
Started ==
    /\ \A l \in Loops : l > monitoringThread => loop[l].pc = "none"
    /\ monitoring \/ stopping => monitoringThread # 0
    /\ stopping => ~monitoring

\* The newest loop apart, every live loop is one that a join gave up on.
Abandoned ==
    /\ Cardinality(Live \ {monitoringThread}) <= lateJoins
    /\ ~monitoring /\ ~stopping => Cardinality(Live) <= lateJoins

\* What a loop has in its hand for an index comes from that GPU.
InPlace(results) == \A k \in DOMAIN results : \A info \in Infos : results[k] = <<info>> => info.gpu = k

ResultsInPlace == \A l \in Loops : InPlace(loop[l].results)

\* min and max without the choice that Min and Max make.
Extremes(st, values) ==
    /\ \E k \in DOMAIN values : st.min = values[k]
    /\ \E k \in DOMAIN values : st.max = values[k]
    /\ \A k \in DOMAIN values : st.min <= values[k] /\ values[k] <= st.max

Describes(st, g) ==
    /\ \A k \in DOMAIN st.samples : st.samples[k].gpu = g /\ st.samples[k].device # Failed
    /\ st.count = Cardinality(DOMAIN readings(st))
    /\ st.sum = SumFunction(readings(st))
    /\ DOMAIN readings(st) # {} => Extremes(st, readings(st))

StatsInPlace == \A g \in DOMAIN lifecycleStats : Describes(lifecycleStats[g], g)

NvmlInv == NvmlType /\ Started /\ Abandoned /\ ResultsInPlace /\ StatsInPlace

-----------------------------------------------------------------------------
(* The stats of one GPU. *)

(* What an info of a query is made of.                                     *)
LEMMA InfoFields ==
  ASSUME NEW info \in Infos
  PROVE  info.gpu \in GPUs /\ (info.utilization = Failed \/ info.utilization \in Int)
<1>1. PICK a \in Answers, g \in GPUs : info = [gpu |-> g, device |-> a.device, utilization |-> a.utilization]
  BY DEF Infos
<1>2. a.utilization = Failed \/ a.utilization \in Int
  BY RepliesAssumption DEF Answers
<1> QED BY <1>1, <1>2

(* Where the readings of stats are, and what they are.                     *)
LEMMA ReadingsOf ==
  ASSUME NEW st \in Stats
  PROVE  /\ Len(st.samples) \in Nat /\ DOMAIN st.samples = 1 .. Len(st.samples)
         /\ \A k \in DOMAIN st.samples : st.samples[k] \in Infos
         /\ readings(st) \in [DOMAIN readings(st) -> Int]
         /\ DOMAIN readings(st) = {k \in DOMAIN st.samples : st.samples[k].utilization # Failed}
         /\ \A k \in DOMAIN readings(st) : readings(st)[k] = st.samples[k].utilization
         /\ IsFiniteSet(DOMAIN readings(st))
<1>1. st.samples \in Seq(Infos)
  BY DEF Stats
<1>2. Len(st.samples) \in Nat /\ DOMAIN st.samples = 1 .. Len(st.samples)
  BY <1>1
<1>3. \A k \in DOMAIN st.samples : st.samples[k] \in Infos
  BY <1>1, <1>2
<1>4. DOMAIN readings(st) = {k \in DOMAIN st.samples : st.samples[k].utilization # Failed}
  BY DEF readings
<1>5. \A k \in DOMAIN readings(st) : readings(st)[k] = st.samples[k].utilization
  BY DEF readings
<1>6. \A k \in DOMAIN readings(st) : readings(st)[k] \in Int
  BY <1>3, <1>4, <1>5, InfoFields
<1>7. readings(st) \in [DOMAIN readings(st) -> Int]
  BY <1>6 DEF readings
<1>8. IsFiniteSet(1 .. Len(st.samples))
  <2>1. 1 \in Int /\ Len(st.samples) \in Int
    BY <1>2
  <2> QED BY <2>1, FS_Interval
<1>9. IsFiniteSet(DOMAIN readings(st))
  BY <1>2, <1>4, <1>8, FS_Subset
<1> QED BY <1>2, <1>3, <1>4, <1>5, <1>7, <1>9

(* Fresh stats describe any GPU.                                           *)
LEMMA FreshStats == ASSUME NEW g PROVE NoStats \in Stats /\ Describes(NoStats, g)
<1>1. NoStats \in Stats
  BY DEF NoStats, Stats
<1>2. NoStats.samples = << >> /\ NoStats.count = 0 /\ NoStats.sum = 0
  BY DEF NoStats
<1>3. DOMAIN NoStats.samples = {}
  BY <1>2
<1>4. DOMAIN readings(NoStats) = {} /\ readings(NoStats) \in [{} -> Int]
  BY <1>1, <1>3, ReadingsOf
<1>5. Cardinality({}) = 0
  BY FS_EmptySet
<1>6. SumFunction(readings(NoStats)) = 0
  BY <1>4, SumOfNothing DEF SumFunction
<1>7. \A k \in DOMAIN NoStats.samples : FALSE
  BY <1>3
<1>8. NoStats.count = Cardinality(DOMAIN readings(NoStats))
  BY <1>2, <1>4, <1>5
<1>9. NoStats.sum = SumFunction(readings(NoStats))
  BY <1>2, <1>6
<1>10. Describes(NoStats, g)
  BY <1>4, <1>7, <1>8, <1>9 DEF Describes
<1> QED BY <1>1, <1>10

(* The stats stay well-formed.                                             *)
LEMMA ValueAdded ==
  ASSUME NEW st \in Stats, NEW v \in Int
  PROVE  addValue(st, v) \in Stats /\ addValue(st, v).samples = st.samples
<1>1. st.min \in Int /\ st.max \in Int /\ st.sum \in Int /\ st.count \in Nat
  BY DEF Stats
<1>2. PICK lo \in Int, hi \in Int : addValue(st, v) = [st EXCEPT !.min = lo, !.max = hi,
                                                       !.sum = @ + v, !.count = @ + 1]
  BY <1>1 DEF addValue
<1>3. st.sum + v \in Int /\ st.count + 1 \in Nat
  BY <1>1
<1>4. PICK s \in Int, c \in Nat : s = st.sum + v /\ c = st.count + 1
  BY <1>3
<1>5. addValue(st, v) = [st EXCEPT !.min = lo, !.max = hi, !.sum = s, !.count = c]
  BY <1>2, <1>4 DEF Stats
<1> QED BY <1>5 DEF Stats

(* One reading more: what a sum, a count and the extremes become.          *)
LEMMA OneReadingMore ==
  ASSUME NEW T, IsFiniteSet(T), NEW y, y \notin T,
         NEW f \in [T -> Int], NEW h \in [T \cup {y} -> Int], \A k \in T : f[k] = h[k],
         NEW st \in Stats, st.count = Cardinality(T), st.sum = SumFunction(f), T # {} => Extremes(st, f)
  PROVE  /\ addValue(st, h[y]).count = Cardinality(DOMAIN h)
         /\ addValue(st, h[y]).sum = SumFunction(h)
         /\ Extremes(addValue(st, h[y]), h)
<1> DEFINE v == h[y]
           new == addValue(st, v)
<1>1. v \in Int /\ DOMAIN f = T /\ DOMAIN h = T \cup {y}
  OBVIOUS
<1>2. /\ new.min = IF st.count = 0 \/ v < st.min THEN v ELSE st.min
      /\ new.max = IF st.count = 0 \/ v > st.max THEN v ELSE st.max
      /\ new.sum = st.sum + v
      /\ new.count = st.count + 1
  BY DEF addValue, Stats
<1> HIDE DEF new
<1>3. new.count = Cardinality(DOMAIN h)
  BY <1>1, <1>2, FS_AddElement
<1>4. new.sum = SumFunction(h)
  BY <1>1, <1>2, SumOfOneMore DEF SumFunction
<1>5. st.count = 0 <=> T = {}
  BY FS_EmptySet
<1>6. st.min \in Int /\ st.max \in Int
  BY DEF Stats
<1>7. Extremes(new, h)
  <2> HIDE DEF v
  <2>1. \A k \in T : f[k] \in Int /\ h[k] = f[k]
    OBVIOUS
  <2>2. h[y] = v
    BY DEF v
  <2>3. CASE T = {}
    <3>1. new.min = v /\ new.max = v
      BY <1>2, <1>5, <2>3
    <3>2. DOMAIN h = {y}
      BY <1>1, <2>3
    <3> QED BY <1>1, <2>2, <3>1, <3>2 DEF Extremes
  <2>4. CASE T # {}
    <3>1. PICK a \in T, b \in T : st.min = f[a] /\ st.max = f[b]
      BY <1>1, <2>4 DEF Extremes
    <3>2. \A k \in T : st.min <= f[k] /\ f[k] <= st.max
      BY <1>1, <2>4 DEF Extremes
    <3>3. /\ new.min = IF v < st.min THEN v ELSE st.min
          /\ new.max = IF v > st.max THEN v ELSE st.max
      BY <1>2, <1>5, <2>4
    <3>4. new.min <= v /\ v <= new.max /\ new.min <= st.min /\ st.max <= new.max
      BY <1>1, <1>6, <3>3
    <3>5. new.min \in Int /\ new.max \in Int
      BY <1>1, <1>6, <3>3
    <3>6. \A k \in DOMAIN h : new.min <= h[k] /\ h[k] <= new.max
      <4>1. ASSUME NEW k \in T PROVE new.min <= h[k] /\ h[k] <= new.max
        BY <1>6, <2>1, <3>2, <3>4, <3>5
      <4> QED BY <1>1, <2>2, <3>4, <4>1
    <3>7. \E k \in DOMAIN h : new.min = h[k]
      BY <1>1, <2>1, <2>2, <3>1, <3>3
    <3>8. \E k \in DOMAIN h : new.max = h[k]
      BY <1>1, <2>1, <2>2, <3>1, <3>3
    <3> QED BY <3>6, <3>7, <3>8 DEF Extremes
  <2> QED BY <2>3, <2>4
<1> QED BY <1>3, <1>4, <1>7 DEF new

(* A sample of the GPU the stats are of keeps them its own.                *)
LEMMA SampleAdded ==
  ASSUME NEW g, NEW st \in Stats, Describes(st, g), NEW info \in Infos, info.gpu = g
  PROVE  addSample(st, info) \in Stats /\ Describes(addSample(st, info), g)
<1> DEFINE n == Len(st.samples)
           y == n + 1
           kept == [st EXCEPT !.samples = Append(@, info)]
           new == addSample(st, info)
<1>1. CASE info.device = Failed
  BY <1>1 DEF addSample
<1>2. CASE info.device # Failed
  <2>1. kept \in Stats /\ kept.samples = Append(st.samples, info) /\ kept.min = st.min /\ kept.max = st.max
        /\ kept.sum = st.sum /\ kept.count = st.count
    BY DEF Stats
  <2>2. st.samples \in Seq(Infos)
    BY DEF Stats
  <2>3. n \in Nat /\ DOMAIN st.samples = 1 .. n /\ DOMAIN kept.samples = 1 .. y /\ kept.samples[y] = info
        /\ \A k \in 1 .. n : kept.samples[k] = st.samples[k]
    BY <2>1, <2>2
  <2>4. 1 .. y = (1 .. n) \cup {y} /\ y \notin 1 .. n
    BY <2>3
  <2>5. new = IF info.utilization = Failed THEN kept ELSE addValue(kept, info.utilization)
    BY <1>2 DEF addSample
  <2>6. \A k \in 1 .. y : kept.samples[k].gpu = g /\ kept.samples[k].device # Failed
    BY <1>2, <2>3, <2>4 DEF Describes
  <2> HIDE DEF kept, new, n, y
  <2> DEFINE f == readings(st)
             h == readings(kept)
             T == DOMAIN f
  <2>7. f \in [T -> Int] /\ IsFiniteSet(T) /\ T = {k \in 1 .. n : st.samples[k].utilization # Failed}
        /\ \A k \in T : f[k] = st.samples[k].utilization
    BY <2>3, ReadingsOf
  <2>8. h \in [DOMAIN h -> Int] /\ DOMAIN h = {k \in 1 .. y : kept.samples[k].utilization # Failed}
        /\ \A k \in DOMAIN h : h[k] = kept.samples[k].utilization
    BY <2>1, <2>3, ReadingsOf
  <2>9. CASE info.utilization = Failed
    <3>1. DOMAIN h = T
      BY <2>3, <2>4, <2>7, <2>8, <2>9
    <3>2. \A k \in T : h[k] = f[k]
      BY <2>3, <2>7, <2>8, <3>1
    <3>3. h = f
      BY <2>7, <2>8, <3>1, <3>2
    <3>4. new = kept
      BY <2>5, <2>9
    <3>5. kept.count = Cardinality(DOMAIN h) /\ kept.sum = SumFunction(h)
      BY <2>1, <3>3 DEF Describes
    <3>6. DOMAIN h # {} => Extremes(kept, h)
      BY <2>1, <3>3 DEF Describes, Extremes
    <3>7. Describes(kept, g)
      BY <2>3, <2>6, <3>5, <3>6 DEF Describes
    <3> QED BY <2>1, <3>4, <3>7 DEF new
  <2>10. CASE info.utilization # Failed
    <3>1. info.utilization \in Int
      BY <2>10, InfoFields
    <3>2. DOMAIN h = T \cup {y} /\ y \notin T /\ h[y] = info.utilization
      BY <2>3, <2>4, <2>7, <2>8, <2>10
    <3>3. \A k \in T : f[k] = h[k]
      BY <2>3, <2>7, <2>8, <3>2
    <3>4. new = addValue(kept, h[y])
      BY <2>5, <2>10, <3>2
    <3>5. kept.count = Cardinality(T) /\ kept.sum = SumFunction(f)
      BY <2>1 DEF Describes
    <3>6. T # {} => Extremes(kept, f)
      BY <2>1 DEF Describes, Extremes
    <3>7. new \in Stats /\ new.samples = kept.samples
      BY <2>1, <3>1, <3>2, <3>4, ValueAdded
    <3>8. readings(new) = h
      BY <3>7 DEF readings
    <3> HIDE DEF f, h, T
    <3>9. h \in [T \cup {y} -> Int]
      BY <2>8, <3>2
    <3>10. new.count = Cardinality(DOMAIN h) /\ new.sum = SumFunction(h) /\ Extremes(new, h)
      <4>1. kept \in Stats /\ f \in [T -> Int] /\ IsFiniteSet(T) /\ y \notin T
        BY <2>1, <2>7, <3>2
      <4> QED BY <3>3, <3>4, <3>5, <3>6, <3>9, <4>1, OneReadingMore
    <3>11. Describes(new, g)
      BY <2>3, <2>6, <3>7, <3>8, <3>10 DEF Describes
    <3> QED BY <3>7, <3>11 DEF new
  <2> HIDE DEF f, h, T
  <2> QED BY <2>9, <2>10 DEF new
<1> QED BY <1>1, <1>2

-----------------------------------------------------------------------------
(* The invariant. *)

(* There are finitely many live loops.                                     *)
LEMMA LoopsFinite == \A L \in SUBSET Loops : IsFiniteSet(L) /\ Cardinality(L) \in Nat
<1>1. IsFiniteSet(Loops)
  <2>1. 1 \in Int /\ MaxStarts \in Int
    BY StartsAssumption
  <2> QED BY <2>1, FS_Interval DEF Loops
<1> QED BY <1>1, FS_Subset, FS_CardinalityType

(* A smaller set of loops is not larger.                                   *)
LEMMA FewerLoops ==
  ASSUME NEW L \in SUBSET Loops, NEW K \in SUBSET L
  PROVE  Cardinality(K) \in Nat /\ Cardinality(L) \in Nat /\ Cardinality(K) <= Cardinality(L)
BY LoopsFinite, FS_Subset

(* No call of getAllGPUInfo puts the answer of a GPU elsewhere.            *)
LEMMA QueryInPlace ==
  ASSUME NEW results \in getAllGPUInfo
  PROVE  LET data == [g \in DOMAIN results |-> results[g].data]
         IN  data \in Seq(Data) /\ InPlace(data)
<1> DEFINE data == [g \in DOMAIN results |-> results[g].data]
<1>1. CASE results = << >>
  <2>1. DOMAIN results = 1 .. 0
    BY <1>1
  <2>2. data \in [1 .. 0 -> Data]
    BY <2>1
  <2>3. data \in Seq(Data)
    BY <2>2, SeqDef
  <2>4. InPlace(data)
    BY <2>1 DEF InPlace
  <2> QED BY <2>3, <2>4
<1>2. CASE results # << >>
  <2>1. PICK reply \in Replies : results = [g \in GPUs |-> gpu_result(g, reply[g])]
    BY <1>2 DEF getAllGPUInfo
  <2>2. ASSUME NEW g \in GPUs
        PROVE  data[g] \in Data /\ \A info \in Infos : data[g] = <<info>> => info.gpu = g
    <3>1. data[g] = gpu_result(g, reply[g]).data
      BY <2>1
    <3>2. CASE reply[g] = NoHandle
      <4>1. data[g] = << >>
        BY <3>1, <3>2 DEF gpu_result
      <4> QED BY <4>1 DEF Data
    <3>3. CASE reply[g] # NoHandle
      <4> DEFINE made == [gpu |-> g, device |-> reply[g].device, utilization |-> reply[g].utilization]
      <4>1. data[g] = <<made>>
        BY <3>1, <3>3 DEF gpu_result, populate_gpu_info_from_device
      <4>2. reply[g] \in Answers
        BY <3>3 DEF Answers
      <4>3. made \in Infos
        BY <4>2 DEF Infos
      <4>4. made.gpu = g
        OBVIOUS
      <4> HIDE DEF made, data
      <4>5. data[g] \in Data
        BY <4>1, <4>3 DEF Data
      <4>6. ASSUME NEW info \in Infos, data[g] = <<info>> PROVE info.gpu = g
        <5>1. info = made
          BY <4>1, <4>6
        <5> QED BY <4>4, <5>1
      <4> QED BY <4>5, <4>6
    <3> QED BY <3>2, <3>3
  <2>3. DOMAIN data = GPUs
    BY <2>1
  <2>4. PICK n \in Nat : GPUs = 1 .. n
    BY GPUsAssumption, FS_CardinalityType
  <2>5. data \in [1 .. n -> Data]
    BY <2>2, <2>3, <2>4
  <2>6. data \in Seq(Data)
    BY <2>5, SeqDef
  <2>7. InPlace(data)
    <3> HIDE DEF data
    <3> QED BY <2>2, <2>3 DEF InPlace
  <2> QED BY <2>6, <2>7
<1> QED BY <1>1, <1>2

(* Before the first start.                                                 *)
LEMMA NvmlInitially == ASSUME NvmlInit PROVE NvmlInv
<1> USE DEF NvmlInit
<1>1. NvmlType
  <2>1. << >> \in Seq(Data) /\ "none" \in Pcs /\ 0 \in Nat
    BY DEF Pcs
  <2>2. loop \in [Loops -> LoopStates]
    BY <2>1 DEF LoopStates
  <2>3. DOMAIN lifecycleStats = {}
    OBVIOUS
  <2>4. lifecycleStats \in [DOMAIN lifecycleStats -> Stats]
    BY <2>3
  <2>5. monitoringThread \in 0 .. MaxStarts /\ lateJoins \in Nat
    BY StartsAssumption
  <2> QED BY <2>2, <2>3, <2>4, <2>5 DEF NvmlType
<1>2. Started
  BY DEF Started
<1>3. Abandoned
  <2>1. Live = {}
    BY DEF Live
  <2>2. Live \ {monitoringThread} = {} /\ Cardinality({}) = 0
    BY <2>1, FS_EmptySet
  <2> QED BY <2>1, <2>2 DEF Abandoned
<1>4. ResultsInPlace
  <2>1. \A l \in Loops : loop[l].results = << >>
    OBVIOUS
  <2>2. InPlace(<< >>)
    BY DEF InPlace
  <2> QED BY <2>1, <2>2 DEF ResultsInPlace
<1>5. StatsInPlace
  BY DEF StatsInPlace
<1> QED BY <1>1, <1>2, <1>3, <1>4, <1>5 DEF NvmlInv

(* What is left to a step of a loop: the loop stays started, and holds     *)
(* data of the right GPUs; only the stats it may replace are looked at.    *)
LEMMA LoopStep ==
  ASSUME NvmlInv, NEW l \in Loops, loop[l].pc # "none", loop[l].pc # "ended",
         NEW s \in LoopStates, s.pc # "none", InPlace(s.results),
         loop' = [loop EXCEPT ![l] = s],
         UNCHANGED <<monitoring, monitoringThread, stopping, lateJoins>>
  PROVE  /\ loop' \in [Loops -> LoopStates]
         /\ monitoringThread' \in 0 .. MaxStarts /\ lateJoins' \in Nat
         /\ Started' /\ Abandoned' /\ ResultsInPlace'
<1>1. loop \in [Loops -> LoopStates] /\ monitoringThread \in 0 .. MaxStarts /\ lateJoins \in Nat
  BY DEF NvmlInv, NvmlType
<1>2. loop' \in [Loops -> LoopStates]
  BY <1>1
<1>3. \A k \in Loops : loop'[k] = IF k = l THEN s ELSE loop[k]
  BY <1>1
<1>4. Started'
  <2>1. ~(l > monitoringThread)
    BY DEF NvmlInv, Started
  <2>2. \A k \in Loops : k > monitoringThread => loop'[k].pc = "none"
    BY <1>3, <2>1 DEF NvmlInv, Started
  <2> QED BY <2>2 DEF NvmlInv, Started
<1>5. Live' \subseteq Live
  BY <1>3 DEF Live
<1>6. Abandoned'
  <2>1. Live \subseteq Loops
    BY DEF Live
  <2>2. Cardinality(Live') \in Nat /\ Cardinality(Live) \in Nat /\ Cardinality(Live') <= Cardinality(Live)
    BY <1>5, <2>1, FewerLoops
  <2>3. /\ Cardinality(Live' \ {monitoringThread}) \in Nat
        /\ Cardinality(Live \ {monitoringThread}) \in Nat
        /\ Cardinality(Live' \ {monitoringThread}) <= Cardinality(Live \ {monitoringThread})
    <3>1. Live \ {monitoringThread} \in SUBSET Loops
          /\ Live' \ {monitoringThread} \in SUBSET (Live \ {monitoringThread})
      BY <1>5, <2>1
    <3> QED BY <3>1, FewerLoops
  <2>4. Cardinality(Live' \ {monitoringThread}) <= lateJoins
    BY <1>1, <2>3 DEF NvmlInv, Abandoned
  <2>5. ASSUME ~monitoring, ~stopping PROVE Cardinality(Live') <= lateJoins
    <3>1. Cardinality(Live) <= lateJoins
      BY <2>5 DEF NvmlInv, Abandoned
    <3> QED BY <1>1, <2>2, <3>1
  <2> QED BY <2>4, <2>5 DEF Abandoned
<1>7. ResultsInPlace'
  <2>1. \A k \in Loops : InPlace(loop'[k].results)
    <3>1. InPlace(s.results)
      OBVIOUS
    <3> QED BY <1>3, <3>1 DEF NvmlInv, ResultsInPlace, InPlace
  <2> QED BY <2>1 DEF ResultsInPlace, InPlace
<1> QED BY <1>1, <1>2, <1>4, <1>6, <1>7

(* Stats that no step touches stay in place.                               *)
LEMMA StatsKept ==
  ASSUME StatsInPlace, lifecycleStats' = lifecycleStats PROVE StatsInPlace'
<1>1. \A g \in DOMAIN lifecycleStats' : Describes(lifecycleStats'[g], g)
  BY DEF StatsInPlace
<1> QED BY <1>1 DEF StatsInPlace, Describes, readings, Extremes

(* A step of a loop that leaves the stats alone.                           *)
LEMMA QuietLoopStep ==
  ASSUME NvmlInv, NEW l \in Loops, loop[l].pc # "none", loop[l].pc # "ended",
         NEW s \in LoopStates, s.pc # "none", InPlace(s.results),
         loop' = [loop EXCEPT ![l] = s],
         UNCHANGED <<monitoring, monitoringThread, stopping, lateJoins, lifecycleStats>>
  PROVE  NvmlInv'
<1>1. /\ loop' \in [Loops -> LoopStates]
      /\ monitoringThread' \in 0 .. MaxStarts /\ lateJoins' \in Nat
      /\ Started' /\ Abandoned' /\ ResultsInPlace'
  BY LoopStep
<1>2. NvmlType'
  BY <1>1 DEF NvmlInv, NvmlType
<1>3. StatsInPlace'
  BY StatsKept DEF NvmlInv
<1> QED BY <1>1, <1>2, <1>3 DEF NvmlInv

(* A step of NVML.java, or a stutter: the monitor does not move.           *)
LEMMA Aside ==
  ASSUME NvmlInv, UNCHANGED <<monitoring, loop, monitoringThread, stopping, lifecycleStats, lateJoins>>
  PROVE  NvmlInv'
<1>1. StatsInPlace'
  BY StatsKept DEF NvmlInv
<1>2. NvmlType' /\ Started' /\ Abandoned'
  BY DEF NvmlInv, NvmlType, Started, Abandoned, Live
<1>3. ResultsInPlace'
  BY DEF NvmlInv, ResultsInPlace, InPlace
<1> QED BY <1>1, <1>2, <1>3 DEF NvmlInv

(* A start: its loop is one more than those that were given up on, and     *)
(* replaced stats start empty.                                             *)
LEMMA StartStep == ASSUME NvmlInv, startMonitoring PROVE NvmlInv'
<1> USE DEF startMonitoring
<1> DEFINE m == monitoringThread + 1
           s == [loop[m] EXCEPT !.pc = "check"]
<1>1. /\ loop \in [Loops -> LoopStates] /\ monitoringThread \in 0 .. MaxStarts /\ lateJoins \in Nat
      /\ DOMAIN lifecycleStats \subseteq GPUs /\ lifecycleStats \in [DOMAIN lifecycleStats -> Stats]
  BY DEF NvmlInv, NvmlType
<1>2. m \in Loops /\ m > monitoringThread /\ monitoringThread' = m /\ m # 0
  BY <1>1, StartsAssumption DEF Loops
<1>3. s \in LoopStates /\ s.results = loop[m].results
  BY <1>1, <1>2 DEF LoopStates, Pcs
<1>4. loop' = [loop EXCEPT ![m] = s]
  BY <1>1, <1>2
<1>5. \A k \in Loops : loop'[k] = IF k = m THEN s ELSE loop[k]
  BY <1>1, <1>4
<1> HIDE DEF s
<1>6. \A g \in DOMAIN lifecycleStats' :
         /\ g \in GPUs
         /\ \/ lifecycleStats'[g] = NoStats
            \/ g \in DOMAIN lifecycleStats /\ lifecycleStats'[g] = lifecycleStats[g]
  <2>1. PICK results \in getAllGPUInfo :
          LET answered == {g \in DOMAIN results : results[g].data # << >> /\ results[g].data[1].device # Failed}
          IN  lifecycleStats' = [g \in DOMAIN lifecycleStats \cup answered |->
                                   IF g \in answered THEN NoStats ELSE lifecycleStats[g]]
    OBVIOUS
  <2>2. \A g \in DOMAIN results : g \in GPUs
    BY DEF getAllGPUInfo
  <2> QED BY <1>1, <2>1, <2>2
<1>7. \A g \in DOMAIN lifecycleStats' : lifecycleStats'[g] \in Stats
  BY <1>1, <1>6, FreshStats
<1>8. NvmlType'
  <2>1. lifecycleStats' = [g \in DOMAIN lifecycleStats' |-> lifecycleStats'[g]]
    OBVIOUS
  <2>2. lifecycleStats' \in [DOMAIN lifecycleStats' -> Stats]
    BY <1>7, <2>1
  <2>3. loop' \in [Loops -> LoopStates] /\ DOMAIN lifecycleStats' \subseteq GPUs
    BY <1>1, <1>3, <1>4, <1>6
  <2>4. monitoringThread' \in 0 .. MaxStarts /\ lateJoins' \in Nat
    BY <1>1, <1>2 DEF Loops
  <2> QED BY <2>2, <2>3, <2>4 DEF NvmlType
<1>9. Started'
  <2>1. \A l \in Loops : l > m => l > monitoringThread /\ l # m
    BY <1>1 DEF Loops
  <2>2. \A l \in Loops : l > m => loop'[l].pc = "none"
    BY <1>5, <2>1 DEF NvmlInv, Started
  <2> QED BY <1>2, <2>2 DEF Started
<1>10. Abandoned'
  <2>1. Live' \ {m} \in SUBSET Live /\ Live \in SUBSET Loops
    BY <1>5 DEF Live
  <2>2. Cardinality(Live) <= lateJoins
    BY DEF NvmlInv, Abandoned
  <2>3. Cardinality(Live' \ {m}) <= lateJoins
    BY <1>1, <2>1, <2>2, FewerLoops
  <2> QED BY <1>2, <2>3 DEF Abandoned
<1>11. ResultsInPlace'
  <2>1. \A k \in Loops : loop'[k].results = loop[k].results
    BY <1>3, <1>5
  <2> QED BY <2>1 DEF NvmlInv, ResultsInPlace, InPlace
<1>12. StatsInPlace'
  <2>1. \A g \in DOMAIN lifecycleStats' : Describes(lifecycleStats'[g], g)
    BY <1>6, FreshStats DEF NvmlInv, StatsInPlace
  <2> QED BY <2>1 DEF StatsInPlace, Describes, readings, Extremes
<1> QED BY <1>8, <1>9, <1>10, <1>11, <1>12 DEF NvmlInv

(* The steps of a stop: at most the newest loop is added to those that     *)
(* were given up on, and that one only when the join timed out.            *)
LEMMA StopSteps ==
  ASSUME NvmlInv, stopMonitoring \/ joined \/ join_timeout
  PROVE  NvmlInv'
<1>1. monitoringThread \in 0 .. MaxStarts /\ lateJoins \in Nat
  BY DEF NvmlInv, NvmlType
<1>2. loop' = loop /\ monitoringThread' = monitoringThread /\ lifecycleStats' = lifecycleStats
      /\ ~monitoring' /\ lateJoins' \in Nat /\ lateJoins <= lateJoins'
  <2>1. CASE stopMonitoring
    BY <1>1, <2>1 DEF stopMonitoring
  <2>2. CASE joined
    BY <1>1, <2>2 DEF joined, NvmlInv, Started
  <2>3. CASE join_timeout
    BY <1>1, <2>3 DEF join_timeout, NvmlInv, Started
  <2> QED BY <2>1, <2>2, <2>3
<1>3. monitoringThread \in Loops
  <2>1. monitoring \/ stopping
    BY DEF stopMonitoring, joined, join_timeout
  <2>2. monitoringThread # 0
    BY <2>1 DEF NvmlInv, Started
  <2> QED BY <1>1, <2>2 DEF Loops
<1>4. NvmlType'
  BY <1>2 DEF NvmlInv, NvmlType
<1>5. Started'
  <2>1. monitoringThread # 0
    BY <1>3 DEF Loops
  <2> QED BY <1>2, <2>1 DEF NvmlInv, Started
<1>6. Abandoned'
  <2> DEFINE Rest == Live \ {monitoringThread}
  <2>1. Live' = Live /\ Live \in SUBSET Loops /\ Rest \in SUBSET Loops
    BY <1>2 DEF Live
  <2>2. Cardinality(Live) \in Nat /\ Cardinality(Rest) \in Nat
    BY <2>1, LoopsFinite
  <2>3. Cardinality(Rest) <= lateJoins
    BY DEF NvmlInv, Abandoned
  <2>4. Cardinality(Rest) <= lateJoins'
    <3> HIDE DEF Rest
    <3> QED BY <1>1, <1>2, <2>2, <2>3
  <2>5. ASSUME ~stopping' PROVE Cardinality(Live) <= lateJoins'
    <3>1. CASE joined
      <4>1. monitoringThread \notin Live
        BY <3>1 DEF joined, Live
      <4>2. Rest = Live
        BY <4>1
      <4> QED BY <2>4, <4>2
    <3>2. CASE join_timeout
      <4>1. lateJoins' = lateJoins + 1
        BY <3>2 DEF join_timeout
      <4>2. Cardinality(Live) <= Cardinality(Rest) + 1
        <5>1. CASE monitoringThread \in Live
          <6>1. Cardinality(Rest) = Cardinality(Live) - 1
            BY <2>1, <5>1, LoopsFinite, FS_RemoveElement
          <6> HIDE DEF Rest
          <6> QED BY <2>2, <6>1
        <5>2. CASE monitoringThread \notin Live
          <6>1. Rest = Live
            BY <5>2
          <6> HIDE DEF Rest
          <6> QED BY <2>2, <6>1
        <5> QED BY <5>1, <5>2
      <4> HIDE DEF Rest
      <4> QED BY <1>1, <2>2, <2>3, <4>1, <4>2
    <3>3. CASE stopMonitoring
      BY <2>5, <3>3 DEF stopMonitoring
    <3> QED BY <3>1, <3>2, <3>3
  <2> QED BY <1>2, <2>1, <2>4, <2>5 DEF Abandoned
<1>7. ResultsInPlace' /\ StatsInPlace'
  BY <1>2, StatsKept DEF NvmlInv, ResultsInPlace, InPlace
<1> QED BY <1>4, <1>5, <1>6, <1>7 DEF NvmlInv

(* A loop at the flag, at its end of a round, or asleep.                   *)
LEMMA FlagSteps ==
  ASSUME NvmlInv, NEW l \in Loops, loop_check(l) \/ loop_report(l) \/ loop_sleep(l)
  PROVE  NvmlInv'
<1>1. loop \in [Loops -> LoopStates] /\ InPlace(loop[l].results)
  BY DEF NvmlInv, NvmlType, ResultsInPlace
<1>2. UNCHANGED <<monitoring, monitoringThread, stopping, lateJoins, lifecycleStats>>
  BY DEF loop_check, loop_report, loop_sleep, loopKeeps
<1>3. loop[l].pc # "none" /\ loop[l].pc # "ended"
  BY DEF loop_check, loop_report, loop_sleep
<1>4. ASSUME NEW pc \in {"check", "query", "ended"}, loop' = [loop EXCEPT ![l].pc = pc]
      PROVE  NvmlInv'
  <2> DEFINE s == [loop[l] EXCEPT !.pc = pc]
  <2>1. s \in LoopStates /\ s.pc # "none" /\ s.results = loop[l].results
    BY <1>1 DEF LoopStates, Pcs
  <2>2. loop' = [loop EXCEPT ![l] = s]
    BY <1>1, <1>4
  <2>3. InPlace(s.results)
    BY <1>1, <2>1
  <2> HIDE DEF s
  <2> QED BY <1>2, <1>3, <2>1, <2>2, <2>3, QuietLoopStep
<1>5. CASE loop_check(l)
  <2>1. PICK pc \in {"check", "query", "ended"} : loop' = [loop EXCEPT ![l].pc = pc]
    BY <1>5 DEF loop_check
  <2> QED BY <1>4, <2>1
<1>6. CASE loop_sleep(l)
  <2>1. loop' = [loop EXCEPT ![l].pc = "check"]
    BY <1>6 DEF loop_sleep
  <2> QED BY <1>4, <2>1
<1>7. CASE loop_report(l)
  <2>1. PICK pc \in {"sleep", "check", "ended"} : loop' = [loop EXCEPT ![l] = [pc |-> pc, results |-> << >>, i |-> 0]]
    BY <1>7 DEF loop_report
  <2> DEFINE s == [pc |-> pc, results |-> << >>, i |-> 0]
  <2>2. << >> \in Seq(Data) /\ InPlace(<< >>)
    BY DEF InPlace
  <2>3. s \in LoopStates /\ s.pc # "none" /\ InPlace(s.results)
    BY <2>2 DEF LoopStates, Pcs
  <2>4. loop' = [loop EXCEPT ![l] = s]
    BY <2>1
  <2> HIDE DEF s
  <2> QED BY <1>2, <1>3, <2>3, <2>4, QuietLoopStep
<1> QED BY <1>5, <1>6, <1>7

(* A query.                                                                *)
LEMMA QueryStep ==
  ASSUME NvmlInv, NEW l \in Loops, loop_query(l) PROVE NvmlInv'
<1>1. UNCHANGED <<monitoring, monitoringThread, stopping, lateJoins, lifecycleStats>>
  BY DEF loop_query, loopKeeps
<1>2. loop[l].pc # "none" /\ loop[l].pc # "ended"
  BY DEF loop_query
<1>3. << >> \in getAllGPUInfo
  BY DEF getAllGPUInfo
<1>4. PICK results \in getAllGPUInfo :
        loop' = [loop EXCEPT ![l] = [pc |-> IF results = << >> THEN "sleep" ELSE "update",
                                     results |-> [g \in DOMAIN results |-> results[g].data], i |-> 1]]
  BY <1>3 DEF loop_query
<1> DEFINE data == [g \in DOMAIN results |-> results[g].data]
<1>5. data \in Seq(Data) /\ InPlace(data)
  BY QueryInPlace
<1>6. PICK pc \in {"sleep", "update"} : loop' = [loop EXCEPT ![l] = [pc |-> pc, results |-> data, i |-> 1]]
  BY <1>4
<1> HIDE DEF data
<1> DEFINE s == [pc |-> pc, results |-> data, i |-> 1]
<1>7. s \in LoopStates /\ s.pc # "none" /\ InPlace(s.results)
  BY <1>5 DEF LoopStates, Pcs
<1>8. loop' = [loop EXCEPT ![l] = s]
  BY <1>6
<1> HIDE DEF s
<1> QED BY <1>1, <1>2, <1>7, <1>8, QuietLoopStep

(* A sample reaches the stats of its GPU, whichever loop has it in hand.   *)
LEMMA UpdateStep ==
  ASSUME NvmlInv, NEW l \in Loops, loop_update(l) PROVE NvmlInv'
<1> DEFINE lp == loop[l]
           s == [lp EXCEPT !.i = @ + 1]
           infos == lp.results[lp.i]
<1>1. loop \in [Loops -> LoopStates] /\ DOMAIN lifecycleStats \subseteq GPUs
      /\ lifecycleStats \in [DOMAIN lifecycleStats -> Stats]
  BY DEF NvmlInv, NvmlType
<1>2. lp.i \in Nat /\ lp.results \in Seq(Data) /\ lp.pc = "update" /\ lp.i <= Len(lp.results)
  BY <1>1 DEF loop_update, LoopStates
<1>3. s \in LoopStates /\ s.pc = "update" /\ s.results = lp.results
  BY <1>1, <1>2 DEF LoopStates
<1>4. loop' = [loop EXCEPT ![l] = s]
  BY <1>1 DEF loop_update
<1>5. InPlace(lp.results)
  BY DEF NvmlInv, ResultsInPlace
<1>6. UNCHANGED <<monitoring, monitoringThread, stopping, lateJoins>>
  BY DEF loop_update, loopKeeps
<1>7. /\ loop' \in [Loops -> LoopStates]
      /\ monitoringThread' \in 0 .. MaxStarts /\ lateJoins' \in Nat
      /\ Started' /\ Abandoned' /\ ResultsInPlace'
  <2>1. s.pc # "none" /\ InPlace(s.results) /\ loop[l].pc # "none" /\ loop[l].pc # "ended"
    BY <1>2, <1>3, <1>5
  <2> HIDE DEF s, lp
  <2> QED BY <1>3, <1>4, <1>6, <2>1, LoopStep
<1>8. /\ DOMAIN lifecycleStats' = DOMAIN lifecycleStats
      /\ lifecycleStats' = [g \in DOMAIN lifecycleStats' |-> lifecycleStats'[g]]
      /\ \A g \in DOMAIN lifecycleStats' : lifecycleStats'[g] \in Stats /\ Describes(lifecycleStats'[g], g)
  <2>1. CASE infos # << >> /\ lp.i \in DOMAIN lifecycleStats
    <3>1. lifecycleStats' = [lifecycleStats EXCEPT ![lp.i] = addSample(@, infos[1])]
      BY <2>1 DEF loop_update
    <3>2. lp.i \in DOMAIN lp.results
      <4>1. lp.i \in 1 .. Cardinality(GPUs)
        BY <1>1, <2>1, GPUsAssumption
      <4>2. lp.i >= 1
        BY <4>1, <1>2
      <4> QED BY <1>2, <4>2
    <3>3. infos \in Data
      BY <1>2, <3>2
    <3>4. PICK info \in Infos : infos = <<info>>
      BY <2>1, <3>3 DEF Data
    <3>5. info.gpu = lp.i /\ infos[1] = info
      BY <1>5, <3>2, <3>4 DEF InPlace
    <3> DEFINE st == lifecycleStats[lp.i]
               new == addSample(st, info)
    <3>6. st \in Stats /\ Describes(st, lp.i)
      BY <1>1, <2>1 DEF NvmlInv, StatsInPlace
    <3> HIDE DEF st
    <3>7. new \in Stats /\ Describes(new, lp.i)
      <4> DEFINE g == lp.i
      <4>1. Describes(st, g) /\ info.gpu = g
        BY <3>5, <3>6
      <4> HIDE DEF g, new
      <4>2. new \in Stats /\ Describes(new, g)
        BY <3>6, <4>1, SampleAdded DEF new
      <4> QED BY <4>2 DEF g
    <3>8. lifecycleStats' = [lifecycleStats EXCEPT ![lp.i] = new]
      BY <3>1, <3>5 DEF st
    <3> HIDE DEF new, lp, infos
    <3>9. \A g \in DOMAIN lifecycleStats : lifecycleStats'[g] = IF g = lp.i THEN new ELSE lifecycleStats[g]
      BY <1>1, <3>8
    <3>10. DOMAIN lifecycleStats' = DOMAIN lifecycleStats
           /\ lifecycleStats' = [g \in DOMAIN lifecycleStats' |-> lifecycleStats'[g]]
      BY <3>8
    <3>11. \A g \in DOMAIN lifecycleStats : lifecycleStats[g] \in Stats /\ Describes(lifecycleStats[g], g)
      BY <1>1 DEF NvmlInv, StatsInPlace
    <3> QED BY <3>7, <3>9, <3>10, <3>11
  <2>2. CASE ~(infos # << >> /\ lp.i \in DOMAIN lifecycleStats)
    <3>1. lifecycleStats' = lifecycleStats
      BY <2>2 DEF loop_update
    <3> HIDE DEF infos, lp
    <3> QED BY <1>1, <3>1 DEF NvmlInv, StatsInPlace
  <2> QED BY <2>1, <2>2
<1>9. NvmlType'
  <2>1. lifecycleStats' \in [DOMAIN lifecycleStats' -> Stats]
    BY <1>8
  <2> QED BY <1>1, <1>7, <1>8, <2>1 DEF NvmlType
<1>10. StatsInPlace'
  <2>1. \A g \in DOMAIN lifecycleStats' : Describes(lifecycleStats'[g], g)
    BY <1>8
  <2> QED BY <2>1 DEF StatsInPlace, Describes, readings, Extremes
<1> QED BY <1>7, <1>9, <1>10 DEF NvmlInv

(* Every behaviour of the monitor satisfies the invariant.                 *)
THEOREM NvmlInvariant == NvmlSpec => []NvmlInv
<1>1. NvmlInit => NvmlInv
  BY NvmlInitially
<1>2. ASSUME NvmlInv, [NvmlNext]_nvmlVars PROVE NvmlInv'
  <2>1. CASE initialize \/ nvml_shutdown \/ UNCHANGED nvmlVars
    <3>1. UNCHANGED <<monitoring, loop, monitoringThread, stopping, lifecycleStats, lateJoins>>
      BY <2>1 DEF initialize, nvml_shutdown, nvmlVars
    <3> QED BY <1>2, <3>1, Aside
  <2>2. CASE startMonitoring
    BY <1>2, <2>2, StartStep
  <2>3. CASE stopMonitoring \/ joined \/ join_timeout
    BY <1>2, <2>3, StopSteps
  <2>4. ASSUME NEW l \in Loops, monitoringLoop(l) PROVE NvmlInv'
    <3>1. CASE loop_check(l) \/ loop_report(l) \/ loop_sleep(l)
      BY <1>2, <3>1, FlagSteps
    <3>2. CASE loop_query(l)
      BY <1>2, <3>2, QueryStep
    <3>3. CASE loop_update(l)
      BY <1>2, <3>3, UpdateStep
    <3> QED BY <2>4, <3>1, <3>2, <3>3 DEF monitoringLoop
  <2> QED BY <1>2, <2>1, <2>2, <2>3, <2>4 DEF NvmlNext
<1> QED BY <1>1, <1>2, PTL DEF NvmlSpec

(* However starts, stops and loops interleave, the loops that sample the   *)
(* GPUs beyond the newest are ones whose join timed out.                   *)
THEOREM LoopsAreCounted == NvmlSpec => []LoopsAreAccountedFor
<1>1. NvmlInv => LoopsAreAccountedFor
  <2> SUFFICES ASSUME NvmlInv PROVE LoopsAreAccountedFor
    OBVIOUS
  <2> DEFINE Rest == Live \ {monitoringThread}
  <2>1. Live \in SUBSET Loops /\ Rest \in SUBSET Loops
    BY DEF Live
  <2>2. Cardinality(Live) \in Nat /\ Cardinality(Rest) \in Nat
    BY <2>1, LoopsFinite
  <2>3. Cardinality(Rest) <= lateJoins /\ lateJoins \in Nat
    BY DEF NvmlInv, NvmlType, Abandoned
  <2>4. Cardinality(Live) <= Cardinality(Rest) + 1
    <3>1. CASE monitoringThread \in Live
      <4>1. Cardinality(Rest) = Cardinality(Live) - 1
        BY <2>1, <3>1, LoopsFinite, FS_RemoveElement
      <4> HIDE DEF Rest
      <4> QED BY <2>2, <4>1
    <3>2. CASE monitoringThread \notin Live
      <4>1. Rest = Live
        BY <3>2
      <4> HIDE DEF Rest
      <4> QED BY <2>2, <4>1
    <3> QED BY <3>1, <3>2
  <2> HIDE DEF Rest
  <2>5. Cardinality(Live) <= lateJoins + 1
    BY <2>2, <2>3, <2>4
  <2> QED BY <2>5 DEF LoopsAreAccountedFor, NvmlInv, Abandoned
<1> QED BY <1>1, NvmlInvariant, PTL

(* However loops, restarts and failing GPUs interleave, the stats at an    *)
(* index are those of the samples of the GPU with that index.              *)
THEOREM StatsAreOfTheirGPU == NvmlSpec => []StatsDescribeTheirGPU
<1>1. NvmlInv => StatsDescribeTheirGPU
  <2> SUFFICES ASSUME NvmlInv, NEW g \in DOMAIN lifecycleStats
               PROVE  LET st == lifecycleStats[g]
                          values == readings(st)
                      IN  /\ \A k \in DOMAIN st.samples : st.samples[k].gpu = g /\ st.samples[k].device # Failed
                          /\ st.count = Cardinality(DOMAIN values)
                          /\ st.sum = SumFunction(values)
                          /\ DOMAIN values # {} => st.min = Min(Range(values)) /\ st.max = Max(Range(values))
    BY DEF StatsDescribeTheirGPU
  <2> DEFINE st == lifecycleStats[g]
             values == readings(st)
  <2>1. Describes(st, g) /\ st \in Stats
    BY DEF NvmlInv, NvmlType, StatsInPlace
  <2> HIDE DEF st
  <2>2. values \in [DOMAIN values -> Int]
    BY <2>1, ReadingsOf
  <2>3. ASSUME DOMAIN values # {}
        PROVE  st.min = Min(Range(values)) /\ st.max = Max(Range(values))
    <3>1. Extremes(st, values)
      BY <2>1, <2>3 DEF Describes
    <3> HIDE DEF values
    <3>2. Range(values) \in SUBSET Int
      BY <2>2 DEF Range
    <3>3. st.min \in Range(values) /\ \A v \in Range(values) : st.min <= v
      BY <3>1 DEF Extremes, Range
    <3>4. st.max \in Range(values) /\ \A v \in Range(values) : v <= st.max
      BY <3>1 DEF Extremes, Range
    <3>5. st.min = Min(Range(values))
      <4>1. \A m \in Range(values) : (\A v \in Range(values) : m <= v) => m = st.min
        BY <3>2, <3>3
      <4> QED BY <3>3, <4>1 DEF Min
    <3>6. st.max = Max(Range(values))
      <4>1. \A m \in Range(values) : (\A v \in Range(values) : m >= v) => m = st.max
        BY <3>2, <3>4
      <4>2. \A v \in Range(values) : st.max >= v
        BY <3>2, <3>4
      <4> QED BY <3>4, <4>1, <4>2 DEF Max
    <3> QED BY <3>5, <3>6
  <2> QED BY <2>1, <2>3 DEF Describes, st
<1> QED BY <1>1, NvmlInvariant, PTL
=============================================================================
