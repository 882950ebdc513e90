---------------------------- MODULE TimeZoneDB ----------------------------
(***************************************************************************)
(* GpuTimeZoneDB.java: the process-wide table of time zones.  One thread   *)
(* loads it in the background, others convert timestamps with it, shutdown *)
(* closes it.  The four static fields are written under the class's        *)
(* monitor and read mostly without it: a reader relies on the volatile     *)
(* tzNameToIndexMap, which loadData writes last.                           *)
(*                                                                         *)
(* A field is NoTable or the number of the load that wrote it; a closed    *)
(* column is one whose field moved on.  Contents of the table: TimeZones.  *)
(***************************************************************************)
EXTENDS Integers

CONSTANTS Threads,      \* callers and loading threads
          MaxCalls,     \* bound on the calls made in all
          NoThread      \* the monitor's owner when it is free

ASSUME NoThreadAssumption == NoThread \notin Threads

NoTable == 0
NoCall == [op |-> "none", at |-> "idle", seen |-> NoTable, lost |-> FALSE, disturbed |-> FALSE, whole |-> FALSE]
Pending == [how |-> "none", op |-> "none", whole |-> FALSE, disturbed |-> FALSE]

VARIABLES
    zoneIdToTable,      \* the load that made the map, NoTable when there is none
    filled,             \* the loop over the zones has put every zone into it
    fixedTransitions, dstRules, tzNameToIndexMap,
    lock,               \* owner of the monitor of GpuTimeZoneDB.class
    call,               \* by thread: its call, where it is in it, the column it took, whether its zone
                        \* was not found, whether a shutdown ran meanwhile, whether the table was whole
    outcome,            \* by thread: how its last call ended, and that call
    loads, calls,       \* loads begun, calls made
    escaped             \* history: the loads an Error ended

fields == <<zoneIdToTable, filled, fixedTransitions, dstRules, tzNameToIndexMap>>
zoneVars == <<fields, lock, call, outcome, loads, escaped, calls>>

ZonesInit ==
    /\ zoneIdToTable = NoTable /\ filled = FALSE
    /\ fixedTransitions = NoTable /\ dstRules = NoTable /\ tzNameToIndexMap = NoTable
    /\ lock = NoThread
    /\ call = [t \in Threads |-> NoCall]
    /\ outcome = [t \in Threads |-> Pending]
    /\ loads = 0 /\ calls = 0 /\ escaped = {}

\* The table is there, complete, and of one load.
Whole == /\ tzNameToIndexMap # NoTable /\ filled
         /\ \A f \in {zoneIdToTable, fixedTransitions, dstRules} : f = tzNameToIndexMap

At(t, where) == call[t].at = where
Go(t, where) == call' = [call EXCEPT ![t].at = where]

\* The call ends; the monitor is released if this thread holds it.
Return(t, how) ==
    /\ call' = [call EXCEPT ![t] = NoCall]
    /\ outcome' = [outcome EXCEPT ![t] = [how |-> how, op |-> call[t].op, whole |-> call[t].whole, disturbed |-> call[t].disturbed]]
    /\ lock' = IF lock = t THEN NoThread ELSE lock

\* cacheDatabase and cacheDatabaseAsync (whose thread logs the failure), shutdown, the conversions
\* of a zone by name, of a column that names a zone per row, the lookup of an index, and the
\* synchronized getters of a column.
Operations == {"cacheDatabase", "shutdown", "convert", "convertWithTzCv", "getIndex", "getTzNameToIndexMap"}

Begin(t, op) ==
    /\ At(t, "idle") /\ calls < MaxCalls
    /\ calls' = calls + 1
    /\ call' = [call EXCEPT ![t] = [NoCall EXCEPT !.op = op, !.whole = Whole,
                    !.disturbed = \E u \in Threads : call[u].op = "shutdown",
                    !.at = CASE op = "cacheDatabase" -> "load" [] op = "shutdown" -> "close"
                             [] op = "convert" -> "zone" [] op = "getTzNameToIndexMap" -> "names"
                             [] OTHER -> "verify"]]
    /\ outcome' = [outcome EXCEPT ![t] = Pending]
    /\ UNCHANGED <<fields, lock, loads, escaped>>

-----------------------------------------------------------------------------
(* Loading: cacheDatabaseImpl and loadData, all under the monitor *)

cacheDatabaseImpl(t) ==
    /\ At(t, "load") /\ lock = NoThread
    /\ \/ fixedTransitions # NoTable /\ Return(t, "ok") /\ UNCHANGED loads
       \/ fixedTransitions = NoTable /\ lock' = t /\ loads' = loads + 1 /\ Go(t, "map") /\ UNCHANGED outcome
    /\ UNCHANGED <<fields, escaped, calls>>

\* loadData, field by field: others see the map while it is being filled.
load_map(t) ==
    /\ At(t, "map") /\ zoneIdToTable' = loads /\ filled' = FALSE /\ Go(t, "fill")
    /\ UNCHANGED <<fixedTransitions, dstRules, tzNameToIndexMap, lock, outcome, loads, escaped, calls>>
load_fill(t) ==
    /\ At(t, "fill") /\ filled' = TRUE /\ Go(t, "fixed")
    /\ UNCHANGED <<zoneIdToTable, fixedTransitions, dstRules, tzNameToIndexMap, lock, outcome, loads, escaped, calls>>
load_fixed(t) ==
    /\ At(t, "fixed") /\ fixedTransitions' = loads /\ Go(t, "rules")
    /\ UNCHANGED <<zoneIdToTable, filled, dstRules, tzNameToIndexMap, lock, outcome, loads, escaped, calls>>

load_rules(t) ==
    /\ At(t, "rules") /\ dstRules' = loads /\ Go(t, "index")
    /\ UNCHANGED <<zoneIdToTable, filled, fixedTransitions, tzNameToIndexMap, lock, outcome, loads, escaped, calls>>
load_names(t) ==
    /\ At(t, "index") /\ tzNameToIndexMap' = loads /\ Return(t, "ok")
    /\ UNCHANGED <<zoneIdToTable, filled, fixedTransitions, dstRules, loads, escaped, calls>>

\* A mutant: a failed load leaves what it had made.
load_fails_open(t) ==
    /\ call[t].at \in {"fill", "fixed", "rules", "index"}
    /\ Return(t, "failed")
    /\ UNCHANGED <<fields, loads, escaped, calls>>

\* loadData throws an Exception (a rule it does not support, a failed native call): cacheDatabaseImpl
\* closes everything.
load_fails(t) ==
    /\ call[t].at \in {"fill", "fixed", "rules", "index"}
    /\ Go(t, "clear_zones")
    /\ UNCHANGED <<fields, lock, outcome, loads, escaped, calls>>

\* An Error (OutOfMemoryError, of the heap or of host memory) is no Exception: neither catch sees
\* it, nothing is closed and what the load had made stays.
load_error(t) ==
    /\ call[t].at \in {"map", "fill", "fixed", "rules", "index"}
    /\ Return(t, "error")
    /\ escaped' = escaped \cup {loads}
    /\ UNCHANGED <<fields, loads, calls>>

-----------------------------------------------------------------------------
(* Closing: shutdown and the failed load run closeResources *)

\* Every call in progress, and every one begun before it ends, may meet it.
shutdown(t) ==
    /\ At(t, "close") /\ lock = NoThread
    /\ lock' = t
    /\ call' = [u \in Threads |-> IF u = t THEN [call[t] EXCEPT !.at = "clear_zones"]
                                  ELSE IF call[u].at = "idle" THEN call[u] ELSE [call[u] EXCEPT !.disturbed = TRUE]]
    /\ UNCHANGED <<fields, outcome, loads, escaped, calls>>

\* closeResources clears the map before it drops it.
clear_zones(t) ==
    /\ At(t, "clear_zones") /\ filled' = FALSE /\ Go(t, "close_zones")
    /\ UNCHANGED <<zoneIdToTable, fixedTransitions, dstRules, tzNameToIndexMap, lock, outcome, loads, escaped, calls>>
close_zones(t) ==
    /\ At(t, "close_zones") /\ zoneIdToTable' = NoTable /\ Go(t, "close_fixed")
    /\ UNCHANGED <<filled, fixedTransitions, dstRules, tzNameToIndexMap, lock, outcome, loads, escaped, calls>>
close_fixed(t) ==
    /\ At(t, "close_fixed") /\ fixedTransitions' = NoTable /\ Go(t, "close_rules")
    /\ UNCHANGED <<zoneIdToTable, filled, dstRules, tzNameToIndexMap, lock, outcome, loads, escaped, calls>>
close_rules(t) ==
    /\ At(t, "close_rules") /\ dstRules' = NoTable /\ Go(t, "close_names")
    /\ UNCHANGED <<zoneIdToTable, filled, fixedTransitions, tzNameToIndexMap, lock, outcome, loads, escaped, calls>>
close_names(t) ==
    /\ At(t, "close_names") /\ tzNameToIndexMap' = NoTable
    /\ Return(t, IF call[t].op = "shutdown" THEN "ok" ELSE "failed")
    /\ UNCHANGED <<zoneIdToTable, filled, fixedTransitions, dstRules, loads, escaped, calls>>

-----------------------------------------------------------------------------
(* Reading *)

\* fromTimestampToUtcTimestamp and its inverse look up the zone before anything is verified:
\* no map, or a zone not yet in it, is a NullPointerException.
read_zone(t) ==
    /\ At(t, "zone")
    /\ \/ zoneIdToTable = NoTable /\ Return(t, "null")
       \/ /\ zoneIdToTable # NoTable
          /\ \E found \in {TRUE, filled} : call' = [call EXCEPT ![t].lost = ~found, ![t].at = "verify"]
          /\ UNCHANGED <<outcome, lock>>
    /\ UNCHANGED <<fields, loads, escaped, calls>>

\* What follows a successful verification.
Verified(t) == Go(t, IF call[t].op = "getIndex" THEN "lookup" ELSE "read_fixed")

\* verifyDatabaseCached: the volatile read, and if it is null the wait for the loading thread.
verifyDatabaseCached(t) ==
    /\ At(t, "verify")
    /\ IF tzNameToIndexMap # NoTable THEN Verified(t) ELSE Go(t, "wait")
    /\ UNCHANGED <<fields, lock, outcome, loads, escaped, calls>>

\* A mutant: the waiting thread does not look again.
verifyDatabaseCachedSync_once(t) ==
    /\ At(t, "wait") /\ lock = NoThread /\ Verified(t)
    /\ UNCHANGED <<fields, lock, outcome, loads, escaped, calls>>

\* A mutant: it looks again and again until there is a table.
verifyDatabaseCachedSync_polling(t) ==
    /\ At(t, "wait") /\ lock = NoThread
    /\ IF tzNameToIndexMap = NoTable THEN Go(t, "verify") ELSE Verified(t)
    /\ UNCHANGED <<fields, lock, outcome, loads, escaped, calls>>

verifyDatabaseCachedSync(t) ==
    /\ At(t, "wait") /\ lock = NoThread
    /\ \/ tzNameToIndexMap = NoTable /\ Return(t, "not loaded")
       \/ tzNameToIndexMap # NoTable /\ Verified(t) /\ UNCHANGED <<lock, outcome>>
    /\ UNCHANGED <<fields, loads, escaped, calls>>

\* getTimezoneInfo: take the column, copy it to the device, then the same with the rules.
read_fixed(t) ==
    /\ At(t, "read_fixed")
    /\ \/ fixedTransitions = NoTable /\ Return(t, "null")
       \/ /\ fixedTransitions # NoTable
          /\ call' = [call EXCEPT ![t].seen = fixedTransitions, ![t].at = "copy_fixed"]
          /\ UNCHANGED <<lock, outcome>>
    /\ UNCHANGED <<fields, loads, escaped, calls>>
copy_fixed(t) ==
    /\ At(t, "copy_fixed")
    /\ \/ fixedTransitions # call[t].seen /\ Return(t, "closed")
       \/ fixedTransitions = call[t].seen /\ Go(t, "read_rules") /\ UNCHANGED <<lock, outcome>>
    /\ UNCHANGED <<fields, loads, escaped, calls>>
read_rules(t) ==
    /\ At(t, "read_rules")
    /\ \/ dstRules = NoTable /\ Return(t, "null")
       \/ /\ dstRules # NoTable
          /\ call' = [call EXCEPT ![t].seen = dstRules, ![t].at = "copy_rules"]
          /\ UNCHANGED <<lock, outcome>>
    /\ UNCHANGED <<fields, loads, escaped, calls>>

\* The native conversion; the index of a zone that was not found is unboxed here.
copy_rules(t) ==
    /\ At(t, "copy_rules")
    /\ Return(t, IF dstRules # call[t].seen THEN "closed" ELSE IF call[t].lost THEN "null" ELSE "ok")
    /\ UNCHANGED <<fields, loads, escaped, calls>>

getIndexToTransitionTable(t) ==
    /\ At(t, "lookup")
    /\ Return(t, IF zoneIdToTable = NoTable THEN "null" ELSE IF filled THEN "ok" ELSE "absent")
    /\ UNCHANGED <<fields, loads, escaped, calls>>

\* Synchronized from verification to copy.
getTzNameToIndexMap(t) ==
    /\ At(t, "names") /\ lock = NoThread
    /\ Return(t, IF tzNameToIndexMap = NoTable THEN "not loaded" ELSE "ok")
    /\ UNCHANGED <<fields, loads, escaped, calls>>

-----------------------------------------------------------------------------
Step(t) ==
    \/ cacheDatabaseImpl(t) \/ load_map(t) \/ load_fill(t) \/ load_fixed(t) \/ load_rules(t) \/ load_names(t)
    \/ load_fails(t) \/ load_error(t) \/ shutdown(t) \/ clear_zones(t) \/ close_zones(t) \/ close_fixed(t) \/ close_rules(t) \/ close_names(t)
    \/ read_zone(t) \/ verifyDatabaseCached(t) \/ verifyDatabaseCachedSync(t) \/ read_fixed(t) \/ copy_fixed(t)
    \/ read_rules(t) \/ copy_rules(t) \/ getIndexToTransitionTable(t) \/ getTzNameToIndexMap(t)

ZonesNext == \E t \in Threads : Step(t) \/ \E op \in Operations : Begin(t, op)

\* A thread in a call goes on, and gets the monitor once it is free.
ZonesFairness == \A t \in Threads : WF_zoneVars(Step(t))

ZonesSpec == ZonesInit /\ [][ZonesNext]_zoneVars /\ ZonesFairness

-----------------------------------------------------------------------------
(* Properties *)

\* What an Error leaves behind: no index of names, so that every reader that verifies is told that
\* nothing is loaded, and fields of loads it ended.
HalfMade ==
    /\ tzNameToIndexMap = NoTable
    /\ zoneIdToTable \in escaped
    /\ fixedTransitions \in {NoTable, zoneIdToTable} /\ dstRules \in {NoTable, fixedTransitions}

\* With the monitor free the table is complete or there is none at all, however a load or a
\* shutdown ended: cacheDatabaseImpl tests one field only, the readers another.  Only a load ended
\* by an Error leaves half a table.
DatabaseIsAllOrNothing ==
    lock = NoThread =>
        \/ Whole \/ HalfMade
        \/ \A f \in {zoneIdToTable, fixedTransitions, dstRules, tzNameToIndexMap} : f = NoTable

\* cacheDatabase: "Cache the database. ... If cache is exits, do not load cache again." -- when it
\* returns the table is there.  After an Error it is not: fixedTransitions is set, so that nothing is
\* loaded any more, and tzNameToIndexMap is not.
CachingCaches ==
    [][\A t \in Threads :
          outcome[t] = Pending /\ outcome'[t].op = "cacheDatabase" /\ outcome'[t].how = "ok" => Whole']_zoneVars

\* Without a shutdown meanwhile: a call that found the table whole succeeds, and no call trips over
\* a half-made or closed field, except a conversion by zone name begun before the table was whole,
\* which reads the map before it verifies.
OnlyShutdownBreaksCalls ==
    \A t \in Threads :
        LET o == outcome[t] IN
        ~o.disturbed =>
            /\ o.whole => o.how = "ok"
            /\ o.how \in {"null", "closed", "absent"} => o.op = "convert" /\ ~o.whole

\* Every call returns, the ones that wait for a load that fails included.
CallsReturn == \A t \in Threads : ~At(t, "idle") ~> At(t, "idle")
=============================================================================
