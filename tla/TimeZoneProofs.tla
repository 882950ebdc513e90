--------------------------- MODULE TimeZoneProofs ---------------------------
(***************************************************************************)
(* GpuTimeZoneDB first: what its readers rely on, for any number of        *)
(* threads and calls.  With the monitor free the table is all or nothing,  *)
(* or what an Error left of a load, and only a shutdown breaks a call that *)
(* found it whole.  The monitor decides who writes the fields, but a       *)
(* reader holds no lock: the argument is about where the writer is         *)
(* (Phases), and about what a call no shutdown has met may count on while  *)
(* it goes from field to field (Counts).                                   *)
(*                                                                         *)
(* Then the calendars of Dates and TimeZones, for every integer as a day,  *)
(* and where the code goes through a year_month_day, for the days of the   *)
(* years that one holds.  The code counts in years that begin in March and *)
(* corrects an estimate of the year of an era; StartOf gives the first day *)
(* of such a year outright, so that a day lies in exactly one year         *)
(* (DateIs, YearsOrdered).  Steps with the large numbers of the calendar   *)
(* name the SMT backend: the other one writes numbers in unary.            *)
(***************************************************************************)
EXTENDS TimeZoneDB, Dates, TLAPS

Loading == {"map", "fill", "fixed", "rules", "index"}
Clearing == {"clear_zones", "close_zones", "close_fixed", "close_rules", "close_names"}
Holding == Loading \cup Clearing
Reading == {"lookup", "read_fixed", "copy_fixed", "read_rules", "copy_rules"}
Places == Holding \cup Reading \cup {"idle", "load", "close", "zone", "verify", "wait", "names"}

CallRecord == [op : Operations \cup {"none"}, at : Places, seen : Nat, lost : BOOLEAN,
               disturbed : BOOLEAN, whole : BOOLEAN]
Endings == {"none", "ok", "failed", "error", "null", "closed", "absent", "not loaded"}
OutcomeRecord == [how : Endings, op : Operations \cup {"none"}, whole : BOOLEAN, disturbed : BOOLEAN]

FieldsType ==
    /\ zoneIdToTable \in Nat /\ filled \in BOOLEAN
    /\ fixedTransitions \in Nat /\ dstRules \in Nat /\ tzNameToIndexMap \in Nat

ZonesType ==
    /\ FieldsType
    /\ lock \in Threads \cup {NoThread}
    /\ call \in [Threads -> CallRecord]
    /\ outcome \in [Threads -> OutcomeRecord]
    /\ loads \in Nat

Nothing == /\ zoneIdToTable = NoTable /\ fixedTransitions = NoTable
           /\ dstRules = NoTable /\ tzNameToIndexMap = NoTable

\* What whoever takes the monitor may find.
Left == Whole \/ Nothing \/ HalfMade

\* The monitor is held exactly by the thread inside cacheDatabaseImpl or shutdown, and a call is
\* only where its operation leads.
Placed(t) ==
    LET c == call[t] IN
    /\ c.at \in Holding <=> lock = t
    /\ c.at = "idle" => c = NoCall
    /\ c.at \in Loading \cup {"load"} => c.op = "cacheDatabase"
    /\ c.at \in Clearing => c.op \in {"cacheDatabase", "shutdown"}
    /\ c.op = "shutdown" => c.at \in Clearing \cup {"close"}
    /\ c.at = "close" => c.op = "shutdown"
    /\ c.at = "zone" \/ c.lost => c.op = "convert"

\* How far loadData or closeResources has come, from where its thread is.
Phases(t) ==
    LET c == call[t] IN
    /\ c.at \in Loading => loads # NoTable /\ tzNameToIndexMap = NoTable
    /\ c.at \in Clearing /\ c.op # "shutdown" => tzNameToIndexMap = NoTable
    /\ c.at = "map" => zoneIdToTable \in escaped \cup {NoTable}
    /\ c.at \in Loading \ {"map"} => zoneIdToTable = loads
    /\ c.at \in {"fixed", "rules", "index"} => filled
    /\ c.at \in {"map", "fill", "fixed"} => fixedTransitions = NoTable
    /\ c.at \in {"map", "fill", "fixed", "rules"} => dstRules = NoTable
    /\ c.at \in {"rules", "index"} => fixedTransitions = loads
    /\ c.at = "index" => dstRules = loads
    /\ c.at \in {"close_fixed", "close_rules", "close_names"} => zoneIdToTable = NoTable
    /\ c.at \in {"close_rules", "close_names"} => fixedTransitions = NoTable
    /\ c.at = "close_names" => dstRules = NoTable

\* Nobody is past the entry of shutdown.
NoShutdown == \A u \in Threads : call[u].op = "shutdown" => call[u].at = "close"

\* What a call no shutdown has met may count on.
Counts(t) ==
    LET c == call[t] IN
    c.at # "idle" /\ c.op # "shutdown" /\ ~c.disturbed =>
        /\ NoShutdown
        /\ c.whole \/ c.at \in Reading => Whole
        /\ c.whole => ~c.lost
        /\ c.at = "copy_fixed" => c.seen = fixedTransitions
        /\ c.at = "copy_rules" => c.seen = dstRules

\* What OnlyShutdownBreaksCalls says of one outcome.
Excused(o) ==
    ~o.disturbed => /\ o.whole => o.how = "ok"
                    /\ o.how \in {"null", "closed", "absent"} => o.op = "convert" /\ ~o.whole

\* The inductive invariant.
ZonesInv ==
    /\ ZonesType
    /\ lock = NoThread => Left
    /\ \A t \in Threads : Placed(t) /\ Phases(t) /\ Counts(t)
    /\ \A t \in Threads : Excused(outcome[t])

-----------------------------------------------------------------------------
(* The quantifiers of the model over its four fields, written out.         *)
LEMMA WholeIs ==
  Whole <=> /\ tzNameToIndexMap # NoTable /\ filled
            /\ zoneIdToTable = tzNameToIndexMap
            /\ fixedTransitions = tzNameToIndexMap
            /\ dstRules = tzNameToIndexMap
BY DEF Whole

(* The same in the next state.                                             *)
LEMMA WholeIsNext ==
  Whole' <=> /\ tzNameToIndexMap' # NoTable /\ filled'
             /\ zoneIdToTable' = tzNameToIndexMap'
             /\ fixedTransitions' = tzNameToIndexMap'
             /\ dstRules' = tzNameToIndexMap'
BY DEF Whole

(* What was left stays so while the fields do.                             *)
LEMMA LeftIsKept ==
  ASSUME Left, UNCHANGED fields, escaped \subseteq escaped'
  PROVE  Left'
<1>1. UNCHANGED <<zoneIdToTable, filled, fixedTransitions, dstRules, tzNameToIndexMap>>
  BY DEF fields
<1>2. HalfMade => HalfMade'
  BY <1>1 DEF HalfMade
<1> QED BY <1>1, <1>2, WholeIs, WholeIsNext DEF Left, Nothing

(* loadData writes the volatile field last and closeResources clears it    *)
(* last: whoever reads it non-null without a shutdown has all of it.       *)
LEMMA LastFieldTells ==
  ASSUME ZonesInv, NoShutdown, tzNameToIndexMap # NoTable
  PROVE  Whole
<1>1. CASE lock = NoThread
  BY <1>1 DEF ZonesInv, Left, Nothing, HalfMade
<1>2. CASE lock \in Threads
  <2>1. Placed(lock) /\ Phases(lock)
    BY <1>2 DEF ZonesInv
  <2>2. call[lock].op # "shutdown" \/ call[lock].at = "close"
    BY <1>2 DEF NoShutdown
  <2> QED BY <2>1, <2>2 DEF Placed, Phases, Holding, Clearing, Loading
<1> QED BY <1>1, <1>2 DEF ZonesInv, ZonesType

(* Who writes a field holds the monitor, and is loading or shutting down.  *)
LEMMA WholeIsKept ==
  ASSUME ZonesInv, NoShutdown, Whole, NEW t \in Threads, Step(t)
  PROVE  UNCHANGED fields
<1>1. Placed(t) /\ Phases(t)
  BY DEF ZonesInv
<1>2. call[t].op # "shutdown" \/ call[t].at = "close"
  BY DEF NoShutdown
<1>3. tzNameToIndexMap # NoTable
  BY WholeIs
<1>4. call[t].at \notin Holding
  BY <1>1, <1>2, <1>3 DEF Placed, Phases, Holding, Loading, Clearing
<1>5. call[t].at \notin {"map", "fill", "fixed", "rules", "index", "clear_zones", "close_zones",
                         "close_fixed", "close_rules", "close_names"}
  BY <1>4 DEF Holding, Loading, Clearing
<1> QED
  BY <1>5 DEF Step, At, cacheDatabaseImpl, load_map, load_fill, load_fixed, load_rules, load_names,
       load_fails, load_error, shutdown, clear_zones, close_zones, close_fixed, close_rules, close_names, read_zone,
       verifyDatabaseCached, verifyDatabaseCachedSync, read_fixed, copy_fixed, read_rules, copy_rules,
       getIndexToTransitionTable, getTzNameToIndexMap

-----------------------------------------------------------------------------
(* A step of t moves t only; the others keep what they count on.           *)
LEMMA OthersKeep ==
  ASSUME ZonesInv, NEW t \in Threads, NEW c \in CallRecord, call' = [call EXCEPT ![t] = c],
         c.op = "shutdown" /\ c.at # "close" => call[t].op = "shutdown" /\ call[t].at # "close",
         NoShutdown /\ Whole => UNCHANGED fields,
         lock \in {t, NoThread} \/ UNCHANGED <<fields, loads>>,
         escaped \subseteq escaped', NEW u \in Threads, u # t, lock' = u <=> lock = u
  PROVE  Placed(u)' /\ Phases(u)' /\ Counts(u)'
<1>1. call'[u] = call[u] /\ call'[t] = c
  BY DEF ZonesInv, ZonesType
<1>2. Placed(u) /\ Phases(u) /\ Counts(u)
  BY DEF ZonesInv
<1>3. Placed(u)'
  BY <1>1, <1>2 DEF Placed
<1>4. Phases(u)'
  <2>1. CASE UNCHANGED <<fields, loads>>
    BY <1>1, <1>2, <2>1 DEF Phases, fields
  <2>2. CASE lock \in {t, NoThread}
    <3>1. call[u].at \notin Holding
      BY <1>2, <2>2, NoThreadAssumption DEF Placed
    <3> QED BY <1>1, <3>1 DEF Phases, Holding, Loading, Clearing
  <2> QED BY <2>1, <2>2
<1>5. Counts(u)'
  <2> SUFFICES ASSUME call[u].at # "idle", call[u].op # "shutdown", ~call[u].disturbed
               PROVE  Counts(u)'
    BY <1>1 DEF Counts
  <2>1. NoShutdown'
    <3>1. NoShutdown
      BY <1>2 DEF Counts
    <3>2. \A v \in Threads : call'[v] = IF v = t THEN c ELSE call[v]
      BY DEF ZonesInv, ZonesType
    <3> QED BY <3>1, <3>2 DEF NoShutdown
  <2>2. CASE ~Whole
    BY <1>1, <1>2, <2>1, <2>2 DEF Counts, Reading
  <2>3. CASE Whole
    <3>1. UNCHANGED fields
      BY <1>2, <2>3 DEF Counts
    <3>2. Whole' /\ fixedTransitions' = fixedTransitions /\ dstRules' = dstRules
      BY <3>1, <2>3, WholeIs, WholeIsNext DEF fields
    <3> QED BY <1>1, <1>2, <2>1, <3>2 DEF Counts
  <2> QED BY <2>2, <2>3
<1> QED BY <1>3, <1>4, <1>5

(* So it is enough to look at t.                                           *)
LEMMA OwnStep ==
  ASSUME ZonesInv, NEW t \in Threads, NEW c \in CallRecord, NEW o \in OutcomeRecord,
         call' = [call EXCEPT ![t] = c], outcome' = [outcome EXCEPT ![t] = o], Excused(o),
         FieldsType', loads' \in Nat, escaped \subseteq escaped',
         lock' \in {lock, t, NoThread}, lock' # lock => lock \in {t, NoThread},
         lock \in {t, NoThread} \/ UNCHANGED <<fields, loads>>,
         NoShutdown /\ Whole => UNCHANGED fields,
         c.op = "shutdown" /\ c.at # "close" => call[t].op = "shutdown" /\ call[t].at # "close",
         lock' = NoThread => Left',
         Placed(t)', Phases(t)', Counts(t)'
  PROVE  ZonesInv'
<1>1. ASSUME NEW u \in Threads, u # t
      PROVE  Placed(u)' /\ Phases(u)' /\ Counts(u)'
  <2>1. lock' = u <=> lock = u
    BY <1>1, NoThreadAssumption
  <2> QED BY <1>1, <2>1, OthersKeep
<1>2. ASSUME NEW u \in Threads
      PROVE  Excused(outcome'[u]) /\ outcome'[u] \in OutcomeRecord
  BY DEF ZonesInv, ZonesType
<1>3. ZonesType'
  BY DEF ZonesInv, ZonesType
<1> QED BY <1>1, <1>2, <1>3 DEF ZonesInv

(* A call ends: what is left to say is that its outcome is excused and     *)
(* that the fields are all or nothing if it held the monitor.              *)
LEMMA Returns ==
  ASSUME ZonesInv, NEW t \in Threads, NEW how \in Endings, Return(t, how),
         Excused([how |-> how, op |-> call[t].op, whole |-> call[t].whole, disturbed |-> call[t].disturbed]),
         FieldsType', UNCHANGED loads, escaped \subseteq escaped',
         (lock = t /\ Left') \/ UNCHANGED fields,
         NoShutdown /\ Whole => UNCHANGED fields,
         call[t].at \in Holding => lock = t /\ Left'
  PROVE  ZonesInv'
<1> DEFINE o == [how |-> how, op |-> call[t].op, whole |-> call[t].whole, disturbed |-> call[t].disturbed]
<1>1. call[t] \in CallRecord /\ NoCall \in CallRecord /\ o \in OutcomeRecord
  BY DEF ZonesInv, ZonesType, CallRecord, OutcomeRecord, NoCall, Operations, Places, NoTable
<1>2. call' = [call EXCEPT ![t] = NoCall] /\ outcome' = [outcome EXCEPT ![t] = o]
      /\ lock' = IF lock = t THEN NoThread ELSE lock
  BY DEF Return
<1>3. call'[t] = NoCall /\ lock' # t
  BY <1>2, NoThreadAssumption DEF ZonesInv, ZonesType
<1>4. Placed(t)' /\ Phases(t)' /\ Counts(t)'
  BY <1>3 DEF Placed, Phases, Counts, NoCall, Holding, Loading, Clearing
<1>5. lock' = NoThread => Left'
  <2>1. CASE lock = t
    <3>1. call[t].at \in Holding
      BY <2>1 DEF ZonesInv, Placed
    <3> QED BY <3>1
  <2>2. CASE lock # t
    <3>1. UNCHANGED fields /\ lock' = lock
      BY <1>2, <2>2
    <3>2. lock = NoThread => Left
      BY DEF ZonesInv
    <3> QED BY <3>1, <3>2, LeftIsKept
  <2> QED BY <2>1, <2>2
<1>6. lock \in {t, NoThread} \/ UNCHANGED <<fields, loads>>
  OBVIOUS
<1>7. loads' \in Nat
  BY DEF ZonesInv, ZonesType
<1>8. Excused(o) /\ NoCall.op # "shutdown"
  BY DEF NoCall
<1> HIDE DEF o
<1> QED BY <1>1, <1>2, <1>4, <1>5, <1>6, <1>7, <1>8, OwnStep

(* A reader of the fields goes on.                                         *)
LEMMA Reads ==
  ASSUME ZonesInv, NEW t \in Threads, NEW c \in CallRecord, call' = [call EXCEPT ![t] = c],
         UNCHANGED <<fields, lock, outcome, loads, escaped>>,
         call[t].at \notin Holding, c.at \notin Holding,
         c.op = "shutdown" => c.at = "close",
         Placed(t)', Counts(t)'
  PROVE  ZonesInv'
<1>1. outcome' = [outcome EXCEPT ![t] = outcome[t]] /\ outcome[t] \in OutcomeRecord /\ Excused(outcome[t])
  BY DEF ZonesInv, ZonesType
<1>2. call'[t] = c
  BY DEF ZonesInv, ZonesType
<1>3. Phases(t)'
  BY <1>2 DEF Phases, Holding, Loading, Clearing
<1>4. lock' = NoThread => Left'
  BY LeftIsKept DEF ZonesInv
<1>5. FieldsType' /\ loads' \in Nat
  BY DEF ZonesInv, ZonesType, FieldsType, fields
<1> QED BY <1>1, <1>3, <1>4, <1>5, OwnStep

(* The thread that loads or closes goes on to its next field.              *)
LEMMA Writes ==
  ASSUME ZonesInv, NEW t \in Threads, Step(t), NEW where \in Holding, Go(t, where),
         UNCHANGED <<lock, outcome, loads, escaped>>, FieldsType',
         call[t].at \in Holding, where \in Loading => call[t].at \in Loading,
         Phases(t)'
  PROVE  ZonesInv'
<1> DEFINE c == [call[t] EXCEPT !.at = where]
<1>1. call[t] \in CallRecord /\ where \in Places
  BY DEF ZonesInv, ZonesType, Places
<1>2. c \in CallRecord /\ c.at = where /\ c.op = call[t].op /\ c.disturbed = call[t].disturbed
      /\ c.whole = call[t].whole /\ c.lost = call[t].lost
  BY <1>1 DEF CallRecord
<1>3. call' = [call EXCEPT ![t] = c]
  BY DEF Go, ZonesInv, ZonesType
<1> HIDE DEF c
<1>4. call'[t] = c
  BY <1>3 DEF ZonesInv, ZonesType
<1>5. Placed(t) /\ Counts(t)
  BY DEF ZonesInv
<1>6. lock = t
  BY <1>5 DEF Placed
<1>7. Placed(t)'
  <2>1. where # "idle" /\ where # "load" /\ where # "close" /\ where # "zone"
    BY DEF Holding, Loading, Clearing
  <2>2. call[t].at # "idle" /\ call[t].at # "load" /\ call[t].at # "close" /\ call[t].at # "zone"
    BY DEF Holding, Loading, Clearing
  <2>3. where \in Loading => where \notin Clearing
    BY DEF Loading, Clearing
  <2>4. call[t].at \in Loading => call[t].at \notin Clearing
    BY DEF Loading, Clearing
  <2>5. c.op \in {"cacheDatabase", "shutdown"} /\ (where \in Loading => c.op = "cacheDatabase")
    BY <1>2, <1>5 DEF Placed, Holding
  <2>6. c.op = "shutdown" => where \in Clearing
    BY <2>5 DEF Holding
  <2> QED BY <1>2, <1>4, <1>5, <1>6, <2>1, <2>2, <2>5, <2>6 DEF Placed
<1>8. NoShutdown /\ Whole => UNCHANGED fields
  BY WholeIsKept
<1>9. Counts(t)'
  <2> SUFFICES ASSUME c.op # "shutdown", ~c.disturbed
               PROVE  Counts(t)'
    BY <1>4 DEF Counts
  <2>1. call[t].at # "idle" /\ where # "copy_fixed" /\ where # "copy_rules" /\ where \notin Reading
    BY DEF Holding, Loading, Clearing, Reading
  <2>2. NoShutdown /\ (c.whole => Whole /\ ~c.lost)
    BY <1>2, <1>5, <2>1 DEF Counts
  <2>3. NoShutdown'
    <3>1. \A v \in Threads : call'[v] = IF v = t THEN c ELSE call[v]
      BY <1>3 DEF ZonesInv, ZonesType
    <3> QED BY <2>2, <3>1 DEF NoShutdown
  <2>4. c.whole => Whole'
    BY <1>8, <2>2, WholeIs, WholeIsNext DEF fields
  <2> QED BY <1>2, <1>4, <2>1, <2>2, <2>3, <2>4 DEF Counts
<1>10. outcome' = [outcome EXCEPT ![t] = outcome[t]] /\ outcome[t] \in OutcomeRecord /\ Excused(outcome[t])
  BY DEF ZonesInv, ZonesType
<1>11. lock' # NoThread /\ loads' \in Nat
  BY <1>6, NoThreadAssumption DEF ZonesInv, ZonesType
<1>12. c.op = "shutdown" /\ c.at # "close" => call[t].op = "shutdown" /\ call[t].at # "close"
  BY <1>2 DEF Holding, Loading, Clearing
<1> QED BY <1>2, <1>3, <1>6, <1>7, <1>8, <1>9, <1>10, <1>11, <1>12, OwnStep

-----------------------------------------------------------------------------
(* Loading.  cacheDatabaseImpl finds the monitor free, and then the test   *)
(* of one field tells it whether there is anything.                        *)
LEMMA LoadBegins ==
  ASSUME ZonesInv, NEW t \in Threads, cacheDatabaseImpl(t)
  PROVE  ZonesInv'
<1>1. call[t].at = "load" /\ lock = NoThread /\ UNCHANGED <<fields, escaped>>
  BY DEF cacheDatabaseImpl, At
<1>2. call[t].at \notin Holding /\ Placed(t) /\ Counts(t) /\ call[t] \in CallRecord
  BY <1>1 DEF Holding, Loading, Clearing, ZonesInv, ZonesType
<1>3. FieldsType'
  BY <1>1 DEF ZonesInv, ZonesType, FieldsType, fields
<1>4. CASE fixedTransitions # NoTable /\ Return(t, "ok") /\ UNCHANGED loads
  <2>1. "ok" \in Endings
    BY DEF Endings
  <2>2. Excused([how |-> "ok", op |-> call[t].op, whole |-> call[t].whole, disturbed |-> call[t].disturbed])
    BY DEF Excused
  <2> QED BY <1>1, <1>2, <1>3, <1>4, <2>1, <2>2, Returns
<1>5. CASE fixedTransitions = NoTable /\ lock' = t /\ loads' = loads + 1 /\ Go(t, "map") /\ UNCHANGED outcome
  <2> DEFINE c == [call[t] EXCEPT !.at = "map"]
  <2>1. c \in CallRecord /\ c.at = "map" /\ c.op = call[t].op /\ c.disturbed = call[t].disturbed
        /\ c.whole = call[t].whole /\ c.lost = call[t].lost
    BY <1>2 DEF CallRecord, Places, Holding, Loading
  <2>2. call' = [call EXCEPT ![t] = c]
    BY <1>5 DEF Go, ZonesInv, ZonesType
  <2> HIDE DEF c
  <2>3. call'[t] = c
    BY <2>2 DEF ZonesInv, ZonesType
  <2>4. (Nothing \/ HalfMade) /\ ~Whole
    BY <1>1, <1>5, WholeIs DEF ZonesInv, Left, Nothing, HalfMade
  <2>5. /\ zoneIdToTable' \in escaped' \cup {NoTable} /\ fixedTransitions' = NoTable
        /\ dstRules' = NoTable /\ tzNameToIndexMap' = NoTable
    BY <1>1, <1>5, <2>4 DEF Nothing, HalfMade, fields
  <2>6. c.op = "cacheDatabase" /\ call[t].op = "cacheDatabase"
    BY <1>1, <1>2, <2>1 DEF Placed
  <2>7. Placed(t)'
    BY <1>2, <1>5, <2>1, <2>3, <2>6 DEF Placed, Holding, Loading, Clearing
  <2>8. loads' \in Nat /\ loads' # NoTable
    BY <1>5 DEF ZonesInv, ZonesType, NoTable
  <2>9. Phases(t)'
    BY <2>1, <2>3, <2>5, <2>8 DEF Phases, Loading, Clearing
  <2>10. Counts(t)'
    <3>1. NoShutdown => NoShutdown'
      <4>1. \A v \in Threads : call'[v] = IF v = t THEN c ELSE call[v]
        BY <2>2 DEF ZonesInv, ZonesType
      <4> QED BY <2>6, <4>1 DEF NoShutdown
    <3> QED BY <1>1, <1>2, <2>1, <2>3, <2>4, <2>6, <3>1 DEF Counts, Reading
  <2>11. outcome' = [outcome EXCEPT ![t] = outcome[t]] /\ outcome[t] \in OutcomeRecord /\ Excused(outcome[t])
    BY <1>5 DEF ZonesInv, ZonesType
  <2>12. lock' # NoThread
    BY <1>5, NoThreadAssumption
  <2> QED BY <1>1, <1>3, <1>5, <2>1, <2>2, <2>4, <2>6, <2>7, <2>8, <2>9, <2>10, <2>11, <2>12, OwnStep
<1> QED BY <1>4, <1>5 DEF cacheDatabaseImpl

(* loadData writes one field after the other.                              *)
LEMMA LoadGoesOn ==
  ASSUME ZonesInv, NEW t \in Threads, load_map(t) \/ load_fill(t) \/ load_fixed(t) \/ load_rules(t) \/ load_fails(t)
  PROVE  ZonesInv'
<1>1. Phases(t) /\ Placed(t) /\ call[t] \in CallRecord /\ FieldsType /\ loads \in Nat
  BY DEF ZonesInv, ZonesType
<1>2. Step(t)
  BY DEF Step
<1>3. ASSUME NEW where, Go(t, where)
      PROVE  call'[t].at = where /\ call'[t].op = call[t].op
  BY <1>3 DEF Go, ZonesInv, ZonesType, CallRecord
<1>4. CASE load_map(t)
  <2>1. /\ call[t].at = "map" /\ zoneIdToTable' = loads /\ filled' = FALSE /\ Go(t, "fill")
        /\ UNCHANGED <<fixedTransitions, dstRules, tzNameToIndexMap, lock, outcome, loads, escaped>>
    BY <1>4 DEF load_map, At
  <2>2. FieldsType'
    BY <1>1, <2>1 DEF FieldsType
  <2>3. Phases(t)'
    BY <1>1, <1>3, <2>1 DEF Phases, Loading, Clearing
  <2> QED BY <1>2, <2>1, <2>2, <2>3, Writes DEF Holding, Loading
<1>5. CASE load_fill(t)
  <2>1. /\ call[t].at = "fill" /\ filled' = TRUE /\ Go(t, "fixed")
        /\ UNCHANGED <<zoneIdToTable, fixedTransitions, dstRules, tzNameToIndexMap, lock, outcome, loads, escaped>>
    BY <1>5 DEF load_fill, At
  <2>2. FieldsType'
    BY <1>1, <2>1 DEF FieldsType
  <2>3. Phases(t)'
    BY <1>1, <1>3, <2>1 DEF Phases, Loading, Clearing
  <2> QED BY <1>2, <2>1, <2>2, <2>3, Writes DEF Holding, Loading
<1>6. CASE load_fixed(t)
  <2>1. /\ call[t].at = "fixed" /\ fixedTransitions' = loads /\ Go(t, "rules")
        /\ UNCHANGED <<zoneIdToTable, filled, dstRules, tzNameToIndexMap, lock, outcome, loads, escaped>>
    BY <1>6 DEF load_fixed, At
  <2>2. FieldsType'
    BY <1>1, <2>1 DEF FieldsType
  <2>3. Phases(t)'
    BY <1>1, <1>3, <2>1 DEF Phases, Loading, Clearing
  <2> QED BY <1>2, <2>1, <2>2, <2>3, Writes DEF Holding, Loading
<1>7. CASE load_rules(t)
  <2>1. /\ call[t].at = "rules" /\ dstRules' = loads /\ Go(t, "index")
        /\ UNCHANGED <<zoneIdToTable, filled, fixedTransitions, tzNameToIndexMap, lock, outcome, loads, escaped>>
    BY <1>7 DEF load_rules, At
  <2>2. FieldsType'
    BY <1>1, <2>1 DEF FieldsType
  <2>3. Phases(t)'
    BY <1>1, <1>3, <2>1 DEF Phases, Loading, Clearing
  <2> QED BY <1>2, <2>1, <2>2, <2>3, Writes DEF Holding, Loading
<1>8. CASE load_fails(t)
  <2>1. /\ call[t].at \in {"fill", "fixed", "rules", "index"} /\ Go(t, "clear_zones")
        /\ UNCHANGED <<fields, lock, outcome, loads, escaped>>
    BY <1>8 DEF load_fails
  <2>2. FieldsType' /\ tzNameToIndexMap' = NoTable
    BY <1>1, <2>1 DEF FieldsType, Phases, fields, Loading
  <2>3. Phases(t)'
    BY <1>3, <2>1, <2>2 DEF Phases, Loading, Clearing
  <2> QED BY <1>2, <2>1, <2>2, <2>3, Writes DEF Holding, Loading, Clearing
<1> QED BY <1>4, <1>5, <1>6, <1>7, <1>8

(* An Error ends the load where it is: what is left is of that load, or of *)
(* one that ended so before.                                               *)
LEMMA LoadIsAbandoned ==
  ASSUME ZonesInv, NEW t \in Threads, load_error(t)
  PROVE  ZonesInv'
<1>1. /\ call[t].at \in {"map", "fill", "fixed", "rules", "index"} /\ Return(t, "error")
      /\ escaped' = escaped \cup {loads} /\ UNCHANGED <<fields, loads>>
  BY DEF load_error
<1>2. Phases(t) /\ Placed(t) /\ Counts(t) /\ FieldsType /\ call[t].at \in Loading
  BY <1>1 DEF ZonesInv, ZonesType, Loading
<1>3. lock = t
  BY <1>2 DEF Placed, Holding
<1>4. FieldsType' /\ UNCHANGED <<zoneIdToTable, fixedTransitions, dstRules, tzNameToIndexMap>>
  BY <1>1, <1>2 DEF FieldsType, fields
<1>5. Left'
  <2>1. tzNameToIndexMap = NoTable /\ dstRules \in {NoTable, fixedTransitions}
    BY <1>1, <1>2 DEF Phases
  <2>2. CASE call[t].at = "map"
    <3>1. fixedTransitions = NoTable /\ zoneIdToTable \in escaped \cup {NoTable}
      BY <1>2, <2>2 DEF Phases
    <3> QED BY <1>1, <1>4, <2>1, <3>1 DEF Left, Nothing, HalfMade
  <2>3. CASE call[t].at # "map"
    <3>1. zoneIdToTable = loads /\ fixedTransitions \in {NoTable, loads}
      BY <1>1, <1>2, <2>3 DEF Phases, Loading
    <3> QED BY <1>1, <1>4, <2>1, <3>1 DEF Left, HalfMade
  <2> QED BY <2>2, <2>3
<1>6. ~Whole
  BY <1>2, WholeIs DEF Phases
<1>7. call[t].disturbed \/ ~call[t].whole
  BY <1>2, <1>6 DEF Counts, Placed, Loading
<1>8. Excused([how |-> "error", op |-> call[t].op, whole |-> call[t].whole, disturbed |-> call[t].disturbed])
  BY <1>7 DEF Excused
<1>9. "error" \in Endings
  BY DEF Endings
<1> QED BY <1>1, <1>3, <1>4, <1>5, <1>8, <1>9, Returns

(* The last field makes the table whole.                                   *)
LEMMA LoadEnds ==
  ASSUME ZonesInv, NEW t \in Threads, load_names(t)
  PROVE  ZonesInv'
<1>1. /\ call[t].at = "index" /\ tzNameToIndexMap' = loads /\ Return(t, "ok")
      /\ UNCHANGED <<zoneIdToTable, filled, fixedTransitions, dstRules, loads, escaped>>
  BY DEF load_names, At
<1>2. Phases(t) /\ Placed(t) /\ FieldsType /\ loads \in Nat
  BY DEF ZonesInv, ZonesType
<1>3. lock = t /\ ~Whole
  BY <1>1, <1>2, WholeIs DEF Phases, Placed, Holding, Loading
<1>4. FieldsType'
  BY <1>1, <1>2 DEF FieldsType
<1>5. Whole'
  BY <1>1, <1>2, WholeIsNext DEF Phases, Loading
<1>6. Excused([how |-> "ok", op |-> call[t].op, whole |-> call[t].whole, disturbed |-> call[t].disturbed])
  BY DEF Excused
<1>7. "ok" \in Endings
  BY DEF Endings
<1> QED BY <1>1, <1>3, <1>4, <1>5, <1>6, <1>7, Returns DEF Left

-----------------------------------------------------------------------------
(* Closing.                                                                *)

(* closeResources, field after field.                                      *)
LEMMA CloseGoesOn ==
  ASSUME ZonesInv, NEW t \in Threads, clear_zones(t) \/ close_zones(t) \/ close_fixed(t) \/ close_rules(t)
  PROVE  ZonesInv'
<1>1. Phases(t) /\ Placed(t) /\ call[t] \in CallRecord /\ FieldsType
  BY DEF ZonesInv, ZonesType
<1>2. Step(t)
  BY DEF Step
<1>3. ASSUME NEW where, Go(t, where)
      PROVE  call'[t].at = where /\ call'[t].op = call[t].op
  BY <1>3 DEF Go, ZonesInv, ZonesType, CallRecord
<1>4. CASE clear_zones(t)
  <2>1. /\ call[t].at = "clear_zones" /\ filled' = FALSE /\ Go(t, "close_zones")
        /\ UNCHANGED <<zoneIdToTable, fixedTransitions, dstRules, tzNameToIndexMap, lock, outcome, loads, escaped>>
    BY <1>4 DEF clear_zones, At
  <2>2. FieldsType'
    BY <1>1, <2>1 DEF FieldsType
  <2>3. Phases(t)'
    BY <1>1, <1>3, <2>1 DEF Phases, Loading, Clearing
  <2> QED BY <1>2, <2>1, <2>2, <2>3, Writes DEF Holding, Loading, Clearing
<1>5. CASE close_zones(t)
  <2>1. /\ call[t].at = "close_zones" /\ zoneIdToTable' = NoTable /\ Go(t, "close_fixed")
        /\ UNCHANGED <<filled, fixedTransitions, dstRules, tzNameToIndexMap, lock, outcome, loads, escaped>>
    BY <1>5 DEF close_zones, At
  <2>2. FieldsType'
    BY <1>1, <2>1 DEF FieldsType, NoTable
  <2>3. Phases(t)'
    BY <1>1, <1>3, <2>1 DEF Phases, Loading, Clearing, NoTable
  <2> QED BY <1>2, <2>1, <2>2, <2>3, Writes DEF Holding, Loading, Clearing
<1>6. CASE close_fixed(t)
  <2>1. /\ call[t].at = "close_fixed" /\ fixedTransitions' = NoTable /\ Go(t, "close_rules")
        /\ UNCHANGED <<zoneIdToTable, filled, dstRules, tzNameToIndexMap, lock, outcome, loads, escaped>>
    BY <1>6 DEF close_fixed, At
  <2>2. FieldsType'
    BY <1>1, <2>1 DEF FieldsType, NoTable
  <2>3. Phases(t)'
    BY <1>1, <1>3, <2>1 DEF Phases, Loading, Clearing, NoTable
  <2> QED BY <1>2, <2>1, <2>2, <2>3, Writes DEF Holding, Loading, Clearing
<1>7. CASE close_rules(t)
  <2>1. /\ call[t].at = "close_rules" /\ dstRules' = NoTable /\ Go(t, "close_names")
        /\ UNCHANGED <<zoneIdToTable, filled, fixedTransitions, tzNameToIndexMap, lock, outcome, loads, escaped>>
    BY <1>7 DEF close_rules, At
  <2>2. FieldsType'
    BY <1>1, <2>1 DEF FieldsType, NoTable
  <2>3. Phases(t)'
    BY <1>1, <1>3, <2>1 DEF Phases, Loading, Clearing, NoTable
  <2> QED BY <1>2, <2>1, <2>2, <2>3, Writes DEF Holding, Loading, Clearing
<1> QED BY <1>4, <1>5, <1>6, <1>7

(* The last field leaves nothing; a call that found the table whole is not *)
(* the one whose load failed.                                              *)
LEMMA CloseEnds ==
  ASSUME ZonesInv, NEW t \in Threads, close_names(t)
  PROVE  ZonesInv'
<1> DEFINE how == IF call[t].op = "shutdown" THEN "ok" ELSE "failed"
<1>1. /\ call[t].at = "close_names" /\ tzNameToIndexMap' = NoTable /\ Return(t, how)
      /\ UNCHANGED <<zoneIdToTable, filled, fixedTransitions, dstRules, loads, escaped>>
  BY DEF close_names, At
<1>2. Phases(t) /\ Placed(t) /\ Counts(t) /\ FieldsType /\ Step(t)
  BY DEF ZonesInv, ZonesType, Step
<1>3. lock = t
  BY <1>1, <1>2 DEF Placed, Holding, Clearing
<1>4. FieldsType'
  BY <1>1, <1>2 DEF FieldsType, NoTable
<1>5. Nothing'
  BY <1>1, <1>2 DEF Phases, Nothing
<1>6. Excused([how |-> how, op |-> call[t].op, whole |-> call[t].whole, disturbed |-> call[t].disturbed])
  <2>1. CASE call[t].op = "shutdown"
    BY <2>1 DEF Excused
  <2>2. CASE call[t].op # "shutdown"
    <3>1. ~Whole
      BY <1>1, <1>2, <2>2, WholeIs DEF Phases, Clearing
    <3>2. call[t].disturbed \/ ~call[t].whole
      BY <1>1, <1>2, <2>2, <3>1 DEF Counts
    <3> QED BY <2>2, <3>2 DEF Excused
  <2> QED BY <2>1, <2>2
<1>7. how \in Endings
  BY DEF Endings
<1> HIDE DEF how
<1>8. NoShutdown /\ Whole => UNCHANGED fields
  BY <1>2, WholeIsKept
<1> QED BY <1>1, <1>3, <1>4, <1>5, <1>6, <1>7, <1>8, Returns DEF Left

(* shutdown gets the monitor: every call under way is disturbed.           *)
LEMMA ShutdownBegins ==
  ASSUME ZonesInv, NEW t \in Threads, shutdown(t)
  PROVE  ZonesInv'
<1>1. /\ call[t].at = "close" /\ lock = NoThread /\ lock' = t
      /\ UNCHANGED <<fields, outcome, loads, escaped>>
  BY DEF shutdown, At
<1>2. ASSUME NEW u \in Threads, u # t
      PROVE  \/ call'[u] = call[u] /\ call[u].at = "idle"
             \/ /\ call'[u] \in CallRecord /\ call'[u].disturbed
                /\ call'[u].at = call[u].at /\ call'[u].op = call[u].op /\ call'[u].lost = call[u].lost
                /\ call[u].at # "idle"
  <2>1. call[u] \in CallRecord
    BY DEF ZonesInv, ZonesType
  <2>2. call'[u] = IF call[u].at = "idle" THEN call[u] ELSE [call[u] EXCEPT !.disturbed = TRUE]
    BY <1>2 DEF shutdown
  <2> QED BY <2>1, <2>2 DEF CallRecord
<1>3. /\ call'[t] \in CallRecord /\ call'[t].at = "clear_zones" /\ call'[t].op = call[t].op
      /\ call'[t].lost = call[t].lost
  <2>1. call[t] \in CallRecord
    BY DEF ZonesInv, ZonesType
  <2>2. call'[t] = [call[t] EXCEPT !.at = "clear_zones"]
    BY DEF shutdown
  <2> QED BY <2>1, <2>2 DEF CallRecord, Places, Holding, Clearing
<1>4. call[t].op = "shutdown"
  BY <1>1 DEF ZonesInv, Placed
<1>5. ZonesType'
  <2>1. DOMAIN call' = Threads /\ call' = [u \in Threads |-> call'[u]]
    BY DEF shutdown
  <2>2. \A u \in Threads : call'[u] \in CallRecord
    BY <1>2, <1>3 DEF ZonesInv, ZonesType
  <2>3. FieldsType'
    BY <1>1 DEF ZonesInv, ZonesType, FieldsType, fields
  <2> QED BY <1>1, <2>1, <2>2, <2>3 DEF ZonesInv, ZonesType
<1>6. Placed(t)' /\ Phases(t)' /\ Counts(t)'
  BY <1>1, <1>3, <1>4 DEF ZonesInv, Placed, Phases, Counts, Holding, Loading, Clearing
<1>7. ASSUME NEW u \in Threads, u # t
      PROVE  Placed(u)' /\ Phases(u)' /\ Counts(u)'
  <2>1. Placed(u) /\ lock # u /\ lock' # u
    BY <1>1, <1>7, NoThreadAssumption DEF ZonesInv
  <2>2. call[u].at \notin Holding
    BY <2>1 DEF Placed
  <2>3. CASE call'[u] = call[u] /\ call[u].at = "idle"
    BY <2>1, <2>2, <2>3 DEF Placed, Phases, Counts, Holding, Loading, Clearing
  <2>4. CASE /\ call'[u].disturbed /\ call'[u].at = call[u].at /\ call'[u].op = call[u].op
             /\ call'[u].lost = call[u].lost /\ call[u].at # "idle"
    BY <2>1, <2>2, <2>4 DEF Placed, Phases, Counts, Holding, Loading, Clearing
  <2> QED BY <1>2, <1>7, <2>3, <2>4
<1>8. lock' # NoThread
  BY <1>1, NoThreadAssumption
<1> QED BY <1>1, <1>5, <1>6, <1>7, <1>8 DEF ZonesInv

-----------------------------------------------------------------------------
(* Reading, without the monitor.                                           *)

(* A call that is neither loading nor closing ends and changes nothing:    *)
(* only its answer matters.                                                *)
LEMMA Answers ==
  ASSUME ZonesInv, NEW t \in Threads, NEW how \in Endings, Return(t, how), UNCHANGED <<fields, loads, escaped>>,
         call[t].at \notin Holding,
         ~call[t].disturbed => /\ call[t].whole => how = "ok"
                               /\ how \in {"null", "closed", "absent"} =>
                                    call[t].op = "convert" /\ ~call[t].whole
  PROVE  ZonesInv'
<1>1. FieldsType'
  BY DEF ZonesInv, ZonesType, FieldsType, fields
<1>2. Excused([how |-> how, op |-> call[t].op, whole |-> call[t].whole, disturbed |-> call[t].disturbed])
  BY DEF Excused
<1> QED BY <1>1, <1>2, Returns

(* What a call under way counts on, when it is none of shutdown's.         *)
LEMMA CountsOn ==
  ASSUME ZonesInv, NEW t \in Threads, ~call[t].disturbed,
         call[t].at \in Reading \cup {"zone", "verify", "wait", "names"}
  PROVE  /\ NoShutdown
         /\ call[t].whole \/ call[t].at \in Reading => Whole
         /\ call[t].whole => ~call[t].lost
         /\ call[t].at = "copy_fixed" => call[t].seen = fixedTransitions
         /\ call[t].at = "copy_rules" => call[t].seen = dstRules
<1>1. call[t].at # "idle" /\ call[t].op # "shutdown"
  BY DEF ZonesInv, Placed, Reading, Clearing
<1> QED BY <1>1 DEF ZonesInv, Counts

(* A call goes on to its next read.                                        *)
LEMMA Advances ==
  ASSUME ZonesInv, NEW t \in Threads, NEW c \in CallRecord, call' = [call EXCEPT ![t] = c],
         UNCHANGED <<fields, lock, outcome, loads, escaped>>,
         call[t].at \in Reading \cup {"zone", "verify", "wait"},
         c.at \in Reading \cup {"verify", "wait"},
         c.op = call[t].op, c.whole = call[t].whole, c.disturbed = call[t].disturbed,
         c.lost => c.op = "convert",
         ~c.disturbed => /\ c.at \in Reading => Whole
                         /\ c.whole => ~c.lost
                         /\ c.at = "copy_fixed" => c.seen = fixedTransitions
                         /\ c.at = "copy_rules" => c.seen = dstRules
  PROVE  ZonesInv'
<1>1. call[t].at \notin Holding /\ c.at \notin Holding /\ c.at # "idle"
  BY DEF Reading, Holding, Loading, Clearing
<1>2. call[t].op # "shutdown" /\ Placed(t)
  BY DEF ZonesInv, Placed, Reading, Clearing
<1>3. call'[t] = c
  BY DEF ZonesInv, ZonesType
<1>4. Placed(t)'
  BY <1>1, <1>2, <1>3 DEF Placed, Reading, Holding, Loading, Clearing
<1>5. Counts(t)'
  <2> SUFFICES ASSUME ~c.disturbed
               PROVE  Counts(t)'
    BY <1>3 DEF Counts
  <2>1. NoShutdown /\ (c.whole => Whole)
    BY CountsOn
  <2>2. NoShutdown'
    <3>1. \A v \in Threads : call'[v] = IF v = t THEN c ELSE call[v]
      BY DEF ZonesInv, ZonesType
    <3> QED BY <1>2, <2>1, <3>1 DEF NoShutdown
  <2>3. Whole => Whole'
    BY WholeIs, WholeIsNext DEF fields
  <2>4. fixedTransitions' = fixedTransitions /\ dstRules' = dstRules
    BY DEF fields
  <2> QED BY <1>3, <2>1, <2>2, <2>3, <2>4 DEF Counts
<1> QED BY <1>1, <1>2, <1>4, <1>5, Reads

(* The same when only its place changes.                                   *)
LEMMA GoesOn ==
  ASSUME ZonesInv, NEW t \in Threads, NEW where \in Reading \cup {"verify", "wait"}, Go(t, where),
         UNCHANGED <<fields, lock, outcome, loads, escaped>>,
         call[t].at \in Reading \cup {"zone", "verify", "wait"},
         where \notin {"copy_fixed", "copy_rules"},
         ~call[t].disturbed => (where \in Reading => Whole)
  PROVE  ZonesInv'
<1> DEFINE c == [call[t] EXCEPT !.at = where]
<1>1. call[t] \in CallRecord /\ where \in Places
  BY DEF ZonesInv, ZonesType, Places
<1>2. c \in CallRecord /\ c.at = where /\ c.op = call[t].op /\ c.disturbed = call[t].disturbed
      /\ c.whole = call[t].whole /\ c.lost = call[t].lost
  BY <1>1 DEF CallRecord
<1>3. call' = [call EXCEPT ![t] = c]
  BY DEF Go, ZonesInv, ZonesType
<1> HIDE DEF c
<1>4. c.lost => c.op = "convert"
  BY <1>2 DEF ZonesInv, Placed
<1>5. ~c.disturbed => (c.whole => ~c.lost)
  BY <1>2, CountsOn
<1> QED BY <1>2, <1>3, <1>4, <1>5, Advances

(* The lookup of the zone precedes the verification: it may miss, in a     *)
(* conversion that began before the table was whole.                       *)
LEMMA ZoneIsRead ==
  ASSUME ZonesInv, NEW t \in Threads, read_zone(t)
  PROVE  ZonesInv'
<1>1. call[t].at = "zone" /\ UNCHANGED <<fields, loads, escaped>> /\ call[t] \in CallRecord
  BY DEF read_zone, At, ZonesInv, ZonesType
<1>2. call[t].op = "convert"
  BY <1>1 DEF ZonesInv, Placed
<1>3. ~call[t].disturbed => (call[t].whole => zoneIdToTable # NoTable /\ filled)
  BY <1>1, CountsOn, WholeIs
<1>4. CASE zoneIdToTable = NoTable /\ Return(t, "null")
  <2>1. "null" \in Endings /\ call[t].at \notin Holding
    BY <1>1 DEF Endings, Holding, Loading, Clearing
  <2> QED BY <1>1, <1>2, <1>3, <1>4, <2>1, Answers
<1>5. CASE /\ zoneIdToTable # NoTable
           /\ \E found \in {TRUE, filled} : call' = [call EXCEPT ![t].lost = ~found, ![t].at = "verify"]
           /\ UNCHANGED <<outcome, lock>>
  <2>1. PICK found \in {TRUE, filled} : call' = [call EXCEPT ![t].lost = ~found, ![t].at = "verify"]
    BY <1>5
  <2>2. found \in BOOLEAN /\ (filled => found)
    BY DEF ZonesInv, ZonesType, FieldsType
  <2> DEFINE c == [call[t] EXCEPT !.lost = ~found, !.at = "verify"]
  <2>3. c \in CallRecord /\ c.at = "verify" /\ c.op = call[t].op /\ c.disturbed = call[t].disturbed
        /\ c.whole = call[t].whole
    BY <1>1, <2>2 DEF CallRecord, Places
  <2>4. c.lost = ~found
    BY <1>1 DEF CallRecord
  <2>5. call' = [call EXCEPT ![t] = c]
    BY <2>1 DEF ZonesInv, ZonesType
  <2> HIDE DEF c
  <2>6. ~c.disturbed => (c.whole => ~c.lost)
    BY <1>3, <2>2, <2>3, <2>4
  <2>7. c.at \notin Reading /\ c.at # "copy_fixed" /\ c.at # "copy_rules"
    BY <2>3 DEF Reading
  <2> QED BY <1>1, <1>2, <1>5, <2>3, <2>5, <2>6, <2>7, Advances
<1> QED BY <1>4, <1>5 DEF read_zone

(* The verification: the volatile field tells.                             *)
LEMMA CacheIsVerified ==
  ASSUME ZonesInv, NEW t \in Threads, verifyDatabaseCached(t) \/ verifyDatabaseCachedSync(t)
  PROVE  ZonesInv'
<1> DEFINE next == IF call[t].op = "getIndex" THEN "lookup" ELSE "read_fixed"
<1>1. call[t].at \in {"verify", "wait"} /\ UNCHANGED <<fields, loads, escaped>> /\ call[t].at \notin Holding
  BY DEF verifyDatabaseCached, verifyDatabaseCachedSync, At, Holding, Loading, Clearing
<1>2. ~call[t].disturbed => (tzNameToIndexMap # NoTable => Whole)
  BY <1>1, CountsOn, LastFieldTells
<1>3. next \in Reading \cup {"verify", "wait"} /\ next \notin {"copy_fixed", "copy_rules"}
  BY DEF Reading
<1> HIDE DEF next
<1>4. CASE tzNameToIndexMap # NoTable /\ Verified(t) /\ UNCHANGED <<lock, outcome>>
  BY <1>1, <1>2, <1>3, <1>4, GoesOn DEF Verified, next
<1>5. CASE Go(t, "wait") /\ UNCHANGED <<lock, outcome>>
  BY <1>1, <1>5, GoesOn DEF Reading
<1>6. CASE tzNameToIndexMap = NoTable /\ Return(t, "not loaded")
  <2>1. "not loaded" \in Endings
    BY DEF Endings
  <2>2. ~call[t].disturbed => ~call[t].whole
    BY <1>1, <1>6, CountsOn, WholeIs
  <2> QED BY <1>1, <1>6, <2>1, <2>2, Answers
<1> QED BY <1>4, <1>5, <1>6 DEF verifyDatabaseCached, verifyDatabaseCachedSync

(* The columns are taken and copied; a closed one would have moved on.     *)
LEMMA ColumnsAreRead ==
  ASSUME ZonesInv, NEW t \in Threads, read_fixed(t) \/ copy_fixed(t) \/ read_rules(t) \/ copy_rules(t)
  PROVE  ZonesInv'
<1>1. /\ call[t].at \in {"read_fixed", "copy_fixed", "read_rules", "copy_rules"}
      /\ UNCHANGED <<fields, loads, escaped>> /\ call[t] \in CallRecord
  BY DEF read_fixed, copy_fixed, read_rules, copy_rules, At, ZonesInv, ZonesType
<1>2. call[t].at \in Reading /\ call[t].at \notin Holding
  BY <1>1 DEF Reading, Holding, Loading, Clearing
<1>3. ~call[t].disturbed => Whole /\ fixedTransitions # NoTable /\ dstRules # NoTable
  BY <1>2, CountsOn, WholeIs
<1>4. {"ok", "null", "closed"} \subseteq Endings
  BY DEF Endings
<1>5. FieldsType
  BY DEF ZonesInv, ZonesType
<1>6. ASSUME NEW column \in Nat, NEW where \in {"copy_fixed", "copy_rules"},
             call' = [call EXCEPT ![t].seen = column, ![t].at = where], UNCHANGED <<lock, outcome>>,
             where = "copy_fixed" => column = fixedTransitions,
             where = "copy_rules" => column = dstRules
      PROVE  ZonesInv'
  <2> DEFINE c == [call[t] EXCEPT !.seen = column, !.at = where]
  <2>1. where \in Reading /\ where \in Places
    BY DEF Reading, Places
  <2>2. c \in CallRecord /\ c.at = where /\ c.seen = column /\ c.op = call[t].op
        /\ c.disturbed = call[t].disturbed /\ c.whole = call[t].whole /\ c.lost = call[t].lost
    BY <1>1, <2>1 DEF CallRecord
  <2>3. call' = [call EXCEPT ![t] = c]
    BY <1>6 DEF ZonesInv, ZonesType
  <2> HIDE DEF c
  <2>4. (c.lost => c.op = "convert") /\ (~c.disturbed => (c.whole => ~c.lost))
    BY <1>2, <2>2, CountsOn DEF ZonesInv, Placed
  <2> QED BY <1>1, <1>2, <1>3, <1>6, <2>1, <2>2, <2>3, <2>4, Advances
<1>7. CASE read_fixed(t)
  <2>1. CASE fixedTransitions = NoTable /\ Return(t, "null")
    BY <1>1, <1>2, <1>3, <1>4, <2>1, Answers
  <2>2. CASE /\ call' = [call EXCEPT ![t].seen = fixedTransitions, ![t].at = "copy_fixed"]
             /\ UNCHANGED <<lock, outcome>>
    BY <1>5, <1>6, <2>2 DEF FieldsType
  <2> QED BY <1>7, <2>1, <2>2 DEF read_fixed
<1>8. CASE copy_fixed(t)
  <2>1. call[t].at = "copy_fixed"
    BY <1>8 DEF copy_fixed, At
  <2>2. CASE fixedTransitions # call[t].seen /\ Return(t, "closed")
    <3>1. call[t].disturbed
      BY <1>2, <2>1, <2>2, CountsOn
    <3> QED BY <1>1, <1>2, <1>4, <2>2, <3>1, Answers
  <2>3. CASE Go(t, "read_rules") /\ UNCHANGED <<lock, outcome>>
    BY <1>1, <1>2, <1>3, <2>3, GoesOn DEF Reading
  <2> QED BY <1>8, <2>2, <2>3 DEF copy_fixed
<1>9. CASE read_rules(t)
  <2>1. CASE dstRules = NoTable /\ Return(t, "null")
    BY <1>1, <1>2, <1>3, <1>4, <2>1, Answers
  <2>2. CASE /\ call' = [call EXCEPT ![t].seen = dstRules, ![t].at = "copy_rules"]
             /\ UNCHANGED <<lock, outcome>>
    BY <1>5, <1>6, <2>2 DEF FieldsType
  <2> QED BY <1>9, <2>1, <2>2 DEF read_rules
<1>10. CASE copy_rules(t)
  <2> DEFINE how == IF dstRules # call[t].seen THEN "closed" ELSE IF call[t].lost THEN "null" ELSE "ok"
  <2>1. call[t].at = "copy_rules" /\ Return(t, how)
    BY <1>10 DEF copy_rules, At
  <2>2. how \in Endings
    BY <1>4
  <2>3. ~call[t].disturbed => /\ call[t].whole => how = "ok"
                              /\ how \in {"null", "closed", "absent"} => call[t].op = "convert" /\ ~call[t].whole
    <3>1. call[t].lost => call[t].op = "convert"
      BY DEF ZonesInv, Placed
    <3>2. ~call[t].disturbed => dstRules = call[t].seen /\ (call[t].whole => ~call[t].lost)
      BY <1>2, <2>1, CountsOn
    <3> QED BY <3>1, <3>2
  <2> HIDE DEF how
  <2> QED BY <1>1, <1>2, <2>1, <2>2, <2>3, Answers
<1> QED BY <1>7, <1>8, <1>9, <1>10

(* The index of a zone, and the synchronized getters.                      *)
LEMMA IndexIsRead ==
  ASSUME ZonesInv, NEW t \in Threads, getIndexToTransitionTable(t) \/ getTzNameToIndexMap(t)
  PROVE  ZonesInv'
<1>1. UNCHANGED <<fields, loads, escaped>>
  BY DEF getIndexToTransitionTable, getTzNameToIndexMap
<1>2. CASE getIndexToTransitionTable(t)
  <2> DEFINE how == IF zoneIdToTable = NoTable THEN "null" ELSE IF filled THEN "ok" ELSE "absent"
  <2>1. call[t].at = "lookup" /\ Return(t, how)
    BY <1>2 DEF getIndexToTransitionTable, At
  <2>2. how \in Endings
    BY DEF Endings
  <2>3. call[t].at \in Reading /\ call[t].at \notin Holding
    BY <2>1 DEF Reading, Holding, Loading, Clearing
  <2>4. ~call[t].disturbed => how = "ok"
    <3>1. ~call[t].disturbed => Whole
      BY <2>3, CountsOn
    <3> QED BY <3>1, WholeIs
  <2> HIDE DEF how
  <2> QED BY <1>1, <2>1, <2>2, <2>3, <2>4, Answers
<1>3. CASE getTzNameToIndexMap(t)
  <2> DEFINE how == IF tzNameToIndexMap = NoTable THEN "not loaded" ELSE "ok"
  <2>1. call[t].at = "names" /\ Return(t, how)
    BY <1>3 DEF getTzNameToIndexMap, At
  <2>2. how \in Endings /\ how \notin {"null", "closed", "absent"}
    BY DEF Endings
  <2>3. call[t].at \notin Holding
    BY <2>1 DEF Holding, Loading, Clearing
  <2>4. ~call[t].disturbed => (call[t].whole => how = "ok")
    <3>1. ~call[t].disturbed => (call[t].whole => Whole)
      BY <2>1, CountsOn
    <3> QED BY <3>1, WholeIs
  <2> HIDE DEF how
  <2> QED BY <1>1, <2>1, <2>2, <2>3, <2>4, Answers
<1> QED BY <1>2, <1>3

(* A call begins: it takes note of a shutdown that is running or waiting,  *)
(* and of the table.                                                       *)
LEMMA CallBegins ==
  ASSUME ZonesInv, NEW t \in Threads, NEW op \in Operations, Begin(t, op)
  PROVE  ZonesInv'
<1> DEFINE at == CASE op = "cacheDatabase" -> "load" [] op = "shutdown" -> "close"
                   [] op = "convert" -> "zone" [] op = "getTzNameToIndexMap" -> "names"
                   [] OTHER -> "verify"
           met == \E u \in Threads : call[u].op = "shutdown"
           c == [NoCall EXCEPT !.op = op, !.whole = Whole, !.disturbed = met, !.at = at]
<1>1. call[t].at = "idle" /\ UNCHANGED <<fields, lock, loads, escaped>>
  BY DEF Begin, At
<1>2. call' = [call EXCEPT ![t] = c] /\ outcome' = [outcome EXCEPT ![t] = Pending]
  BY DEF Begin
<1>3. /\ op = "cacheDatabase" => at = "load"
      /\ op = "shutdown" => at = "close"
      /\ op = "convert" => at = "zone"
      /\ op = "getTzNameToIndexMap" => at = "names"
      /\ op \in {"convertWithTzCv", "getIndex"} => at = "verify"
  OBVIOUS
<1> HIDE DEF at
<1>4. at \in {"load", "close", "zone", "names", "verify"}
      /\ (at = "load" => op = "cacheDatabase") /\ (at = "close" => op = "shutdown")
      /\ (at = "zone" => op = "convert")
  BY <1>3 DEF Operations
<1>5. Whole \in BOOLEAN /\ met \in BOOLEAN
  BY WholeIs DEF Whole
<1>6. NoCall \in CallRecord /\ ~NoCall.lost
  BY DEF NoCall, CallRecord, Places, NoTable
<1>7. at \in Places
  BY <1>4 DEF Places
<1> HIDE DEF met
<1>8. c \in CallRecord /\ c.op = op /\ c.at = at /\ ~c.lost /\ c.disturbed = met /\ c.whole = Whole
  <2> DEFINE D(n, m, w) == [n EXCEPT !.op = op, !.whole = w, !.disturbed = m, !.at = at]
  <2>1. ASSUME NEW n \in CallRecord, ~n.lost, NEW m \in BOOLEAN, NEW w \in BOOLEAN
        PROVE  /\ D(n, m, w) \in CallRecord /\ D(n, m, w).op = op /\ D(n, m, w).at = at /\ ~D(n, m, w).lost
               /\ D(n, m, w).disturbed = m /\ D(n, m, w).whole = w
    BY <1>7, <2>1 DEF CallRecord
  <2>2. c = D(NoCall, met, Whole)
    OBVIOUS
  <2> HIDE DEF D
  <2>3. ASSUME NEW m \in BOOLEAN, NEW w \in BOOLEAN
        PROVE  /\ D(NoCall, m, w) \in CallRecord /\ D(NoCall, m, w).op = op /\ D(NoCall, m, w).at = at
               /\ ~D(NoCall, m, w).lost /\ D(NoCall, m, w).disturbed = m /\ D(NoCall, m, w).whole = w
    BY <1>6, <2>1
  <2> HIDE DEF c
  <2> QED BY <1>5, <2>2, <2>3, Zenon
<1> HIDE DEF c
<1>9. call'[t] = c /\ \A v \in Threads : call'[v] = IF v = t THEN c ELSE call[v]
  BY <1>2 DEF ZonesInv, ZonesType
<1>10. lock' # t
  BY <1>1 DEF ZonesInv, Placed, Holding, Loading, Clearing
<1>11. at \notin Holding /\ at # "idle" /\ at \notin Reading /\ at # "copy_fixed" /\ at # "copy_rules"
  BY <1>4 DEF Holding, Loading, Clearing, Reading
<1>12. Placed(t)'
  <2>1. at \notin Loading /\ at \notin Clearing
    BY <1>11 DEF Holding
  <2> QED BY <1>3, <1>4, <1>8, <1>9, <1>10, <1>11, <2>1 DEF Placed
<1>13. Phases(t)'
  BY <1>8, <1>9, <1>11 DEF Phases, Holding, Loading, Clearing
<1>14. Counts(t)'
  <2> SUFFICES ASSUME op # "shutdown", ~met
               PROVE  Counts(t)'
    BY <1>8, <1>9 DEF Counts
  <2>1. NoShutdown'
    BY <1>8, <1>9 DEF NoShutdown, met
  <2>2. Whole => Whole'
    BY <1>1, WholeIs, WholeIsNext DEF fields
  <2> QED BY <1>8, <1>9, <1>11, <2>1, <2>2 DEF Counts
<1>15. Pending \in OutcomeRecord /\ Excused(Pending)
  BY DEF Pending, OutcomeRecord, Endings, Excused
<1>16. lock' = NoThread => Left'
  BY <1>1, LeftIsKept DEF ZonesInv
<1>17. FieldsType' /\ loads' \in Nat
  BY <1>1 DEF ZonesInv, ZonesType, FieldsType, fields
<1>18. c.op = "shutdown" => c.at = "close"
  BY <1>3, <1>8
<1> QED BY <1>1, <1>2, <1>8, <1>12, <1>13, <1>14, <1>15, <1>16, <1>17, <1>18, OwnStep

-----------------------------------------------------------------------------
(* ZonesInv is an invariant of GpuTimeZoneDB: whatever the callers, the    *)
(* loading thread and shutdown interleave to, the fields are those of one  *)
(* load up to where the holder of the monitor is, and a call no shutdown   *)
(* has met finds what it verified.                                         *)
THEOREM ZonesInvariant == ZonesSpec => []ZonesInv
<1>1. ZonesInit => ZonesInv
  <2> SUFFICES ASSUME ZonesInit
               PROVE  ZonesInv
    OBVIOUS
  <2>1. NoCall \in CallRecord /\ Pending \in OutcomeRecord /\ Excused(Pending)
    BY DEF NoCall, Pending, CallRecord, OutcomeRecord, Places, Endings, Excused, NoTable
  <2>2. FieldsType
    BY DEF ZonesInit, FieldsType, NoTable
  <2>3. ZonesType
    BY <2>1, <2>2 DEF ZonesInit, ZonesType
  <2>4. Nothing
    BY DEF ZonesInit, Nothing
  <2>5. \A t \in Threads : Placed(t) /\ Phases(t) /\ Counts(t)
    BY NoThreadAssumption DEF ZonesInit, NoCall, Placed, Phases, Counts, Holding, Loading, Clearing
  <2> QED BY <2>1, <2>3, <2>4, <2>5 DEF ZonesInit, ZonesInv, Left
<1>2. ZonesInv /\ [ZonesNext]_zoneVars => ZonesInv'
  <2> SUFFICES ASSUME ZonesInv, [ZonesNext]_zoneVars
               PROVE  ZonesInv'
    OBVIOUS
  <2>1. ASSUME NEW t \in Threads, Step(t)
        PROVE  ZonesInv'
    BY <2>1, LoadBegins, LoadGoesOn, LoadIsAbandoned, LoadEnds, ShutdownBegins, CloseGoesOn, CloseEnds, ZoneIsRead,
       CacheIsVerified, ColumnsAreRead, IndexIsRead DEF Step
  <2>2. CASE UNCHANGED zoneVars
    BY <2>2 DEF zoneVars, fields, ZonesInv, ZonesType, FieldsType, Placed, Phases, Counts, NoShutdown,
         Whole, Left, Nothing, HalfMade
  <2> QED BY <2>1, <2>2, CallBegins DEF ZonesNext
<1> QED BY <1>1, <1>2, PTL DEF ZonesSpec

(* Whenever the monitor of GpuTimeZoneDB.class is free the table is whole, *)
(* of one load, or not there at all, however loads ended in an Exception   *)
(* and shutdowns came; only an Error, which the code does not catch,       *)
(* leaves a part, and then never the index of names the readers test.      *)
THEOREM TableIsAllOrNothing == ZonesSpec => []DatabaseIsAllOrNothing
<1>1. ZonesInv => DatabaseIsAllOrNothing
  BY DEF ZonesInv, DatabaseIsAllOrNothing, Left, Nothing
<1> QED BY <1>1, ZonesInvariant, PTL

(* A conversion or lookup that began with the table whole succeeds unless  *)
(* a shutdown met it, and no other read of GpuTimeZoneDB trips over a      *)
(* field that is missing, half filled or closed, but the conversion by     *)
(* zone name that reads the map before it verifies.                        *)
THEOREM UndisturbedCallsSucceed == ZonesSpec => []OnlyShutdownBreaksCalls
<1>1. ZonesInv => OnlyShutdownBreaksCalls
  BY DEF ZonesInv, OnlyShutdownBreaksCalls, Excused
<1> QED BY <1>1, ZonesInvariant, PTL

-----------------------------------------------------------------------------
(* The Gregorian calendar *)

\* Days before the first of March of year y, counted from that of year 0, and
\* before the month mp after March.
StartOf(y) == 365 * y + y \div 4 - y \div 100 + y \div 400
MonthStart(mp) == (153 * mp + 2) \div 5

\* The year and the month after March in which a month lies.
MarchYear(year, month) == IF month <= 2 THEN year - 1 ELSE year
MarchMonth(month)      == IF month > 2 THEN month - 3 ELSE month + 9

\* A date of the calendar, and its day since 1970.
IsDate(ymd) ==
    \E year \in Int, month \in 1 .. 12, day \in 1 .. 31 :
        day <= days_in_month(year, month) /\ ymd = [year |-> year, month |-> month, day |-> day]

\* The date that is doy days into the year y, in the month mp, counting from March.
MonthOf(mp) == IF mp < 10 THEN mp + 3 ELSE mp - 9
DateOf(y, doy, mp) ==
    [year |-> y + (IF MonthOf(mp) <= 2 THEN 1 ELSE 0), month |-> MonthOf(mp), day |-> doy - (153 * mp + 2) \div 5 + 1]

\* Day d lies doy days into the year of March y, in the month mp of it.
LiesIn(d, y, doy, mp) ==
    /\ 0 <= doy /\ doy <= 365 /\ 0 <= mp /\ mp <= 11
    /\ StartOf(y) + doy = d + 719468
    /\ StartOf(y) + doy < StartOf(y + 1)
    /\ mp = (5 * doy + 2) \div 153

EpochDay(ymd) == to_epoch_day(ymd.year, ymd.month, ymd.day)

(* From the first of March of a year to that of the next pass as many days *)
(* as is_leap_year gives the year the February between them is in.         *)
LEMMA YearLength ==
  ASSUME NEW y \in Int
  PROVE  /\ StartOf(y) \in Int
         /\ StartOf(y + 1) = StartOf(y) + (IF is_leap_year(y + 1) THEN 366 ELSE 365)
BY SMTT(20) DEF StartOf, is_leap_year

(* The coefficients (153 * mp + 2) / 5 of the code give every month the    *)
(* days_in_month of it, February excepted, with which a year of March ends. *)
LEMMA MonthLength ==
  ASSUME NEW year \in Int, NEW month \in 1 .. 12
  PROVE  /\ MarchMonth(month) \in 0 .. 11 /\ MonthStart(MarchMonth(month)) \in Int
         /\ month # 2 => MonthStart(MarchMonth(month) + 1) = MonthStart(MarchMonth(month)) + days_in_month(year, month)
         /\ month = 2 => MonthStart(MarchMonth(month)) = 337
BY SMTT(20) DEF MonthStart, MarchMonth, days_in_month

(* Years of March do not overlap.                                          *)
LEMMA YearsOrdered ==
  ASSUME NEW y \in Int, NEW z \in Int, y < z
  PROVE  StartOf(y + 1) <= StartOf(z)
BY SMTT(20) DEF StartOf

(* to_epoch_day without its eras of 400 years.                             *)
LEMMA EpochDayIs ==
  ASSUME NEW year \in Int, NEW month \in 1 .. 12, NEW day \in Int
  PROVE  to_epoch_day(year, month, day)
           = StartOf(MarchYear(year, month)) + MonthStart(MarchMonth(month)) + day - 1 - 719468
<1>1. PICK y \in Int : y = MarchYear(year, month)
  BY SMTT(20) DEF MarchYear
<1>2. PICK ms \in Int : ms = MonthStart(MarchMonth(month))
  BY SMTT(20), MonthLength
<1>3. PICK era \in Int, yoe \in Int : era = y \div 400 /\ yoe = y - era * 400
  BY SMTT(20)
<1>4. to_epoch_day(year, month, day)
        = era * 146097 + (yoe * 365 + yoe \div 4 - yoe \div 100 + (ms + day - 1)) - 719468
  BY SMTT(20), <1>1, <1>2, <1>3 DEF to_epoch_day, MarchYear, MarchMonth, MonthStart
<1>5. era * 146097 + (yoe * 365 + yoe \div 4 - yoe \div 100) = StartOf(y)
  BY SMTT(20), <1>3 DEF StartOf
<1> QED BY SMTT(20), <1>1, <1>2, <1>4, <1>5 DEF StartOf

(* What to_date computes: the corrections of its estimate of the year of   *)
(* the era leave the day within that year.                                 *)
LEMMA DateIs ==
  ASSUME NEW d \in Int
  PROVE  \E y \in Int, doy \in Int, mp \in Int : LiesIn(d, y, doy, mp) /\ to_date(d) = DateOf(y, doy, mp)
<1>1. PICK z \in Int : z = d + 719468
  BY SMTT(20)
<1>2. PICK era \in Int, doe \in Int : era = z \div 146097 /\ doe = z % 146097
  BY SMTT(20)
<1>3. z = 146097 * era + doe /\ 0 <= doe /\ doe <= 146096
  BY SMTT(20), <1>2
<1>4. PICK yoe \in Int : yoe = (doe - doe \div 1460 + doe \div 36524 - doe \div 146096) \div 365
  BY SMTT(20)
<1>5. PICK doy \in Int : doy = doe - (365 * yoe + yoe \div 4 - yoe \div 100)
  BY SMTT(20)
<1>6. 0 <= yoe /\ yoe <= 399 /\ 0 <= doy /\ doy <= 365
  BY SMTT(20), <1>3, <1>4, <1>5
<1>7. doy = 365 => ((yoe + 1) % 4 = 0 /\ (yoe + 1) % 100 # 0) \/ yoe = 399
  BY SMTT(20), <1>3, <1>4, <1>5, <1>6
<1>8. PICK y \in Int : y = yoe + era * 400
  BY SMTT(20)
<1>9. StartOf(y) = era * 146097 + 365 * yoe + yoe \div 4 - yoe \div 100
  BY SMTT(20), <1>6, <1>8 DEF StartOf
<1>10. StartOf(y) + doy = z
  BY SMTT(20), <1>3, <1>5, <1>9
<1>11. StartOf(y) + doy < StartOf(y + 1)
  <2>1. CASE doy < 365
    BY SMTT(20), <2>1, YearLength
  <2>2. CASE doy = 365
    <3>1. is_leap_year(y + 1)
      BY SMTT(20), <1>6, <1>7, <1>8, <2>2 DEF is_leap_year
    <3> QED BY SMTT(20), <2>2, <3>1, YearLength
  <2> QED BY SMTT(20), <1>6, <2>1, <2>2
<1>12. PICK mp \in Int : mp = (5 * doy + 2) \div 153 /\ 0 <= mp /\ mp <= 11
  BY SMTT(20), <1>6
<1>13. to_date(d) = DateOf(y, doy, mp)
  <2>1. to_date(d) = DateOf(yoe + era * 400, doe - (365 * yoe + yoe \div 4 - yoe \div 100),
                            (5 * (doe - (365 * yoe + yoe \div 4 - yoe \div 100)) + 2) \div 153)
    BY SMTT(20), <1>1, <1>2, <1>4 DEF to_date, DateOf, MonthOf
  <2> QED BY SMTT(20), <2>1, <1>5, <1>8, <1>12
<1>14. 0 <= doy /\ doy <= 365 /\ 0 <= mp /\ mp <= 11 /\ StartOf(y) + doy = d + 719468
  BY SMTT(20), <1>1, <1>6, <1>10, <1>12
<1>15. LiesIn(d, y, doy, mp)
  BY SMTT(20), <1>11, <1>12, <1>14 DEF LiesIn
<1> QED BY <1>13, <1>15

\* The date is doy days into the year y, in the month mp of it.
FallsOn(year, month, day, y, doy, mp) ==
    /\ y = MarchYear(year, month) /\ mp = MarchMonth(month) /\ doy = MonthStart(mp) + day - 1
    /\ 0 <= doy /\ doy <= 365 /\ 0 <= mp /\ mp <= 11
    /\ StartOf(y) + doy < StartOf(y + 1)
    /\ mp = (5 * doy + 2) \div 153
    /\ DateOf(y, doy, mp) = [year |-> year, month |-> month, day |-> day]

(* The day that DateOf computes lies in its month.                         *)
LEMMA DateOfIsDate ==
  ASSUME NEW y \in Int, NEW doy \in Int, 0 <= doy, doy <= 365, StartOf(y) + doy < StartOf(y + 1),
         NEW mp \in Int, mp = (5 * doy + 2) \div 153
  PROVE  /\ IsDate(DateOf(y, doy, mp))
         /\ MarchYear(DateOf(y, doy, mp).year, DateOf(y, doy, mp).month) = y
         /\ MarchMonth(DateOf(y, doy, mp).month) = mp
         /\ MonthStart(mp) + DateOf(y, doy, mp).day - 1 = doy
<1>1. 0 <= mp /\ mp <= 11
  BY SMTT(20)
<1>2. PICK month \in Int : month = MonthOf(mp)
  BY SMTT(20), <1>1 DEF MonthOf
<1>3. month \in 1 .. 12 /\ MarchMonth(month) = mp /\ (month <= 2 <=> mp >= 10) /\ (month = 2 <=> mp = 11)
  BY SMTT(20), <1>1, <1>2 DEF MonthOf, MarchMonth
<1>4. PICK year \in Int : year = y + (IF month <= 2 THEN 1 ELSE 0)
  BY SMTT(20), <1>3
<1>5. MarchYear(year, month) = y
  BY SMTT(20), <1>3, <1>4 DEF MarchYear
<1>6. PICK day \in Int : day = doy - (153 * mp + 2) \div 5 + 1
  BY SMTT(20)
<1>7. DateOf(y, doy, mp) = [year |-> year, month |-> month, day |-> day]
  BY SMTT(20), <1>2, <1>4, <1>6 DEF DateOf
<1>8. 1 <= day /\ day <= 31
  BY SMTT(20), <1>1, <1>6
<1>9. day <= days_in_month(year, month)
  <2>1. CASE month = 2
    <3>1. day = doy - 336 /\ year = y + 1
      BY SMTT(20), <1>3, <1>4, <1>6, <2>1
    <3> QED BY SMTT(20), <2>1, <3>1, YearLength DEF days_in_month
  <2>2. CASE month # 2
    <3>1. doy < MonthStart(mp + 1)
      BY SMTT(20), <1>1 DEF MonthStart
    <3>2. days_in_month(year, month) \in Int
      BY SMTT(20) DEF days_in_month
    <3> QED BY SMTT(20), <1>3, <1>6, <2>2, <3>1, <3>2, MonthLength DEF MonthStart
  <2> QED BY <2>1, <2>2
<1>10. IsDate(DateOf(y, doy, mp))
  <2>1. day \in 1 .. 31
    BY SMTT(20), <1>8
  <2> QED BY <1>3, <1>7, <1>9, <2>1 DEF IsDate
<1>11. MonthStart(mp) + day - 1 = doy
  BY SMTT(20), <1>1, <1>6 DEF MonthStart
<1> QED BY SMTT(20), <1>3, <1>5, <1>7, <1>10, <1>11

(* A date lies within its year, and its month is the one its day of the    *)
(* year is in.                                                             *)
LEMMA DateWithinYear ==
  ASSUME NEW year \in Int, NEW month \in 1 .. 12, NEW day \in 1 .. 31, day <= days_in_month(year, month)
  PROVE  \E y \in Int, doy \in Int, mp \in Int : FallsOn(year, month, day, y, doy, mp)
<1>1. PICK y \in Int : y = MarchYear(year, month)
  BY SMTT(20) DEF MarchYear
<1>2. PICK mp \in Int : mp = MarchMonth(month) /\ 0 <= mp /\ mp <= 11 /\ (month = 2 <=> mp = 11) /\ (month <= 2 <=> mp >= 10)
  BY SMTT(20) DEF MarchMonth
<1>3. PICK doy \in Int : doy = MonthStart(mp) + day - 1
  BY SMTT(20), <1>2 DEF MonthStart
<1>4. 0 <= doy
  BY SMTT(20), <1>2, <1>3 DEF MonthStart
<1>5. CASE month = 2
  <2>1. mp = 11 /\ doy = 336 + day /\ year = y + 1
    BY SMTT(20), <1>1, <1>2, <1>3, <1>5 DEF MonthStart, MarchYear
  <2>2. StartOf(y) + doy < StartOf(y + 1)
    BY SMTT(20), <1>5, <2>1, YearLength DEF days_in_month
  <2>3. doy <= 365
    BY SMTT(20), <1>5, <2>1 DEF days_in_month
  <2>4. mp = (5 * doy + 2) \div 153
    BY SMTT(20), <2>1, <2>3
  <2>5. DateOf(y, doy, mp) = [year |-> year, month |-> month, day |-> day]
    BY SMTT(20), <1>5, <2>1 DEF DateOf, MonthOf
  <2>6. FallsOn(year, month, day, y, doy, mp)
    BY SMTT(20), <1>1, <1>2, <1>3, <1>4, <2>2, <2>3, <2>4, <2>5 DEF FallsOn
  <2> QED BY <2>6
<1>6. CASE month # 2
  <2>1. doy < MonthStart(mp + 1)
    <3>1. days_in_month(year, month) \in Int
      BY SMTT(20) DEF days_in_month
    <3> QED BY SMTT(20), <1>2, <1>3, <1>6, <3>1, MonthLength DEF MonthStart
  <2>2. mp <= 10 /\ doy <= 336
    BY SMTT(20), <1>2, <1>6, <2>1 DEF MonthStart
  <2>3. StartOf(y) + doy < StartOf(y + 1)
    BY SMTT(20), <2>2, YearLength
  <2>4. mp = (5 * doy + 2) \div 153
    <3>1. 153 * mp <= 5 * doy + 2
      BY SMTT(20), <1>2, <1>3 DEF MonthStart
    <3>2. 5 * doy + 2 < 153 * (mp + 1)
      BY SMTT(20), <1>2, <2>1 DEF MonthStart
    <3> QED BY SMTT(20), <3>1, <3>2
  <2>5. DateOf(y, doy, mp) = [year |-> year, month |-> month, day |-> day]
    <3>1. MonthOf(mp) = month
      BY SMTT(20), <1>2 DEF MonthOf, MarchMonth
    <3>2. y + (IF month <= 2 THEN 1 ELSE 0) = year
      BY SMTT(20), <1>1 DEF MarchYear
    <3>3. doy - (153 * mp + 2) \div 5 + 1 = day
      BY SMTT(20), <1>2, <1>3 DEF MonthStart
    <3> QED BY SMTT(20), <3>1, <3>2, <3>3 DEF DateOf
  <2>6. doy <= 365
    BY SMTT(20), <2>2
  <2>7. FallsOn(year, month, day, y, doy, mp)
    BY SMTT(20), <1>1, <1>2, <1>3, <1>4, <2>3, <2>4, <2>5, <2>6 DEF FallsOn
  <2> QED BY <2>7
<1> QED BY SMTT(20), <1>5, <1>6

(* to_date, of every day, is a date of the calendar, and to_epoch_day      *)
(* takes it back to the day.                                               *)
THEOREM DaysAreDates ==
  ASSUME NEW d \in Int
  PROVE  IsDate(to_date(d)) /\ EpochDay(to_date(d)) = d
<1>0. PICK y \in Int, doy \in Int, mp \in Int : LiesIn(d, y, doy, mp) /\ to_date(d) = DateOf(y, doy, mp)
  BY DateIs
<1>1. /\ 0 <= doy /\ doy <= 365 /\ 0 <= mp /\ mp <= 11
      /\ StartOf(y) + doy = d + 719468
      /\ StartOf(y) + doy < StartOf(y + 1)
      /\ mp = (5 * doy + 2) \div 153
      /\ to_date(d) = DateOf(y, doy, mp)
  BY SMTT(20), <1>0 DEF LiesIn
<1>2. /\ IsDate(to_date(d))
      /\ MarchYear(to_date(d).year, to_date(d).month) = y
      /\ MarchMonth(to_date(d).month) = mp
      /\ MonthStart(mp) + to_date(d).day - 1 = doy
  BY SMTT(20), <1>1, DateOfIsDate
<1>3. to_date(d).year \in Int /\ to_date(d).month \in 1 .. 12 /\ to_date(d).day \in Int
  BY SMTT(20), <1>2 DEF IsDate
<1>4. EpochDay(to_date(d)) = StartOf(y) + MonthStart(mp) + to_date(d).day - 1 - 719468
  BY SMTT(20), <1>2, <1>3, EpochDayIs DEF EpochDay
<1>5. StartOf(y) \in Int /\ MonthStart(mp) \in Int
  BY SMTT(20) DEF StartOf, MonthStart
<1> QED BY SMTT(20), <1>1, <1>2, <1>3, <1>4, <1>5

(* Every date of the calendar has its own day: to_date gives back the date *)
(* to_epoch_day was given.                                                 *)
THEOREM DatesAreDays ==
  ASSUME NEW ymd, IsDate(ymd)
  PROVE  EpochDay(ymd) \in Int /\ to_date(EpochDay(ymd)) = ymd
<1>1. PICK year \in Int, month \in 1 .. 12, day \in 1 .. 31 :
        day <= days_in_month(year, month) /\ ymd = [year |-> year, month |-> month, day |-> day]
  BY DEF IsDate
<1>0. PICK y \in Int, doy \in Int, mp \in Int : FallsOn(year, month, day, y, doy, mp)
  BY <1>1, DateWithinYear
<1>2. /\ y = MarchYear(year, month) /\ mp = MarchMonth(month) /\ doy = MonthStart(mp) + day - 1
      /\ 0 <= doy /\ doy <= 365 /\ 0 <= mp /\ mp <= 11
      /\ StartOf(y) + doy < StartOf(y + 1)
      /\ mp = (5 * doy + 2) \div 153
      /\ DateOf(y, doy, mp) = [year |-> year, month |-> month, day |-> day]
  BY SMTT(20), <1>0 DEF FallsOn
<1>3. StartOf(y) \in Int /\ MonthStart(mp) \in Int
  BY SMTT(20) DEF StartOf, MonthStart
<1>4. PICK d \in Int : d = EpochDay(ymd) /\ StartOf(y) + doy = d + 719468
  <2>1. EpochDay(ymd) = to_epoch_day(year, month, day)
    BY SMTT(20), <1>1 DEF EpochDay
  <2>2. EpochDay(ymd) = StartOf(y) + MonthStart(mp) + day - 1 - 719468
    <3>1. day \in Int
      BY SMTT(20)
    <3>2. to_epoch_day(year, month, day) = StartOf(MarchYear(year, month)) + MonthStart(MarchMonth(month)) + day - 1 - 719468
      BY <3>1, EpochDayIs
    <3>3. y = MarchYear(year, month) /\ mp = MarchMonth(month)
      BY SMTT(20), <1>2
    <3>4. StartOf(MarchYear(year, month)) = StartOf(y) /\ MonthStart(MarchMonth(month)) = MonthStart(mp)
      BY Zenon, <3>3
    <3> QED BY SMTT(20), <2>1, <3>1, <3>2, <3>4, <1>3
  <2> QED BY SMTT(20), <1>2, <1>3, <2>2
<1>5. PICK z \in Int, doz \in Int, mz \in Int : LiesIn(d, z, doz, mz) /\ to_date(d) = DateOf(z, doz, mz)
  BY DateIs
<1>6. y = z
  <2>0. 0 <= doz /\ StartOf(z) + doz = d + 719468 /\ StartOf(z) + doz < StartOf(z + 1)
    BY SMTT(20), <1>5 DEF LiesIn
  <2>1. StartOf(z) \in Int /\ StartOf(z + 1) \in Int /\ StartOf(y + 1) \in Int
    BY SMTT(20) DEF StartOf
  <2>2. ~(y < z)
    BY SMTT(20), <1>2, <1>3, <1>4, <2>0, <2>1, YearsOrdered
  <2>3. ~(z < y)
    BY SMTT(20), <1>2, <1>3, <1>4, <2>0, <2>1, YearsOrdered
  <2> QED BY SMTT(20), <2>2, <2>3
<1>7. doy = doz /\ mp = mz
  BY SMTT(20), <1>2, <1>3, <1>4, <1>5, <1>6 DEF LiesIn
<1> QED BY SMTT(20), <1>1, <1>2, <1>4, <1>5, <1>6, <1>7

\* The day that lies doy days into the year of March y.
DayOf(y, doy) == StartOf(y) + doy - 719468

(* Where a date lies in the years of March, and its day from there.        *)
LEMMA DayOfDate ==
  ASSUME NEW year \in Int, NEW month \in 1 .. 12, NEW day \in 1 .. 31, day <= days_in_month(year, month)
  PROVE  \E y \in Int, doy \in Int, mp \in Int :
           FallsOn(year, month, day, y, doy, mp) /\ to_epoch_day(year, month, day) = DayOf(y, doy)
<1>0. PICK y \in Int, doy \in Int, mp \in Int : FallsOn(year, month, day, y, doy, mp)
  BY DateWithinYear
<1>1. to_epoch_day(year, month, day)
        = StartOf(MarchYear(year, month)) + MonthStart(MarchMonth(month)) + day - 1 - 719468
  <2>1. day \in Int
    BY SMTT(20)
  <2> QED BY <2>1, EpochDayIs
<1>2. y = MarchYear(year, month) /\ mp = MarchMonth(month) /\ doy = MonthStart(mp) + day - 1
  BY SMTT(20), <1>0 DEF FallsOn
<1>3. StartOf(MarchYear(year, month)) = StartOf(y) /\ MonthStart(MarchMonth(month)) = MonthStart(mp)
  BY Zenon, <1>2
<1>4. StartOf(y) \in Int /\ MonthStart(mp) \in Int
  BY SMTT(20) DEF StartOf, MonthStart
<1>5. to_epoch_day(year, month, day) = DayOf(y, doy)
  BY SMTT(20), <1>1, <1>2, <1>3, <1>4 DEF DayOf
<1> QED BY <1>0, <1>5

(* to_epoch_day keeps the order of dates, which DateCode compares as the   *)
(* code compares them.                                                     *)
LEMMA DatesInOrder ==
  ASSUME NEW a, IsDate(a), NEW b, IsDate(b), DateCode(a) < DateCode(b)
  PROVE  EpochDay(a) < EpochDay(b)
<1>1. PICK year \in Int, month \in 1 .. 12, day \in 1 .. 31 :
        day <= days_in_month(year, month) /\ a = [year |-> year, month |-> month, day |-> day]
  BY DEF IsDate
<1>2. PICK year2 \in Int, month2 \in 1 .. 12, day2 \in 1 .. 31 :
        day2 <= days_in_month(year2, month2) /\ b = [year |-> year2, month |-> month2, day |-> day2]
  BY DEF IsDate
<1>3. PICK y \in Int, doy \in Int, mp \in Int :
        FallsOn(year, month, day, y, doy, mp) /\ to_epoch_day(year, month, day) = DayOf(y, doy)
  BY <1>1, DayOfDate
<1>4. PICK y2 \in Int, doy2 \in Int, mp2 \in Int :
        FallsOn(year2, month2, day2, y2, doy2, mp2) /\ to_epoch_day(year2, month2, day2) = DayOf(y2, doy2)
  BY <1>2, DayOfDate
<1>5. day \in Int /\ day2 \in Int
  BY SMTT(20)
<1>6. EpochDay(a) = StartOf(y) + doy - 719468
  <2>1. EpochDay(a) = to_epoch_day(year, month, day)
    BY SMTT(20), <1>1 DEF EpochDay
  <2>2. to_epoch_day(year, month, day) = DayOf(y, doy)
    BY <1>3
  <2> QED BY SMTT(20), <2>1, <2>2 DEF DayOf
<1>7. EpochDay(b) = StartOf(y2) + doy2 - 719468
  <2>1. EpochDay(b) = to_epoch_day(year2, month2, day2)
    BY SMTT(20), <1>2 DEF EpochDay
  <2>2. to_epoch_day(year2, month2, day2) = DayOf(y2, doy2)
    BY <1>4
  <2> QED BY SMTT(20), <2>1, <2>2 DEF DayOf
<1>8. year < year2 \/ (year = year2 /\ (month < month2 \/ (month = month2 /\ day < day2)))
  <2>1. (year * 100 + month) * 100 + day < (year2 * 100 + month2) * 100 + day2
    BY SMTT(20), <1>1, <1>2 DEF DateCode
  <2> QED BY SMTT(20), <2>1
<1>9. y < y2 \/ (y = y2 /\ (mp < mp2 \/ (mp = mp2 /\ day < day2)))
  <2>1. /\ y = MarchYear(year, month) /\ mp = MarchMonth(month)
        /\ y2 = MarchYear(year2, month2) /\ mp2 = MarchMonth(month2)
    BY SMTT(20), <1>3, <1>4 DEF FallsOn
  <2> QED BY SMTT(20), <1>8, <2>1 DEF MarchYear, MarchMonth
<1>10. StartOf(y) \in Int /\ StartOf(y2) \in Int /\ StartOf(y + 1) \in Int
  BY SMTT(20) DEF StartOf
<1>11. /\ StartOf(y) + doy < StartOf(y + 1) /\ mp = (5 * doy + 2) \div 153 /\ 0 <= doy2
       /\ mp2 = (5 * doy2 + 2) \div 153 /\ doy = MonthStart(mp) + day - 1 /\ doy2 = MonthStart(mp2) + day2 - 1
  BY SMTT(20), <1>3, <1>4 DEF FallsOn
<1>12. CASE y < y2
  BY SMTT(20), <1>6, <1>7, <1>10, <1>11, <1>12, YearsOrdered
<1>13. CASE y = y2
  <2>1. doy < doy2
    <3>1. CASE mp < mp2
      BY SMTT(20), <1>11, <3>1
    <3>2. CASE mp = mp2
      <4>1. day < day2 /\ MonthStart(mp) \in Int
        BY SMTT(20), <1>9, <1>13, <3>2 DEF MonthStart
      <4> QED BY SMTT(20), <1>5, <1>11, <3>2, <4>1
    <3> QED BY SMTT(20), <1>9, <1>13, <3>1, <3>2
  <2> QED BY SMTT(20), <1>6, <1>7, <1>10, <1>13, <2>1
<1> QED BY SMTT(20), <1>9, <1>12, <1>13

(* And to_date the order of days.                                          *)
LEMMA DaysInOrder ==
  ASSUME NEW d \in Int, NEW e \in Int, d < e
  PROVE  DateCode(to_date(d)) < DateCode(to_date(e))
<1>1. /\ IsDate(to_date(d)) /\ EpochDay(to_date(d)) = d
      /\ IsDate(to_date(e)) /\ EpochDay(to_date(e)) = e
  BY DaysAreDates
<1>2. ~(DateCode(to_date(e)) < DateCode(to_date(d)))
  <2>1. ~(EpochDay(to_date(e)) < EpochDay(to_date(d)))
    BY SMTT(20), <1>1
  <2> QED BY <1>1, <2>1, DatesInOrder
<1>3. PICK year \in Int, month \in 1 .. 12, day \in 1 .. 31 :
        to_date(d) = [year |-> year, month |-> month, day |-> day]
  BY <1>1 DEF IsDate
<1>4. PICK year2 \in Int, month2 \in 1 .. 12, day2 \in 1 .. 31 :
        to_date(e) = [year |-> year2, month |-> month2, day |-> day2]
  BY <1>1 DEF IsDate
<1>5. /\ DateCode(to_date(d)) = (year * 100 + month) * 100 + day
      /\ DateCode(to_date(e)) = (year2 * 100 + month2) * 100 + day2
  BY SMTT(20), <1>3, <1>4 DEF DateCode
<1>6. CASE (year * 100 + month) * 100 + day = (year2 * 100 + month2) * 100 + day2
  <2>1. year = year2 /\ month = month2 /\ day = day2
    BY SMTT(20), <1>6
  <2>2. to_date(d) = to_date(e)
    BY <1>3, <1>4, <2>1
  <2>3. d = e
    BY <1>1, <2>2
  <2> QED BY SMTT(20), <2>3
<1> QED BY SMTT(20), <1>2, <1>5, <1>6

-----------------------------------------------------------------------------
(* The Julian calendar, and rebasing between the two *)

\* The same of the Julian calendar: every fourth year is a leap year.
JulianStartOf(y) == 365 * y + y \div 4

JulianLength(year, month) == IF month = 2 /\ year % 4 = 0 THEN 29 ELSE days_in_month(1, month)

IsJulianDate(ymd) ==
    \E year \in Int, month \in 1 .. 12, day \in 1 .. 31 :
        day <= JulianLength(year, month) /\ ymd = [year |-> year, month |-> month, day |-> day]

JulianLiesIn(d, y, doy, mp) ==
    /\ 0 <= doy /\ doy <= 365 /\ 0 <= mp /\ mp <= 11
    /\ JulianStartOf(y) + doy = d + 719470
    /\ JulianStartOf(y) + doy < JulianStartOf(y + 1)
    /\ mp = (5 * doy + 2) \div 153

JulianFallsOn(year, month, day, y, doy, mp) ==
    /\ y = MarchYear(year, month) /\ mp = MarchMonth(month) /\ doy = MonthStart(mp) + day - 1
    /\ 0 <= doy /\ doy <= 365 /\ 0 <= mp /\ mp <= 11
    /\ JulianStartOf(y) + doy < JulianStartOf(y + 1)
    /\ mp = (5 * doy + 2) \div 153
    /\ DateOf(y, doy, mp) = [year |-> year, month |-> month, day |-> day]

(* From one first of March to the next, in the Julian calendar.            *)
LEMMA JulianYearLength ==
  ASSUME NEW y \in Int
  PROVE  /\ JulianStartOf(y) \in Int
         /\ JulianStartOf(y + 1) = JulianStartOf(y) + (IF (y + 1) % 4 = 0 THEN 366 ELSE 365)
BY SMTT(20) DEF JulianStartOf

(* Julian years do not overlap.                                            *)
LEMMA JulianYearsOrdered ==
  ASSUME NEW y \in Int, NEW z \in Int, y < z
  PROVE  JulianStartOf(y + 1) <= JulianStartOf(z)
BY SMTT(20) DEF JulianStartOf

(* days_from_julian without its eras, though C's division truncates.       *)
LEMMA JulianDayIs ==
  ASSUME NEW year \in Int, NEW month \in 1 .. 12, NEW day \in Int
  PROVE  days_from_julian([year |-> year, month |-> month, day |-> day])
           = JulianStartOf(MarchYear(year, month)) + MonthStart(MarchMonth(month)) + day - 1 - 719470
<1>1. PICK y \in Int : y = MarchYear(year, month)
  BY SMTT(20) DEF MarchYear
<1>2. PICK ms \in Int : ms = MonthStart(MarchMonth(month))
  BY SMTT(20), MonthLength
<1>3. PICK era \in Int : era = Truncated(IF y >= 0 THEN y ELSE y - 3, 4) /\ era = y \div 4
  <2>1. Truncated(IF y >= 0 THEN y ELSE y - 3, 4) = y \div 4
    <3>1. CASE y >= 0
      BY SMTT(20), <3>1 DEF Truncated
    <3>2. CASE y < 0
      <4>1. -((-(y - 3)) \div 4) = y \div 4
        BY SMTT(20)
      <4> QED BY SMTT(20), <3>2, <4>1 DEF Truncated
    <3> QED BY SMTT(20), <3>1, <3>2
  <2> QED BY SMTT(20), <2>1
<1>4. days_from_julian([year |-> year, month |-> month, day |-> day])
        = era * 1461 + (y - era * 4) * 365 + (ms + day - 1) - 719470
  BY SMTT(20), <1>1, <1>2, <1>3 DEF days_from_julian, MarchYear, MarchMonth, MonthStart
<1>5. era * 1461 + (y - era * 4) * 365 = JulianStartOf(y)
  BY SMTT(20), <1>3 DEF JulianStartOf
<1>6. JulianStartOf(y) \in Int
  BY SMTT(20) DEF JulianStartOf
<1>7. JulianStartOf(MarchYear(year, month)) = JulianStartOf(y)
  BY Zenon, <1>1
<1> QED BY SMTT(20), <1>2, <1>4, <1>5, <1>6, <1>7

(* What julian_date computes: the year it finds in an era of four is the   *)
(* one the day lies in.                                                    *)
LEMMA JulianDateIs ==
  ASSUME NEW d \in Int
  PROVE  \E y \in Int, doy \in Int, mp \in Int :
           JulianLiesIn(d, y, doy, mp) /\ julian_date(d) = DateOf(y, doy, mp)
<1>1. PICK z \in Int : z = d + 719470
  BY SMTT(20)
<1>2. PICK era \in Int : era = Truncated(IF z >= 0 THEN z ELSE z - 1460, 1461) /\ era = z \div 1461
  <2>1. Truncated(IF z >= 0 THEN z ELSE z - 1460, 1461) = z \div 1461
    <3>1. CASE z >= 0
      BY SMTT(20), <3>1 DEF Truncated
    <3>2. CASE z < 0
      <4>1. -((-(z - 1460)) \div 1461) = z \div 1461
        BY SMTT(20)
      <4> QED BY SMTT(20), <3>2, <4>1 DEF Truncated
    <3> QED BY SMTT(20), <3>1, <3>2
  <2> QED BY SMTT(20), <2>1
<1>3. PICK doe \in Int : doe = z - era * 1461
  BY SMTT(20)
<1>4. 0 <= doe /\ doe <= 1460
  BY SMTT(20), <1>2, <1>3
<1>5. PICK yoe \in Int : yoe = (doe - doe \div 1460) \div 365
  BY SMTT(20)
<1>6. PICK doy \in Int : doy = doe - 365 * yoe
  BY SMTT(20)
<1>7. 0 <= yoe /\ yoe <= 3 /\ 0 <= doy /\ doy <= 365 /\ (doy = 365 => yoe = 3)
  BY SMTT(20), <1>4, <1>5, <1>6
<1>8. PICK y \in Int : y = yoe + era * 4
  BY SMTT(20)
<1>9. JulianStartOf(y) = era * 1461 + 365 * yoe
  BY SMTT(20), <1>7, <1>8 DEF JulianStartOf
<1>10. JulianStartOf(y) + doy = d + 719470
  BY SMTT(20), <1>1, <1>3, <1>6, <1>9
<1>11. JulianStartOf(y) + doy < JulianStartOf(y + 1)
  <2>1. doy = 365 => (y + 1) % 4 = 0
    BY SMTT(20), <1>7, <1>8
  <2> QED BY SMTT(20), <1>7, <2>1, JulianYearLength
<1>12. PICK mp \in Int : mp = (5 * doy + 2) \div 153 /\ 0 <= mp /\ mp <= 11
  BY SMTT(20), <1>7
<1>13. julian_date(d) = DateOf(y, doy, mp)
  <2>1. julian_date(d) = DateOf(yoe + era * 4, doe - 365 * yoe, (5 * (doe - 365 * yoe) + 2) \div 153)
    <3>1. CASE z >= 0
      BY SMTT(20), <1>1, <1>2, <1>3, <1>5, <3>1 DEF julian_date, DateOf, MonthOf, Truncated
    <3>2. CASE z < 0
      BY SMTT(20), <1>1, <1>2, <1>3, <1>5, <3>2 DEF julian_date, DateOf, MonthOf, Truncated
    <3> QED BY SMTT(20), <3>1, <3>2
  <2> QED BY SMTT(20), <2>1, <1>6, <1>8, <1>12
<1>14. JulianLiesIn(d, y, doy, mp)
  BY SMTT(20), <1>7, <1>10, <1>11, <1>12 DEF JulianLiesIn
<1> QED BY <1>13, <1>14

(* A Julian date lies within its year, and its month is the one its day of *)
(* the year is in.                                                         *)
LEMMA JulianDateWithinYear ==
  ASSUME NEW year \in Int, NEW month \in 1 .. 12, NEW day \in 1 .. 31, day <= JulianLength(year, month)
  PROVE  \E y \in Int, doy \in Int, mp \in Int : JulianFallsOn(year, month, day, y, doy, mp)
<1>1. PICK y \in Int : y = MarchYear(year, month)
  BY SMTT(20) DEF MarchYear
<1>2. PICK mp \in Int : mp = MarchMonth(month) /\ 0 <= mp /\ mp <= 11 /\ (month = 2 <=> mp = 11) /\ (month <= 2 <=> mp >= 10)
  BY SMTT(20) DEF MarchMonth
<1>3. PICK doy \in Int : doy = MonthStart(mp) + day - 1
  BY SMTT(20), <1>2 DEF MonthStart
<1>4. 0 <= doy
  BY SMTT(20), <1>2, <1>3 DEF MonthStart
<1>5. CASE month = 2
  <2>1. mp = 11 /\ doy = 336 + day /\ year = y + 1
    BY SMTT(20), <1>1, <1>2, <1>3, <1>5 DEF MonthStart, MarchYear
  <2>2. day <= 28 \/ (day <= 29 /\ year % 4 = 0)
    BY SMTT(20), <1>5 DEF JulianLength, days_in_month, is_leap_year
  <2>3. JulianStartOf(y) + doy < JulianStartOf(y + 1) /\ doy <= 365
    BY SMTT(20), <2>1, <2>2, JulianYearLength
  <2>4. mp = (5 * doy + 2) \div 153
    BY SMTT(20), <2>1, <2>3
  <2>5. DateOf(y, doy, mp) = [year |-> year, month |-> month, day |-> day]
    BY SMTT(20), <1>5, <2>1 DEF DateOf, MonthOf
  <2>6. JulianFallsOn(year, month, day, y, doy, mp)
    BY SMTT(20), <1>1, <1>2, <1>3, <1>4, <2>3, <2>4, <2>5 DEF JulianFallsOn
  <2> QED BY <2>6
<1>6. CASE month # 2
  <2>1. day <= days_in_month(year, month)
    BY SMTT(20), <1>6 DEF JulianLength, days_in_month
  <2>2. PICK y1 \in Int, doy1 \in Int, mp1 \in Int : FallsOn(year, month, day, y1, doy1, mp1)
    BY <2>1, DateWithinYear
  <2>3. y1 = y /\ mp1 = mp /\ doy1 = doy
    BY SMTT(20), <1>1, <1>2, <1>3, <2>2 DEF FallsOn
  <2>4. FallsOn(year, month, day, y, doy, mp)
    BY <2>2, <2>3
  <2>5. doy < MonthStart(mp + 1) /\ mp <= 10
    BY SMTT(20), <1>2, <1>6, <2>4 DEF FallsOn, MonthStart
  <2>6. doy < 365
    BY SMTT(20), <2>5, <1>2 DEF MonthStart
  <2>7. JulianStartOf(y) + doy < JulianStartOf(y + 1)
    BY SMTT(20), <2>6, JulianYearLength
  <2>8. JulianFallsOn(year, month, day, y, doy, mp)
    BY SMTT(20), <2>4, <2>7 DEF FallsOn, JulianFallsOn
  <2> QED BY <2>8
<1> QED BY SMTT(20), <1>5, <1>6

\* The day that lies doy days into the Julian year of March y.
JulianDayOf(y, doy) == JulianStartOf(y) + doy - 719470

(* Where a Julian date lies in the years of March, and its day from there. *)
LEMMA DayOfJulianDate ==
  ASSUME NEW year \in Int, NEW month \in 1 .. 12, NEW day \in 1 .. 31, day <= JulianLength(year, month)
  PROVE  \E y \in Int, doy \in Int, mp \in Int :
           /\ JulianFallsOn(year, month, day, y, doy, mp)
           /\ days_from_julian([year |-> year, month |-> month, day |-> day]) = JulianDayOf(y, doy)
<1>0. PICK y \in Int, doy \in Int, mp \in Int : JulianFallsOn(year, month, day, y, doy, mp)
  BY JulianDateWithinYear
<1>1. days_from_julian([year |-> year, month |-> month, day |-> day])
        = JulianStartOf(MarchYear(year, month)) + MonthStart(MarchMonth(month)) + day - 1 - 719470
  <2>1. day \in Int
    BY SMTT(20)
  <2> QED BY <2>1, JulianDayIs
<1>2. y = MarchYear(year, month) /\ mp = MarchMonth(month) /\ doy = MonthStart(mp) + day - 1
  BY SMTT(20), <1>0 DEF JulianFallsOn
<1>3. JulianStartOf(MarchYear(year, month)) = JulianStartOf(y) /\ MonthStart(MarchMonth(month)) = MonthStart(mp)
  BY Zenon, <1>2
<1>4. JulianStartOf(y) \in Int /\ MonthStart(mp) \in Int
  BY SMTT(20) DEF JulianStartOf, MonthStart
<1>5. days_from_julian([year |-> year, month |-> month, day |-> day]) = JulianDayOf(y, doy)
  BY SMTT(20), <1>1, <1>2, <1>3, <1>4 DEF JulianDayOf
<1> QED BY <1>0, <1>5

(* A year_month_day holds a date of a year that fits as it is.             *)
LEMMA FittingYears ==
  ASSUME NEW ymd, YearFits(ymd), NEW year \in Int, NEW month, NEW day,
         ymd = [year |-> year, month |-> month, day |-> day]
  PROVE  [ymd EXCEPT !.year = year16(@)] = ymd
<1>1. ymd.year = year
  OBVIOUS
<1>2. year16(year) = year
  <2>1. -32768 <= year /\ year <= 32767
    BY SMTT(20), <1>1 DEF YearFits
  <2>2. (year + 32768) % 65536 = year + 32768
    BY SMTT(20), <2>1
  <2> QED BY SMTT(20), <2>2 DEF year16
<1>3. [ymd EXCEPT !.year = year16(@)] = [year |-> year16(year), month |-> month, day |-> day]
  OBVIOUS
<1> QED BY <1>2, <1>3

(* So it is with the date of a day.                                        *)
LEMMA YearMonthDayIs ==
  ASSUME NEW d \in Int, YearFits(to_date(d))
  PROVE  year_month_day(d) = to_date(d)
<1>1. PICK year \in Int, month \in 1 .. 12, day \in 1 .. 31 :
        to_date(d) = [year |-> year, month |-> month, day |-> day]
  BY DaysAreDates DEF IsDate
<1> QED BY <1>1, FittingYears DEF year_month_day

(* Every Julian date has its own day: the code's way back gives the date   *)
(* days_from_julian was given, in an int; julian_from_days gives it back   *)
(* if a year_month_day holds it.                                           *)
THEOREM JulianDatesAreDays ==
  ASSUME NEW ymd, IsJulianDate(ymd)
  PROVE  /\ days_from_julian(ymd) \in Int /\ julian_date(days_from_julian(ymd)) = ymd
         /\ YearFits(ymd) => julian_from_days(days_from_julian(ymd)) = ymd
<1>1. PICK year \in Int, month \in 1 .. 12, day \in 1 .. 31 :
        day <= JulianLength(year, month) /\ ymd = [year |-> year, month |-> month, day |-> day]
  BY DEF IsJulianDate
<1>2. PICK y \in Int, doy \in Int, mp \in Int :
        /\ JulianFallsOn(year, month, day, y, doy, mp)
        /\ days_from_julian([year |-> year, month |-> month, day |-> day]) = JulianDayOf(y, doy)
  BY <1>1, DayOfJulianDate
<1>3. JulianStartOf(y) \in Int /\ day \in Int
  BY SMTT(20) DEF JulianStartOf
<1>4. days_from_julian(ymd) = JulianStartOf(y) + doy - 719470
  <2>1. days_from_julian(ymd) = JulianDayOf(y, doy)
    BY <1>1, <1>2
  <2> QED BY SMTT(20), <2>1 DEF JulianDayOf
<1>5. PICK d \in Int : d = days_from_julian(ymd)
  BY SMTT(20), <1>3, <1>4
<1>6. PICK z \in Int, doz \in Int, mz \in Int : JulianLiesIn(d, z, doz, mz) /\ julian_date(d) = DateOf(z, doz, mz)
  BY JulianDateIs
<1>7. /\ 0 <= doz /\ JulianStartOf(z) + doz = d + 719470 /\ JulianStartOf(z) + doz < JulianStartOf(z + 1)
      /\ mz = (5 * doz + 2) \div 153
  BY SMTT(20), <1>6 DEF JulianLiesIn
<1>8. /\ 0 <= doy /\ JulianStartOf(y) + doy < JulianStartOf(y + 1) /\ mp = (5 * doy + 2) \div 153
      /\ DateOf(y, doy, mp) = ymd
  BY SMTT(20), <1>1, <1>2 DEF JulianFallsOn
<1>9. y = z
  <2>1. JulianStartOf(z) \in Int /\ JulianStartOf(z + 1) \in Int /\ JulianStartOf(y + 1) \in Int
    BY SMTT(20) DEF JulianStartOf
  <2>2. ~(y < z)
    BY SMTT(20), <1>3, <1>4, <1>5, <1>7, <1>8, <2>1, JulianYearsOrdered
  <2>3. ~(z < y)
    BY SMTT(20), <1>3, <1>4, <1>5, <1>7, <1>8, <2>1, JulianYearsOrdered
  <2> QED BY SMTT(20), <2>2, <2>3
<1>10. doy = doz
  BY SMTT(20), <1>3, <1>4, <1>5, <1>7, <1>9
<1>11. mp = mz
  BY SMTT(20), <1>7, <1>8, <1>10
<1>12. julian_date(days_from_julian(ymd)) = ymd
  BY <1>5, <1>6, <1>8, <1>9, <1>10, <1>11
<1>13. YearFits(ymd) => julian_from_days(days_from_julian(ymd)) = ymd
  BY <1>1, <1>12, FittingYears DEF julian_from_days
<1> QED BY <1>5, <1>12, <1>13

(* A Gregorian date is also one of the Julian calendar, which has more     *)
(* leap years.                                                             *)
LEMMA DatesAreJulian ==
  ASSUME NEW ymd, IsDate(ymd)
  PROVE  IsJulianDate(ymd)
<1>1. PICK year \in Int, month \in 1 .. 12, day \in 1 .. 31 :
        day <= days_in_month(year, month) /\ ymd = [year |-> year, month |-> month, day |-> day]
  BY DEF IsDate
<1>2. day <= JulianLength(year, month)
  BY SMTT(20), <1>1 DEF JulianLength, days_in_month, is_leap_year
<1> QED BY <1>1, <1>2 DEF IsJulianDate

(* The Julian day of a date up to 1582-10-04 lies before the first day of  *)
(* the Gregorian calendar.                                                 *)
LEMMA JulianDatesAreEarly ==
  ASSUME NEW ymd, IsJulianDate(ymd), DateCode(ymd) <= DateCode(julian_end)
  PROVE  days_from_julian(ymd) \in Int /\ days_from_julian(ymd) < GregorianStartDay
<1>1. PICK year \in Int, month \in 1 .. 12, day \in 1 .. 31 :
        day <= JulianLength(year, month) /\ ymd = [year |-> year, month |-> month, day |-> day]
  BY DEF IsJulianDate
<1>2. PICK y \in Int, doy \in Int, mp \in Int :
        /\ JulianFallsOn(year, month, day, y, doy, mp)
        /\ days_from_julian([year |-> year, month |-> month, day |-> day]) = JulianDayOf(y, doy)
  BY <1>1, DayOfJulianDate
<1>3. (year * 100 + month) * 100 + day <= 15821004
  BY SMTT(20), <1>1 DEF DateCode, julian_end
<1>4. year < 1582 \/ (year = 1582 /\ (month < 10 \/ (month = 10 /\ day <= 4)))
  BY SMTT(20), <1>3
<1>5. /\ y = MarchYear(year, month) /\ mp = MarchMonth(month) /\ doy = MonthStart(mp) + day - 1
      /\ doy <= 365 /\ mp = (5 * doy + 2) \div 153
  BY SMTT(20), <1>2 DEF JulianFallsOn
<1>6. y < 1582 \/ (y = 1582 /\ (mp < 7 \/ (mp = 7 /\ day <= 4)))
  BY SMTT(20), <1>4, <1>5 DEF MarchYear, MarchMonth
<1>7. CASE y < 1582
  BY SMTT(20), <1>1, <1>2, <1>5, <1>7 DEF JulianDayOf, JulianStartOf, GregorianStartDay
<1>8. CASE y = 1582
  <2>1. doy <= 217
    BY SMTT(20), <1>5, <1>6, <1>8 DEF MonthStart
  <2> QED BY SMTT(20), <1>1, <1>2, <1>8, <2>1 DEF JulianDayOf, JulianStartOf, GregorianStartDay
<1> QED BY SMTT(20), <1>6, <1>7, <1>8

(* The first day of the Gregorian calendar is 1582-10-15.                  *)
LEMMA GregorianStart == EpochDay(gregorian_start) = GregorianStartDay /\ IsDate(gregorian_start)
<1>1. EpochDay(gregorian_start) = to_epoch_day(1582, 10, 15)
  BY SMTT(20) DEF EpochDay, gregorian_start
<1>2. to_epoch_day(1582, 10, 15) = GregorianStartDay
  BY SMTT(20) DEF to_epoch_day, GregorianStartDay
<1>3. PICK year \in Int, month \in 1 .. 12, day \in 1 .. 31 : year = 1582 /\ month = 10 /\ day = 15
  BY SMTT(20)
<1>4. day <= days_in_month(year, month) /\ gregorian_start = [year |-> year, month |-> month, day |-> day]
  BY SMTT(20), <1>3 DEF days_in_month, gregorian_start
<1>5. IsDate(gregorian_start)
  BY <1>4 DEF IsDate
<1> QED BY <1>1, <1>2, <1>5

(* Rebasing to the Julian calendar and back loses nothing: every day whose *)
(* date is of one of the calendars, in a year of 16 bits, comes back as it *)
(* was (rebase_gregorian_to_julian, then rebase_julian_to_gregorian).      *)
THEOREM RebaseIsUndone ==
  ASSUME NEW days \in Int, YearFits(to_date(days)), ~between_calendars(to_date(days))
  PROVE  julian_to_gregorian_days(gregorian_to_julian_days(days)) = days
<1> DEFINE ymd == to_date(days)
<1>1. IsDate(ymd) /\ EpochDay(ymd) = days /\ year_month_day(days) = ymd
  BY DaysAreDates, YearMonthDayIs
<1>2. DateCode(ymd) \in Int
  BY SMTT(20), <1>1 DEF IsDate, DateCode
<1>3. DateCode(julian_end) = 15821004 /\ DateCode(gregorian_start) = 15821015
  BY SMTT(20) DEF DateCode, julian_end, gregorian_start
<1>4. CASE DateCode(ymd) >= DateCode(gregorian_start)
  <2>1. gregorian_to_julian_days(days) = days
    BY SMTT(20), <1>1, <1>2, <1>3, <1>4 DEF gregorian_to_julian_days, between_calendars
  <2>2. days >= GregorianStartDay
    <3>1. ASSUME days < GregorianStartDay
          PROVE  FALSE
      <4>1. GregorianStartDay \in Int
        BY SMTT(20) DEF GregorianStartDay
      <4>2. to_date(GregorianStartDay) = gregorian_start
        BY GregorianStart, DatesAreDays
      <4>3. DateCode(ymd) < DateCode(gregorian_start)
        BY <3>1, <4>1, <4>2, DaysInOrder
      <4> QED BY SMTT(20), <1>2, <1>3, <1>4, <4>3
    <3> QED BY SMTT(20), <3>1 DEF GregorianStartDay
  <2> QED BY SMTT(20), <2>1, <2>2 DEF julian_to_gregorian_days
<1>5. CASE DateCode(ymd) < DateCode(gregorian_start)
  <2>1. DateCode(ymd) <= DateCode(julian_end)
    BY SMTT(20), <1>2, <1>3, <1>5 DEF between_calendars
  <2>2. gregorian_to_julian_days(days) = days_from_julian(ymd)
    BY SMTT(20), <1>1, <1>2, <1>3, <1>5 DEF gregorian_to_julian_days
  <2>3. IsJulianDate(ymd)
    BY <1>1, DatesAreJulian
  <2>4. days_from_julian(ymd) \in Int /\ days_from_julian(ymd) < GregorianStartDay
    BY <2>1, <2>3, JulianDatesAreEarly
  <2>5. julian_from_days(days_from_julian(ymd)) = ymd
    BY <2>3, JulianDatesAreDays
  <2>6. to_epoch_day(ymd.year, ymd.month, ymd.day) = days
    BY <1>1 DEF EpochDay
  <2> HIDE DEF ymd
  <2>7. ~(days_from_julian(ymd) >= GregorianStartDay)
    BY SMTT(20), <2>4 DEF GregorianStartDay
  <2>8. julian_to_gregorian_days(days_from_julian(ymd)) = to_epoch_day(ymd.year, ymd.month, ymd.day)
    BY SMTT(20), <2>5, <2>7 DEF julian_to_gregorian_days
  <2> QED BY <2>2, <2>6, <2>8
<1> QED BY SMTT(20), <1>2, <1>3, <1>4, <1>5

-----------------------------------------------------------------------------
(* Truncation of dates *)

\* Days after the first of month m, up to day d of the same year.
After(d, year, m, x) ==
    \E month \in 1 .. 12, day \in 1 .. 31 :
        /\ to_date(x) = [year |-> year, month |-> month, day |-> day]
        /\ m <= month /\ month <= to_date(d).month /\ (month = m => day > 1)

(* The first of a month is a date.                                         *)
LEMMA FirstOfMonth ==
  ASSUME NEW year \in Int, NEW m \in 1 .. 12
  PROVE  IsDate([year |-> year, month |-> m, day |-> 1])
<1>1. PICK day \in 1 .. 31 : day = 1
  BY SMTT(20)
<1>2. day <= days_in_month(year, m)
  BY SMTT(20), <1>1 DEF days_in_month
<1>3. IsDate([year |-> year, month |-> m, day |-> day])
  BY <1>2 DEF IsDate
<1> QED BY <1>1, <1>3

(* The first of month m in the year of day d, and the days between them.   *)
LEMMA SinceFirst ==
  ASSUME NEW d \in Int, NEW m \in 1 .. 12, m <= to_date(d).month,
         NEW t, t = to_epoch_day(to_date(d).year, m, 1)
  PROVE  /\ t \in Int /\ t <= d
         /\ to_date(t) = [year |-> to_date(d).year, month |-> m, day |-> 1]
         /\ \A x \in Int : t < x /\ x <= d => After(d, to_date(d).year, m, x)
<1>1. IsDate(to_date(d)) /\ EpochDay(to_date(d)) = d
  BY DaysAreDates
<1>2. PICK year \in Int, month \in 1 .. 12, day \in 1 .. 31 :
        to_date(d) = [year |-> year, month |-> month, day |-> day]
  BY <1>1 DEF IsDate
<1>3. PICK b : b = [year |-> year, month |-> m, day |-> 1]
  OBVIOUS
<1>4. IsDate(b)
  BY <1>3, FirstOfMonth
<1>5. EpochDay(b) = t /\ to_date(d).year = year /\ to_date(d).month = month
  BY SMTT(20), <1>2, <1>3 DEF EpochDay
<1>6. t \in Int /\ to_date(t) = b
  BY <1>4, <1>5, DatesAreDays
<1>7. DateCode(b) = (year * 100 + m) * 100 + 1 /\ DateCode(to_date(d)) = (year * 100 + month) * 100 + day
  BY SMTT(20), <1>2, <1>3 DEF DateCode
<1>8. ~(d < t)
  <2>1. ASSUME d < t PROVE FALSE
    <3>1. DateCode(to_date(d)) < DateCode(to_date(t))
      BY <1>6, <2>1, DaysInOrder
    <3>2. (year * 100 + month) * 100 + day < (year * 100 + m) * 100 + 1
      BY SMTT(20), <1>6, <1>7, <3>1
    <3> QED BY SMTT(20), <1>5, <3>2
  <2> QED BY <2>1
<1>9. ASSUME NEW x \in Int, t < x, x <= d
      PROVE  After(d, year, m, x)
  <2>1. IsDate(to_date(x))
    BY DaysAreDates
  <2>2. PICK year2 \in Int, month2 \in 1 .. 12, day2 \in 1 .. 31 :
          to_date(x) = [year |-> year2, month |-> month2, day |-> day2]
    BY <2>1 DEF IsDate
  <2>3. DateCode(to_date(x)) = (year2 * 100 + month2) * 100 + day2
    BY SMTT(20), <2>2 DEF DateCode
  <2>4. DateCode(to_date(t)) < DateCode(to_date(x))
    BY <1>6, <1>9, DaysInOrder
  <2>5. (year * 100 + m) * 100 + 1 < (year2 * 100 + month2) * 100 + day2
    BY SMTT(20), <1>6, <1>7, <2>3, <2>4
  <2>6. (year2 * 100 + month2) * 100 + day2 <= (year * 100 + month) * 100 + day
    <3>1. CASE x = d
      BY SMTT(20), <1>7, <2>3, <3>1
    <3>2. CASE x < d
      <4>1. DateCode(to_date(x)) < DateCode(to_date(d))
        BY <3>2, DaysInOrder
      <4> QED BY SMTT(20), <1>7, <2>3, <4>1
    <3> QED BY SMTT(20), <1>9, <3>1, <3>2
  <2>7. year2 = year /\ m <= month2 /\ month2 <= month /\ (month2 = m => day2 > 1)
    BY SMTT(20), <2>5, <2>6
  <2> QED BY <1>5, <2>2, <2>7 DEF After
<1> QED BY SMTT(20), <1>3, <1>5, <1>6, <1>8, <1>9

(* What BeginsWith says of years and months.                               *)
LEMMA YearsAndMonths ==
  ASSUME NEW fmt, NEW x
  PROVE  /\ fmt \in {"YEAR", "YYYY", "YY"} => (BeginsWith(fmt, x) <=> to_date(x).month = 1 /\ to_date(x).day = 1)
         /\ fmt \in {"MONTH", "MM", "MON"} => (BeginsWith(fmt, x) <=> to_date(x).day = 1)
<1>1. ASSUME fmt \in {"YEAR", "YYYY", "YY"}
      PROVE  BeginsWith(fmt, x) <=> to_date(x).month = 1 /\ to_date(x).day = 1
  <2>1. CASE fmt = "YEAR"
    BY SMTT(20), <2>1 DEF BeginsWith
  <2>2. CASE fmt = "YYYY"
    BY SMTT(20), <2>2 DEF BeginsWith
  <2>3. CASE fmt = "YY"
    BY SMTT(20), <2>3 DEF BeginsWith
  <2> QED BY <1>1, <2>1, <2>2, <2>3
<1>2. ASSUME fmt \in {"MONTH", "MM", "MON"}
      PROVE  BeginsWith(fmt, x) <=> to_date(x).day = 1
  <2>1. CASE fmt = "MONTH"
    BY SMTT(20), <2>1 DEF BeginsWith
  <2>2. CASE fmt = "MM"
    BY SMTT(20), <2>2 DEF BeginsWith
  <2>3. CASE fmt = "MON"
    BY SMTT(20), <2>3 DEF BeginsWith
  <2> QED BY <1>2, <2>1, <2>2, <2>3
<1> QED BY <1>1, <1>2

(* Truncating a date of a year of 16 bits gives the first day of the unit  *)
(* it lies in, with no first day between them; to the week any date        *)
(* (truncate, of dates).                                                   *)
THEOREM DatesAreTruncated ==
  ASSUME NEW d \in Int, NEW null, d # null,
         NEW fmt \in {"YEAR", "YYYY", "YY", "QUARTER", "MONTH", "MM", "MON", "WEEK"},
         fmt = "WEEK" \/ YearFits(to_date(d))
  PROVE  IsTruncation(fmt, d, truncate_date_fn(d, fmt, null), TRUE)
<1>1. truncate_date_fn(d, fmt, null) = trunc_date(d, year_month_day(d), fmt, null)
  BY DEF truncate_date_fn
<1>0. fmt # "WEEK" => year_month_day(d) = to_date(d)
  BY YearMonthDayIs
<1>2. SUFFICES ASSUME NEW t, t = trunc_date(d, year_month_day(d), fmt, null)
      PROVE  t \in Int /\ t <= d /\ BeginsWith(fmt, t) /\ \A x \in t + 1 .. d : ~BeginsWith(fmt, x)
  BY SMTT(20), <1>1 DEF IsTruncation
<1>3. IsDate(to_date(d))
  BY DaysAreDates
<1>4. to_date(d).month \in 1 .. 12
  BY SMTT(20), <1>3 DEF IsDate
<1>5. CASE fmt = "WEEK"
  <2>0. t = trunc_to_monday(d)
    BY SMTT(20), <1>2, <1>5 DEF trunc_date
  <2>1. t = d - ((d + 3) % 7)
    BY SMTT(20), <2>0 DEF trunc_to_monday, weekday_from_days
  <2>2. t \in Int /\ t <= d /\ t % 7 = 4
    BY SMTT(20), <2>1
  <2>3. ASSUME NEW x \in t + 1 .. d PROVE x % 7 # 4
    <3>1. x \in Int /\ t < x /\ x <= d
      BY SMTT(20), <2>2
    <3>2. x - t <= 6
      BY SMTT(20), <2>1, <2>2, <3>1
    <3> QED BY SMTT(20), <2>2, <3>1, <3>2
  <2> QED BY SMTT(20), <1>5, <2>2, <2>3 DEF BeginsWith
<1>6. CASE fmt \in {"YEAR", "YYYY", "YY"}
  <2>1. PICK m \in 1 .. 12 : m = 1 /\ m <= to_date(d).month
    BY SMTT(20), <1>4
  <2>2. t = to_epoch_day(to_date(d).year, m, 1)
    BY SMTT(20), <1>0, <1>2, <1>6, <2>1 DEF trunc_date
  <2>3. /\ t \in Int /\ t <= d
        /\ to_date(t) = [year |-> to_date(d).year, month |-> m, day |-> 1]
        /\ \A x \in Int : t < x /\ x <= d => After(d, to_date(d).year, m, x)
    BY <2>1, <2>2, SinceFirst
  <2>4. BeginsWith(fmt, t)
    BY SMTT(20), <1>6, <2>1, <2>3, YearsAndMonths
  <2>5. ASSUME NEW x \in t + 1 .. d PROVE ~BeginsWith(fmt, x)
    <3>1. x \in Int /\ t < x /\ x <= d
      BY SMTT(20), <2>3
    <3>2. PICK month \in 1 .. 12, day \in 1 .. 31 :
            /\ to_date(x) = [year |-> to_date(d).year, month |-> month, day |-> day]
            /\ m <= month /\ month <= to_date(d).month /\ (month = m => day > 1)
      BY <2>3, <3>1 DEF After
    <3>3. to_date(x).month = month /\ to_date(x).day = day
      BY <3>2
    <3> QED BY SMTT(20), <1>4, <1>6, <2>1, <3>2, <3>3, YearsAndMonths
  <2> QED BY <2>3, <2>4, <2>5
<1>7. CASE fmt = "QUARTER"
  <2>1. PICK m \in 1 .. 12 : /\ m = trunc_quarter_month(to_date(d).month) /\ m <= to_date(d).month
                             /\ m \in {1, 4, 7, 10} /\ to_date(d).month <= m + 2
    BY SMTT(20), <1>4 DEF trunc_quarter_month
  <2>2. t = to_epoch_day(to_date(d).year, m, 1)
    BY SMTT(20), <1>0, <1>2, <1>7, <2>1 DEF trunc_date
  <2>3. /\ t \in Int /\ t <= d
        /\ to_date(t) = [year |-> to_date(d).year, month |-> m, day |-> 1]
        /\ \A x \in Int : t < x /\ x <= d => After(d, to_date(d).year, m, x)
    BY <2>1, <2>2, SinceFirst
  <2>4. BeginsWith(fmt, t)
    BY SMTT(20), <1>7, <2>1, <2>3 DEF BeginsWith
  <2>5. ASSUME NEW x \in t + 1 .. d PROVE ~BeginsWith(fmt, x)
    <3>1. x \in Int /\ t < x /\ x <= d
      BY SMTT(20), <2>3
    <3>2. PICK month \in 1 .. 12, day \in 1 .. 31 :
            /\ to_date(x) = [year |-> to_date(d).year, month |-> month, day |-> day]
            /\ m <= month /\ month <= to_date(d).month /\ (month = m => day > 1)
      BY <2>3, <3>1 DEF After
    <3>3. to_date(x).month = month /\ to_date(x).day = day
      BY <3>2
    <3> QED BY SMTT(20), <1>4, <1>7, <2>1, <3>2, <3>3 DEF BeginsWith
  <2> QED BY <2>3, <2>4, <2>5
<1>8. CASE fmt \in {"MONTH", "MM", "MON"}
  <2>1. PICK m \in 1 .. 12 : m = to_date(d).month /\ m <= to_date(d).month
    BY SMTT(20), <1>4
  <2>2. t = to_epoch_day(to_date(d).year, m, 1)
    BY SMTT(20), <1>0, <1>2, <1>8, <2>1 DEF trunc_date
  <2>3. /\ t \in Int /\ t <= d
        /\ to_date(t) = [year |-> to_date(d).year, month |-> m, day |-> 1]
        /\ \A x \in Int : t < x /\ x <= d => After(d, to_date(d).year, m, x)
    BY <2>1, <2>2, SinceFirst
  <2>4. BeginsWith(fmt, t)
    BY SMTT(20), <1>8, <2>1, <2>3, YearsAndMonths
  <2>5. ASSUME NEW x \in t + 1 .. d PROVE ~BeginsWith(fmt, x)
    <3>1. x \in Int /\ t < x /\ x <= d
      BY SMTT(20), <2>3
    <3>2. PICK month \in 1 .. 12, day \in 1 .. 31 :
            /\ to_date(x) = [year |-> to_date(d).year, month |-> month, day |-> day]
            /\ m <= month /\ month <= to_date(d).month /\ (month = m => day > 1)
      BY <2>3, <3>1 DEF After
    <3>3. to_date(x).month = month /\ to_date(x).day = day
      BY <3>2
    <3> QED BY SMTT(20), <1>4, <1>8, <2>1, <3>2, <3>3, YearsAndMonths
  <2> QED BY <2>3, <2>4, <2>5
<1> QED BY <1>5, <1>6, <1>7, <1>8
=============================================================================
