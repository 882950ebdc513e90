----------------------------- MODULE MCServices -----------------------------
(* The Kudo shuffle, the fault injector and the time zone database, which    *)
(* share nothing: a behaviour is one of the three.                           *)
EXTENDS KudoShuffle, FaultInjection, TimeZoneDB

CONSTANTS Rows, Starts, Lengths, UseOffsets

VARIABLE part

-----------------------------------------------------------------------------
(* Schemas, tables and slices that meet the byte, word and batch boundaries  *)
(* of the copies.                                                            *)

Fixed(list) == [kind |-> "fixed", size |-> 1, list |-> list, kids |-> << >>]
Str(list) == [kind |-> "string", size |-> 0, list |-> list, kids |-> << >>]
List(list, kid) == [kind |-> "list", size |-> 0, list |-> list, kids |-> <<kid>>]
Struct(list, kids) == [kind |-> "struct", size |-> 0, list |-> list, kids |-> kids]

Bits(n, p(_)) == {b \in 0 .. roundUpSafe(n, ByteBits) - 1 : p(b)}
Col(rows, nullable, valid, offs, data) ==
    [rows |-> rows, nullable |-> nullable, valid |-> valid, offs |-> offs, data |-> data]

\* A column of n cells; every third cell is null, bits behind the end are set.
Cells(n, nullable) ==
    LET p(b) == b % 3 # 1 \/ b >= n
    IN  Col(n, nullable, IF nullable THEN Bits(n, p) ELSE {}, << >>,
            [k \in 1 .. n |-> k % ByteSize])

\* Strings of 0, 1, 2, 0, 1, 2 ... characters.
Chars(n) == [k \in 1 .. n + 1 |-> ((k - 1) \div 3) * 3 + (<<0, 0, 1>>)[((k - 1) % 3) + 1]]
Strings(n, nullable) ==
    LET p(b) == b % 4 # 2
    IN  Col(n, nullable, IF nullable THEN Bits(n, p) ELSE {}, Chars(n),
            [k \in 1 .. Chars(n)[n + 1] |-> (k + 1) % ByteSize])
Lists(n) == LET p(b) == b % 5 # 0 IN Col(n, TRUE, Bits(n, p), Chars(n), << >>)
EmptyStrings == Col(0, FALSE, {}, << >>, << >>)

Slices == {s \in Starts \X Lengths : s[1] + s[2] <= Rows}
Inner == Chars(Rows)[Rows + 1]

\* One nullable column, and the same column without nulls: pairs of slices,
\* and longer sequences of slices that meet the word boundaries.
FlatTables == {<<Cells(Rows, TRUE)>>, <<Cells(Rows, FALSE)>>}
Pairs == [schema |-> <<Fixed(0)>>, tables |-> FlatTables, slices |-> Slices,
          splits |-> {<<x>> : x \in Starts},
          offsets |-> UseOffsets, maxTables |-> 2, mayBreak |-> FALSE]
Triples == [schema |-> <<Fixed(0)>>, tables |-> FlatTables,
            slices |-> {<<1, 3>>, <<5, 8>>, <<0, 12>>},
            splits |-> {<<1, 5>>, <<12, 12>>, <<5, 23>>},
            offsets |-> {0}, maxTables |-> 3, mayBreak |-> FALSE]

\* A list of structs of a string and a number, and a string column.
Nested ==
    [schema |-> <<List(0, 2), Struct(1, <<3, 4>>), Str(1), Fixed(1), Str(0)>>,
     tables |-> {<<Lists(Rows), Cells(Inner, TRUE), Strings(Inner, TRUE), Cells(Inner, FALSE),
                   Strings(Rows, FALSE)>>},
     slices |-> {<<0, 3>>, <<1, 12>>, <<5, 21>>},
     splits |-> {<<5>>, <<12>>},
     offsets |-> {0}, maxTables |-> 2, mayBreak |-> FALSE]

\* A list without elements: its string child has no offsets at all.
Hollow ==
    [schema |-> <<List(0, 2), Str(1)>>,
     tables |-> {<<Col(4, FALSE, {}, <<0, 0, 0, 0, 0>>, << >>), EmptyStrings>>},
     slices |-> {<<0, 2>>, <<1, 3>>}, splits |-> {<<1>>, <<4>>},
     offsets |-> {0}, maxTables |-> 2, mayBreak |-> TRUE]

\* A table without columns, and one without rows in some partitions.
Counts == [schema |-> << >>, tables |-> {}, slices |-> {}, splits |-> {}, offsets |-> {},
           maxTables |-> 2, mayBreak |-> TRUE]

MCInputs == {Pairs, Triples, Nested, Hollow, Counts}
MCFills == {0, ByteSize - 1}

-----------------------------------------------------------------------------
(* Configuration files: a fault of one API and one of all, counted; one      *)
(* without a count; one that does not parse.                                 *)

MCApiIds == [cuInit |-> "1", cuLaunch |-> "2", trap |-> "2"]
Fault(count, percent) == [type |-> "trap", percent |-> percent, count |-> count]
MCConfigFiles == {
    [ok |-> TRUE, dynamic |-> TRUE, faults |-> ("1" :> Fault(1, 100)) @@ ("*" :> Fault(2, 50))],
    [ok |-> TRUE, dynamic |-> FALSE, faults |-> ("cuLaunch" :> Fault(Unlimited, 50)) @@ ("cuInit" :> Fault(1, 0))],
    [ok |-> FALSE, dynamic |-> TRUE, faults |-> NoFaults]}

-----------------------------------------------------------------------------
MCInit ==
    /\ part \in {"shuffle", "injector", "zones"}
    /\ Init /\ FaultInit /\ ZonesInit
    /\ part # "shuffle" => input = CHOOSE i \in Inputs : TRUE
    /\ part # "injector" => configFile = CHOOSE f \in ConfigFiles : TRUE

MCNext ==
    \/ part = "shuffle" /\ Next /\ UNCHANGED <<part, faultVars, zoneVars>>
    \/ part = "injector" /\ FaultNext /\ UNCHANGED <<part, vars, zoneVars>>
    \/ part = "zones" /\ ZonesNext /\ UNCHANGED <<part, vars, faultVars>>

MCSpec == MCInit /\ [][MCNext]_<<part, vars, faultVars, zoneVars>> /\ FaultFairness /\ ZonesFairness
=============================================================================
