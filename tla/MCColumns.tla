----------------------------- MODULE MCColumns -----------------------------
(* The column functions, which share nothing: a behaviour is about one of    *)
(* rows, JSON or calls without state.                                        *)
EXTENDS RowExchange, JsonColumn, ColumnFunctions

VARIABLE part

-----------------------------------------------------------------------------
(* Tables for RowExchange: cell sizes 1, 2, 4 and strings, one or several    *)
(* tiles wide and several batches high.                                      *)

Cell(n) == [string |-> FALSE, size |-> n]
StringCell == [string |-> TRUE, size |-> 0]

\* Every third row of a column null, strings of r % 3 characters.
Table(types, rows) ==
    [types |-> types, rows |-> rows,
     lens |-> [c \in DOMAIN types |-> [r \in 0 .. rows - 1 |-> IF types[c].string THEN (c + r) % 3 ELSE 0]],
     nulls |-> [c \in DOMAIN types |-> IF c % 4 = 0 THEN {} ELSE {r \in 0 .. rows - 1 : (c + r) % 3 = 0}]]

\* Thirteen columns, the third tile of which begins in the middle of a word.
WideTable == Table([c \in 1 .. 13 |-> Cell(2)], 3)

\* A table whose last column opens a tile.
LastColumnAlone == Table(<<Cell(4), Cell(4), Cell(4)>>, 4)

\* Rows of 8 bytes, 16 of which are a byte more than a batch may have.
EvenRows == Table(<<Cell(4), Cell(1)>>, 17)

\* Tables of several batches, of one, two and three tiles, with strings, and the three the tiles or the
\* batches fail.
RowTables ==
    {Table(<<Cell(4), Cell(1)>>, 10), Table(<<Cell(2), Cell(1), Cell(1), Cell(1)>>, 14), Table(<<Cell(4), Cell(4)>>, 13),
     Table(<<Cell(4), Cell(4), Cell(2), Cell(2)>>, 6), Table(<<Cell(4), Cell(4), Cell(4), Cell(2), Cell(1)>>, 3),
     Table(<<Cell(4), Cell(4), Cell(4), Cell(2), Cell(1)>>, 10),
     Table(<<Cell(1), Cell(1), Cell(1), Cell(1), Cell(1), Cell(1), Cell(1), Cell(1), Cell(4), Cell(4)>>, 2),
     Table(<<Cell(2), StringCell>>, 5), Table(<<StringCell, Cell(1), Cell(4), Cell(2), Cell(1)>>, 3), Table(<<StringCell>>, 4),
     Table(<<Cell(4), Cell(4), Cell(4), Cell(4), Cell(4), Cell(2), Cell(2)>>, 2), Table(<<Cell(4), Cell(2), Cell(2), Cell(4), Cell(4), Cell(1)>>, 3),
     Table(<<Cell(2), Cell(2), Cell(4), Cell(1), Cell(1), Cell(2), Cell(4), Cell(2), Cell(2)>>, 2),
     WideTable, LastColumnAlone, EvenRows}

-----------------------------------------------------------------------------
(* Queries for JsonColumn: documents built from a few values, and paths of    *)
(* every instruction.                                                         *)

String(text) == [kind |-> "string", text |-> text, names |-> << >>, items |-> << >>]
Number(text) == [String(text) EXCEPT !.kind = "number"]
Word(text) == [String(text) EXCEPT !.kind = "null"]
Array(items) == [kind |-> "array", text |-> << >>, names |-> << >>, items |-> items]
Object(names, items) == [kind |-> "object", text |-> << >>, names |-> names, items |-> items]

A == <<97>>
B == <<98>>
Named(name) == [type |-> "NAMED", name |-> name, index |-> -1]
Index(i) == [type |-> "INDEX", name |-> << >>, index |-> i]
Wildcard == [type |-> "WILDCARD", name |-> << >>, index |-> -1]

NullWord == Word(<<110, 117, 108, 108>>)
One == Number(<<49>>)
Float == [String(<<49, 101, 48>>) EXCEPT !.kind = "float"]
Bell == String(<<7>>)
Quoted == String(<<QUOTE, 10, 97>>)

\* 1e0 is written 1.0, other floats as they are.
MCDouble(text) == IF text = <<49, 101, 48>> THEN <<49, DOT, 48>> ELSE text

Pairs == Array(<<Object(<<A>>, <<One>>), Object(<<B, A>>, <<Float, Quoted>>)>>)
Nested == Array(<<Array(<<One, Bell>>), Array(<<Float>>)>>)
Fields == Object(<<B, A>>, <<Nested, Object(<<A, B>>, <<Quoted, NullWord>>)>>)
Bells == Array(<<Bell, Bell, Bell>>)

ManyPaths == {<< >>, <<Named(A)>>, <<Named(A), Named(A)>>, <<Named(A), Named(B)>>, <<Named(B), Wildcard>>,
              <<Named(B), Index(0)>>, <<Wildcard>>, <<Wildcard, Named(A)>>, <<Wildcard, Wildcard>>,
              <<Named(B), Wildcard, Wildcard>>, <<Index(1), Wildcard>>, <<Index(1), Index(0)>>, <<Wildcard, Index(0)>>,
              <<Named(B), Index(0), Wildcard>>}

Query(docs, cut, some, parallel, budget) ==
    [docs |-> docs, cut |-> cut, paths |-> some, parallel |-> parallel, budget |-> budget, beyond |-> QUOTE]

JsonQueries ==
    {Query(<<Fields, Pairs, Nested>>, <<0, 0, 0>>, <<path>>, 0, 0) : path \in ManyPaths}
        \cup {Query(<<doc, One>>, <<cut, 0>>, <<path>>, 0, 0) :
                doc \in {Fields, Pairs}, cut \in 1 .. 12, path \in {<<Named(A)>>, <<Wildcard, Named(A)>>}}
        \cup {Query(<<Bells, Pairs, Bells>>, <<0, 0, 0>>, <<<< >>, <<Index(0)>>, <<Wildcard>>>>, 2, 0),
              Query(<<Bells, Nested>>, <<0, 0>>, <<<<Wildcard>>, << >>>>, 0, 1),
              Query(<<Array(<<Nested, Nested>>), One>>, <<0, 0>>, <<<<Wildcard, Wildcard, Wildcard>>>>, 0, 0),
              Query(<<Array(<<Nested>>), One>>, <<0, 0>>, <<<<Named(A), Index(0), Index(0), Wildcard, Named(B)>>, << >>>>, 1, 0),
              Query(<<Array(<<Fields>>), One>>, <<0, 0>>, <<<<Wildcard>>>>, 1, 0)}

\* An invalid row that is escaped to more than its length before the error.
InvalidRow == {Query(<<Bells, One, One>>, <<1, 0, 0>>, <<<< >>>>, 0, 0)}

\* Orders paths by length: any strict order does.
MCPathLess(p, q) == Len(p) < Len(q)

-----------------------------------------------------------------------------
(* Decimals of DIGITS digits, with every carry, tie and limit in reach. *)

Sequenced(set) == FoldSet(LAMBDA x, s : Append(s, x), << >>, set)

Operands == Sequenced({-99, -98, -75, -51, -50, -49, -32, -10, -5, -1, 0, 1, 4, 5, 9, 15, 31, 45, 50, 55, 64, 95, 99})
                \o <<NoValue, 7>>
Constant(b) == [i \in DOMAIN Operands |-> IF i = Len(Operands) THEN NoValue ELSE b]
DecimalCalls ==
    {[op |-> op, a |-> Operands, b |-> Constant(b), sa |-> sa, sb |-> sb, s |-> s, interim |-> interim] :
        op \in DecimalOps, b \in {-99, -50, -7, 0, 1, 3, 10, 64}, sa \in -2 .. 0, sb \in -2 .. 0, s \in -2 .. 0,
        interim \in BOOLEAN}
\* Only products have an interim result, and a remainder has the finer scale.
MCDecimalCalls == {c \in DecimalCalls : /\ c.interim => c.op = "mul"
                                        /\ c.op = "remainder" => c.s = (IF c.sa < c.sb THEN c.sa ELSE c.sb)}

-----------------------------------------------------------------------------
(* Zones, in hours: days have 24 of them.  Times around every transition of  *)
(* some years, where offsets, gaps and overlaps begin and end.               *)

Day(y, m, d) == to_epoch_day(y, m, d) * SecondsPerDay
Rule(m, dom, dow, time, clk, std, before, after) ==
    [month |-> m, dom |-> dom, dayOfWeek |-> dow, time |-> time, clock |-> clk, standard |-> std,
     before |-> before, after |-> after]
Shift(utc, before, after) == [utc |-> utc, before |-> before, after |-> after]

North ==
    LET r == <<Rule(3, 8, 7, 2, "WALL", -5, -5, -4), Rule(11, 1, 7, 2, "WALL", -5, -4, -5)>>
    IN  [offset |-> 0, rules |-> r,
         transitions |-> <<Shift(Day(1966, 4, 24) + 7, -5, -4), Shift(Day(1966, 10, 30) + 6, -4, -5),
                           Shift(Strikes(r[1], 2007), -5, -4), Shift(Strikes(r[2], 2007), -4, -5)>>]
South ==
    LET r == <<Rule(4, 1, 7, 2, "STANDARD", 10, 11, 10), Rule(10, 1, 7, 2, "STANDARD", 10, 10, 11)>>
    IN  [offset |-> 0, rules |-> r,
         transitions |-> <<Shift(Day(1895, 1, 31) + 10, 9, 10), Shift(Strikes(r[1], 2008), 11, 10),
                           Shift(Strikes(r[2], 2008), 10, 11)>>]
LastDays ==
    LET r == <<Rule(3, -1, 7, 1, "UTC", 0, 0, 1), Rule(10, -1, 0, 1, "UTC", 0, 1, 0)>>
    IN  [offset |-> 0, rules |-> r, transitions |-> <<Shift(Strikes(r[1], 1996), 0, 1), Shift(Strikes(r[2], 1996), 1, 0)>>]
Fixed == [offset |-> 3, rules |-> << >>, transitions |-> << >>]
Old == [offset |-> 0, rules |-> << >>,
        transitions |-> <<Shift(Day(1969, 12, 30) + 5, 8, 9), Shift(Day(1970, 3, 1), 9, 7), Shift(Day(1970, 3, 20), 7, 8)>>]

Years == {1966, 1970, 1996, 2007, 2100}
Centres(zone) == UNION {{Day(y, 1, 1)} \cup {t.utc : t \in Timeline(zone, Day(y, 6, 1))} : y \in Years}
Around(centre, per, f) == [i \in 1 .. 26 |-> IF i = 26 THEN NoValue ELSE (centre + i - 13) * per + f]

ZoneCalls ==
    UNION {{[op |-> "zone", zone |-> zone, to_utc |-> to, per |-> per, column |-> Around(centre, per, f)] :
                to \in BOOLEAN, centre \in Centres(zone), f \in 0 .. per - 1} :
           zone \in {North, South, LastDays, Fixed, Old}, per \in {1, MicrosPerSec}}

\* Strings at both ends of the range of timestamps.
Row(seconds, micros, fixed, zone) ==
    [invalid |-> FALSE, seconds |-> seconds, micros |-> micros, fixed |-> fixed, offset |-> 5, zone |-> zone]
CastCalls ==
    {[op |-> "cast", rows |-> Append(Sequenced({Row(s + d, m, fixed, zone) : d \in {-10, -5, -1, 0, 1, 4, 5, 6, 11},
                                                                              m \in 0 .. MicrosPerSec - 1}),
                                     [Row(0, 0, fixed, zone) EXCEPT !.invalid = TRUE])] :
        s \in {0, max_positive_seconds, min_negative_seconds + 20}, fixed \in BOOLEAN, zone \in {North, South}}
    \cup {[op |-> "cast", rows |-> Sequenced({Row(min_negative_seconds + d, m, TRUE, Fixed) :
                                                d \in {-3, 4, 6, 7}, m \in 0 .. MicrosPerSec - 1})]}

\* A string in the first second of the range.
FirstSecond == {[op |-> "cast", rows |-> <<Row(min_negative_seconds + 5, 1, TRUE, Fixed), Row(min_negative_seconds + 5, 2, TRUE, Fixed)>>]}

OrcZone(raw, transitions, offsets, dst) == [raw |-> raw, transitions |-> transitions, offsets |-> offsets, dst |-> dst]
OrcZones == {OrcZone(3, << >>, << >>, FALSE), OrcZone(0, <<-10, 20, 50>>, <<5, -2, 0>>, FALSE),
             OrcZone(4, <<-15, 15, 40>>, <<3, 5, 4>>, FALSE), OrcZone(1, << >>, << >>, TRUE)}
OrcCalls ==
    {[op |-> "orc", writer |-> w, reader |-> r, column |-> [i \in 1 .. 332 |-> IF i = 332 THEN NoValue ELSE i - 121]] : w \in OrcZones, r \in OrcZones}

-----------------------------------------------------------------------------
(* Calendars: days around the switch of 1582, leap days of one calendar or    *)
(* both, year ends of both signs; timestamps at the ends of their days.       *)

MCTicks == [milli |-> 2, second |-> 4, minute |-> 8, hour |-> 24, day |-> 96]

DaysAround(day, n) == [i \in 1 .. 2 * n + 1 |-> day - n - 1 + i]
SomeDays == DaysAround(GregorianStartDay, 14) \o DaysAround(to_epoch_day(1500, 3, 5), 10) \o DaysAround(to_epoch_day(1, 1, 1), 3)
            \o DaysAround(to_epoch_day(0, 3, 1), 3) \o DaysAround(to_epoch_day(-3, 12, 31), 3) \o DaysAround(0, 4)
            \o DaysAround(to_epoch_day(2000, 2, 29), 1) \o DaysAround(to_epoch_day(1900, 3, 1), 1)
            \o <<NoValue, to_epoch_day(4500, 7, 1)>>
SomeTimes(offset) == [i \in DOMAIN SomeDays |-> IF SomeDays[i] = NoValue THEN NoValue ELSE SomeDays[i] * MCTicks.day + offset]
TimeColumn(in_days, offset) == IF in_days THEN SomeDays ELSE SomeTimes(offset)

\* Around the ends of 16-bit years, and past them, in both calendars.
FarDays == <<to_epoch_day(32767, 12, 31), to_epoch_day(32768, 1, 1), to_epoch_day(34824, 5, 6), to_epoch_day(-32768, 1, 1),
             to_epoch_day(-32768, 1, 1) - 1, to_epoch_day(-32768, 9, 12), to_epoch_day(-33000, 2, 3), NoValue>>
FarTimes(in_days, offset) ==
    [i \in DOMAIN FarDays |-> IF in_days \/ FarDays[i] = NoValue THEN FarDays[i] ELSE FarDays[i] * MCTicks.day + offset]
FarCalls ==
    {[op |-> op, in_days |-> in_days, times |-> FarTimes(in_days, 53)] : op \in {"to_julian", "to_gregorian"}, in_days \in BOOLEAN}
        \cup {[op |-> "truncate", formats |-> [i \in DOMAIN FarDays |-> fmt], in_days |-> in_days, times |-> FarTimes(in_days, 71)] :
                in_days \in BOOLEAN, fmt \in {"YEAR", "Quarter", "mon", "WEEK", "DAY", "MINUTE", "MICROSECOND"}}

RebaseCalls ==
    {[op |-> op, in_days |-> in_days, times |-> TimeColumn(in_days, offset)] :
        op \in {"to_julian", "to_gregorian"}, in_days \in BOOLEAN, offset \in {0, 1, 53, 95}}
        \cup {[op |-> "since_epoch", unit |-> unit, in_days |-> in_days, times |-> TimeColumn(in_days, 95)] :
                unit \in {"years", "months", "days"}, in_days \in BOOLEAN}
        \cup {[op |-> "since_epoch", unit |-> "hours", in_days |-> FALSE, times |-> SomeTimes(offset)] : offset \in {0, 23, 24, 95}}

SomeFormats == Sequenced(truncation_format) \o <<"yyyy", "Quarter", "mon", "Week", "XYZ", NoValue>>
TruncateCalls ==
    {[op |-> "truncate", formats |-> SomeFormats, in_days |-> in_days,
      times |-> <<IF in_days THEN day ELSE day * MCTicks.day + offset>>] :
        in_days \in BOOLEAN, offset \in {0, 71}, day \in {-141430, -719163, -1, 0, 4, 3, 11017}}
        \cup {[op |-> "truncate", formats |-> [i \in DOMAIN SomeDays |-> fmt], in_days |-> in_days, times |-> TimeColumn(in_days, 17)] :
                in_days \in BOOLEAN, fmt \in {"WEEK", "MM", "Quarter", "HOUR", NoValue}}

-----------------------------------------------------------------------------
(* Strings: all the short ones over a few characters, and longer ones at      *)
(* limits and ties.                                                           *)

OfLength(n, chars) == [k \in 1 .. Len(chars)^n |-> [j \in 1 .. n |-> chars[(((k - 1) \div Len(chars)^(j - 1)) % Len(chars)) + 1]]]
Short(chars) == OfLength(1, chars) \o OfLength(2, chars) \o OfLength(3, chars)
Byte == [min |-> -128, max |-> 127]
UByte == [min |-> 0, max |-> 255]
Int16 == [min |-> -32768, max |-> 32767]

LongIntegers ==
    <<<<"1", "2", "7">>, <<"1", "2", "8">>, <<"-", "1", "2", "8">>, <<"-", "1", "2", "9">>, <<"2", "5", "5">>, <<"2", "5", "6">>,
      <<"1", "2", "7", ".", "9">>, <<"-", "1", "2", "8", ".", "9", " ">>, <<" ", "+", "1", " ", " ">>, <<"1", ".", "2", ".">>,
      <<"1", ".", "x">>, <<"0", "0", "1", "2">>, <<"1", "2", "7", "0">>, <<"1", " ", "1">>, NoValue, << >>>>
Integers_ == Short(<<"1", "8", ".", "-", " ">>) \o LongIntegers
IntegerCalls ==
    {[op |-> "to_integer", type |-> T, texts |-> Integers_, ansi |-> FALSE, strip |-> strip] : T \in {Byte, UByte}, strip \in BOOLEAN}
        \cup {[op |-> "to_integer", type |-> Byte, texts |-> <<<<"1">>, NoValue, LongIntegers[i], <<".">>>>, ansi |-> TRUE, strip |-> TRUE] :
                i \in DOMAIN LongIntegers}
        \cup {[op |-> "to_integer", type |-> Byte, texts |-> <<<<"1">>, NoValue>>, ansi |-> TRUE, strip |-> FALSE]}

LongDecimals ==
    <<<<"0", ".", "0", "9", "5">>, <<".", "9", "9", "5">>, <<"9", "9", ".", "5">>, <<"-", "9", ".", "9", "5">>, <<"1", "e", "1", " ">>,
      <<"1", "2", "e", "-", "1">>, <<"0", "e", "9">>, <<"5", "e", "-", "2">>, <<"1", ".", "2", "5", "e", "1">>, <<" ", "-", ".", "0", "5", " ">>,
      <<"9", "9", "9", "5">>, <<"1", "e", "+", "2">>, <<"1", "2", "7">>, <<"0", ".", "0", "0", "1">>, <<"1", "E", "2">>,
      <<"1", "e", "2", "5", "7">>, NoValue, << >>>>
DecimalTexts == Short(<<"0", "5", "9", ".", "e", "-", " ">>) \o LongDecimals \o <<<<" ">>, <<"-", "5">>, <<" ">>>>
ToDecimal(texts, beyond, p, s, ansi, strip) ==
    [op |-> "to_decimal", types |-> <<Byte, Int16>>, texts |-> texts, beyond |-> beyond, precision |-> p, scale |-> s,
     ansi |-> ansi, strip |-> strip]
ToDecimalCalls ==
    {ToDecimal(DecimalTexts, "+", p, s, FALSE, TRUE) : p \in {2, 3}, s \in -2 .. 1}
        \cup {ToDecimal(DecimalTexts, "1", 2, -1, FALSE, FALSE), ToDecimal(LongDecimals, "1", 5, 0, FALSE, TRUE)}
        \cup {ToDecimal(<<<<"5">>, LongDecimals[i], <<"e", "x">>>>, "1", 2, -1, TRUE, TRUE) : i \in DOMAIN LongDecimals}

BaseTexts == <<<<"0">>, <<"-">>, << >>, <<" ", " ">>, <<" ", "7", " ">>, <<"-", "7">>, <<"2", "5", "5">>, <<"2", "5", "6">>, <<"-", "1", "2", "8">>,
               <<"-", "1", "2", "9">>, <<"1", "2", "8">>, <<"9", "9", "9", "9">>, <<"F", "F">>, <<"f", "g">>, <<"-", "8", "0">>, <<"Z", "Z">>,
               <<"1", "1", "1", "1">>, <<"7", "Z">>, <<"1", "0", "0">>, <<"-", " ", "1">>, <<"?">>, NoValue>>
Bits == <<<<"1", "1", "1", "1", "1", "1", "1", "1">>, <<"1", "0", "0", "0", "0", "0", "0", "0">>, <<"1", "0", "0", "0", "0", "0", "0", "0", "1">>,
          <<"-", "1", "1", "1", "1", "1", "1", "1">>, <<"1", "1", "1", "1", "1", "1", "1", "1", "2">>>>
Bases == <<2, 10, 16, 36, -2, -10, -16, -36, 1, 37, 0, NoValue>>
Column(vals) == [col |-> TRUE, vals |-> vals]
Scalar(val) == [col |-> FALSE, vals |-> <<val>>]
BaseCalls ==
    {[op |-> op, input |-> Column(BaseTexts), from_base |-> Scalar(from), to_base |-> Scalar(to)] :
        op \in {"to_base", "overflows"}, from \in {8, 10, 16, 36, 37}, to \in {2, 10, 16, -10, -16, -37}}
        \cup {[op |-> op, input |-> Column(Bits), from_base |-> Scalar(2), to_base |-> Scalar(to)] : op \in {"to_base", "overflows"}, to \in {16, -10}}
        \cup {[op |-> op, input |-> Scalar(BaseTexts[i]), from_base |-> from, to_base |-> Column(Bases)] :
                op \in {"to_base", "overflows"}, i \in 1 .. Len(BaseTexts) - 1,
                from \in {Scalar(16), Column(<<16, 10, 36, 8, 16, 10, 36, 8, 16, 16, 16, 16>>)}}
        \cup {[op |-> op, input |-> Scalar(<<"1">>), from_base |-> Scalar(2), to_base |-> Scalar(2)] : op \in {"to_base", "overflows"}}

-----------------------------------------------------------------------------
(* Parquet files: a value, a struct, a list and a map side by side, lists in  *)
(* all their layouts, files of other shapes, and row groups whose footers     *)
(* say where they are, or do not, or wrongly.                                 *)

Leaf(name, id) == [name |-> name, leaf |-> TRUE, repeated |-> FALSE, map |-> FALSE, kids |-> << >>, id |-> id]
Group(name, kids) == [Leaf(name, 0) EXCEPT !.leaf = FALSE, !.kids = kids]
Repeated(node) == [node EXCEPT !.repeated = TRUE]
MapGroup(kids) == [Group("m", <<Repeated(Group("key_value", kids))>>) EXCEPT !.map = TRUE]

Value == [tag |-> "VALUE", names |-> << >>, items |-> << >>]
Struct(names, items) == [tag |-> "STRUCT", names |-> names, items |-> items]
ListOf(item) == [tag |-> "LIST", names |-> <<"element">>, items |-> <<item>>]
MapOf(key, value) == [tag |-> "MAP", names |-> <<"key", "value">>, items |-> <<key, value>>]
Some(name) == Struct(<<name>>, <<Value>>)

FullFile ==
    Group("root", <<Leaf("a", 1), Group("B", <<Leaf("a", 2), Group("s", <<Leaf("A", 3)>>), Leaf("b", 4)>>),
                    Group("l", <<Repeated(Group("list", <<Group("element", <<Leaf("a", 5), Leaf("b", 6)>>)>>))>>),
                    MapGroup(<<Leaf("key", 7), Group("value", <<Leaf("a", 8), Leaf("b", 9)>>)>>), Leaf("z", 10)>>)
\* A choice for each column, of which << >> leaves it out.
ColumnChoices ==
    <<{<< >>, <<Value>>, <<Some("a")>>},
      {<< >>, <<Struct(<<"b", "a">>, <<Value, Value>>)>>, <<Struct(<<"s">>, <<Some("a")>>)>>, <<Struct(<<"s">>, <<Some("x")>>)>>,
       <<Struct(<<"s", "b">>, <<Struct(<< >>, << >>), Value>>)>>, <<Struct(<< >>, << >>)>>, <<Value>>},
      {<< >>, <<ListOf(Some("b"))>>, <<ListOf(Some("x"))>>, <<ListOf(Value)>>},
      {<< >>, <<MapOf(Value, Some("b"))>>, <<MapOf(Value, Some("x"))>>, <<ListOf(Value)>>}>>
AskedFor(choice, second) ==
    LET names == <<"a", second, "l", "m">>
        taken == SelectSeq(<<1, 2, 3, 4>>, LAMBDA k : choice[k] # << >>)
    IN  Struct([k \in DOMAIN taken |-> names[taken[k]]], [k \in DOMAIN taken |-> choice[taken[k]][1]])

Place(start, size) == [start |-> start, size |-> size]
Split(offset, length) == [offset |-> offset, length |-> length]
\* A footer for groups at the places: with column metadata or with file offsets, right or not, with sizes of groups or not.
Groups(places, leaves, meta, dict, sized, offsets) ==
    [g \in DOMAIN places |->
        [columns |-> [k \in 1 .. leaves |->
                        LET begin == places[g].start + (k - 1) * (places[g].size \div leaves)
                        IN  [id |-> k, meta |-> meta, data |-> IF dict THEN begin + 1 ELSE begin, dict |-> IF dict THEN begin ELSE -1,
                             size |-> places[g].size \div leaves]],
         file_offset |-> IF offsets THEN places[g].start ELSE 0, total |-> IF sized THEN places[g].size ELSE -1, rows |-> 10^g]]
FooterCall(file, asked, ignore_case, orders, places, splits, meta, dict, sized, offsets) ==
    LET leaves == Len(SelectSeq(Flattened(file), LAMBDA e : e.leaf))
    IN  [op |-> "footer", file |-> file, asked |-> asked, ignore_case |-> ignore_case, places |-> places, splits |-> splits,
         meta |-> [schema |-> Flattened(file), orders |-> IF orders THEN [k \in 1 .. leaves |-> k] ELSE << >>,
                   groups |-> Groups(places, leaves, meta, dict, sized, offsets)]]

Tight == <<Place(4, 20), Place(24, 10), Place(34, 30), Place(64, 0)>>
Padded_ == <<Place(4, 20), Place(30, 10), Place(40, 30)>>
Cuts == {<<Split(0, 14), Split(14, 16), Split(30, 70)>>, <<Split(0, 100)>>, <<Split(0, 4), Split(4, 25), Split(29, 1), Split(30, 34), Split(64, 36)>>,
         <<Split(0, -1)>>}
OldLists ==
    {Repeated(Leaf("l", 3)), Repeated(Group("l", <<Leaf("a", 3), Leaf("b", 4)>>)), Group("l", <<Repeated(Leaf("array", 3))>>),
     Group("l", <<Repeated(Group("array", <<Leaf("a", 3)>>))>>), Group("l", <<Repeated(Group("l_tuple", <<Leaf("b", 3)>>))>>),
     Group("l", <<Repeated(Group("bag", <<Leaf("a", 3), Leaf("b", 4)>>))>>), Group("l", <<Repeated(Group("bag", <<Leaf("a", 3)>>))>>),
     Group("l", <<Group("bag", <<Leaf("a", 3)>>)>>), Leaf("l", 3), Group("l", <<Leaf("a", 3), Leaf("b", 4)>>),
     Group("l", <<Repeated(Group("list", <<Repeated(Leaf("element", 3))>>))>>),
     MapGroup(<<Leaf("key", 3)>>), Group("m", <<Repeated(Group("map", <<Leaf("key", 3), Leaf("value", 4)>>))>>)}
FooterCalls ==
    {FooterCall(FullFile, AskedFor(<<x, y, l, m>>, second), lower, TRUE, Tight, <<Split(0, 30)>>, TRUE, FALSE, TRUE, TRUE) :
        x \in ColumnChoices[1], y \in ColumnChoices[2], l \in ColumnChoices[3], m \in ColumnChoices[4],
        second \in {"B", "b"}, lower \in BOOLEAN}
    \cup {FooterCall(Group("root", <<Leaf("a", 1), Leaf("z", 2), list>>), Struct(<<"l", "m", "z">>, <<item, MapOf(Value, Value), Value>>),
                     FALSE, FALSE, Tight, <<Split(0, 100)>>, TRUE, FALSE, TRUE, TRUE) :
            list \in OldLists, item \in {ListOf(Value), ListOf(Some("a")), ListOf(Some("b")), ListOf(ListOf(Value)), Value}}
    \cup {FooterCall(FullFile, Some(name), FALSE, FALSE, places, splits, TRUE, dict, sized, offsets) :
            name \in {"a", "z"}, places \in {Tight, Padded_}, splits \in Cuts, dict \in BOOLEAN, sized \in BOOLEAN, offsets \in BOOLEAN}
    \cup {FooterCall(FullFile, Some(name), FALSE, FALSE, Tight, splits, FALSE, FALSE, TRUE, offsets) :
            name \in {"a", "z"}, splits \in Cuts, offsets \in BOOLEAN}
    \cup {FooterCall(FullFile, Some("z"), FALSE, FALSE, Padded_, splits, FALSE, FALSE, TRUE, TRUE) : splits \in Cuts}

MCCalls == MCDecimalCalls \cup ZoneCalls \cup CastCalls \cup OrcCalls \cup RebaseCalls \cup FarCalls \cup TruncateCalls
            \cup IntegerCalls \cup ToDecimalCalls \cup BaseCalls \cup FooterCalls

-----------------------------------------------------------------------------
\* What the parts hold that the behaviour is not about.
SomeTable == CHOOSE t \in Tables : TRUE
SomeQuery == CHOOSE q \in Columns : TRUE
SomeRows == RowsOf(SomeQuery)
SomeCall == CHOOSE c \in Calls : TRUE

Init ==
    /\ part \in {"rows", "json", "functions"}
    /\ IF part = "rows" THEN TRUE ELSE table = SomeTable
    /\ IF part = "json" THEN TRUE ELSE column = [rows |-> SomeRows, query |-> SomeQuery]
    /\ IF part = "functions" THEN TRUE ELSE called = SomeCall
    /\ RowsInit /\ JsonInit /\ FunctionsInit

\* The end of a behaviour.
Done ==
    /\ \/ part = "rows" /\ phase \in {"columns", "too wide", "too large"}
       \/ part = "json" /\ (starting = Len(paths) \/ failure # "none")
       \/ part = "functions" /\ answer # << >>
    /\ UNCHANGED <<part, exchangeVars, jsonVars, functionVars>>

Next ==
    \/ part = "rows" /\ RowsNext /\ UNCHANGED <<part, jsonVars, functionVars>>
    \/ part = "json" /\ JsonNext /\ UNCHANGED <<part, exchangeVars, functionVars>>
    \/ part = "functions" /\ FunctionsNext /\ UNCHANGED <<part, exchangeVars, jsonVars>>
    \/ Done

Spec == Init /\ [][Next]_<<part, exchangeVars, jsonVars, functionVars>>
=============================================================================
