-------------------------- MODULE ColumnFunctions --------------------------
(***************************************************************************)
(* Calls of the column functions without state of their own: decimal       *)
(* arithmetic, time zone conversion, the last step of casting strings to   *)
(* timestamps, ORC time zones, calendars, casts of strings to numbers, and *)
(* numbers in other bases.  A call takes columns and returns a column; the *)
(* properties compare it, row by row, with the reference.                  *)
(***************************************************************************)
EXTENDS Decimals, Dates, Casts, ParquetFooter

CONSTANT Calls      \* [op, ...]: the operation and its arguments

VARIABLES called,   \* the call
          answer    \* << >>, then << what it returned >>

functionVars == <<called, answer>>

FunctionsInit == called \in Calls /\ answer = << >>

Give(column) == answer = << >> /\ answer' = <<column>> /\ UNCHANGED called

DecimalOps == {"add", "sub", "mul", "div", "int_div", "remainder"}

Calculate ==
    LET c == called
    IN  \/ c.op = "add" /\ Give(add_decimal128(c.a, c.b, c.sa, c.sb, c.s))
        \/ c.op = "sub" /\ Give(sub_decimal128(c.a, c.b, c.sa, c.sb, c.s))
        \/ c.op = "mul" /\ Give(multiply_decimal128(c.a, c.b, c.sa, c.sb, c.s, c.interim))
        \/ c.op = "div" /\ Give(divide_decimal128(c.a, c.b, c.sa, c.sb, c.s))
        \/ c.op = "int_div" /\ Give(integer_divide_decimal128(c.a, c.b, c.sa, c.sb, c.s))
        \/ c.op = "remainder" /\ Give(remainder_decimal128(c.a, c.b, c.sa, c.sb, c.s))

Convert ==
    LET c == called
    IN  \/ c.op = "zone" /\ Give(convert_timestamp_tz(c.column, c.per, c.zone, c.to_utc, NoValue))
        \/ c.op = "cast" /\ Give(convert_to_utc_with_multiple_timezones(c.rows, NoValue))
        \/ c.op = "orc" /\ Give(convertOrcTimezones(c.column, c.writer, c.reader, NoValue))

Rebase ==
    LET c == called
    IN  \/ c.op = "to_julian" /\ Give(rebase_gregorian_to_julian(c.times, c.in_days, NoValue))
        \/ c.op = "to_gregorian" /\ Give(rebase_julian_to_gregorian(c.times, c.in_days, NoValue))
        \/ c.op = "truncate" /\ Give(truncate(c.times, c.formats, c.in_days, NoValue))
        \/ c.op = "since_epoch" /\ Give(units_from_epoch(c.times, c.unit, c.in_days, NoValue))

Read ==
    LET c == called
    IN  \/ c.op = "to_integer" /\ Give(string_to_integer(c.type, c.texts, c.ansi, c.strip, NoValue))
        \/ c.op = "to_decimal" /\ Give(string_to_decimal(c.types, c.texts, c.beyond, c.precision, c.scale, c.ansi, c.strip, NoValue))
        \/ c.op = "to_base" /\ Give(convert(c.input, c.from_base, c.to_base, NoValue))
        \/ c.op = "overflows" /\ Give(is_convert_overflow(c.input, c.from_base, c.to_base, NoValue))

\* One split after the other.
Prune ==
    LET c == called
    IN  c.op = "footer" /\ Give([k \in DOMAIN c.splits |->
            readAndFilter(c.meta, c.splits[k].offset, c.splits[k].length, c.asked, c.ignore_case)])

FunctionsNext == Calculate \/ Convert \/ Rebase \/ Read \/ Prune

-----------------------------------------------------------------------------
Answered(ops) == answer # << >> /\ called.op \in ops

\* What a decimal operation of two values yields in unbounded integers.
Exact(c, x, y) ==
    CASE c.op = "add" -> ExactSum(x, y, c.sa, c.sb, c.s)
      [] c.op = "sub" -> ExactSum(x, -y, c.sa, c.sb, c.s)
      [] c.op = "mul" -> ExactProduct(x, y, c.sa, c.sb, c.s, c.interim)
      [] c.op = "div" -> ExactQuotient(x, y, c.sa, c.sb, c.s, FALSE)
      [] c.op = "int_div" -> LET q == ExactQuotient(x, y, c.sa, c.sb, c.s, TRUE) IN [q EXCEPT !.value = @ % Chunk]
      [] c.op = "remainder" -> ExactRemainder(x, y, c.sa, c.sb, c.s)

\* A row of operands whose quotient, before it is scaled, has 128 bits.
InRange(c, x, y) ==
    LET k == c.sa - c.sb - c.s
    IN  c.op \in {"div", "int_div"} /\ y # 0 => (Abs(x) * Ten(IF k > 0 THEN k ELSE 0)) \div Abs(y) < 2^(4 * ChunkBits - 1)

(* Decimal operations return the exact result rounded once, half away from  *)
(* zero, or say that it has too many digits, although they compute in 256   *)
(* bits that wrap and in 128-bit remainders; null rows stay null            *)
(* (decimal_utils.cu).  An integer quotient is cut to 64 bits.              *)
DecimalsAreExact ==
    Answered(DecimalOps) /\ answer[1] # << >> =>
        \A i \in DOMAIN called.a :
            LET x == called.a[i]
                y == called.b[i]
            IN  IF NoValue \in {x, y} THEN answer[1][i] = NoValue
                ELSE InRange(called, x, y) => Agrees(answer[1][i], Exact(called, x, y))

(* A timestamp moves by the offset java.time's rules give its second, fixed *)
(* transitions and yearly rules alike, into gaps and out of overlaps        *)
(* (timezones.cu).  The second of a fraction before 1970 is the next one:   *)
(* duration_cast truncates towards zero.                                    *)
MovesByItsOffset ==
    Answered({"zone"}) =>
        \A i \in DOMAIN called.column :
            LET ts     == called.column[i]
                second == IF ts < 0 THEN -((-ts) \div called.per) ELSE ts \div called.per
                moved  == IF called.to_utc THEN ToUtc(called.zone, second) ELSE ToLocal(called.zone, second)
            IN  answer[1][i] = IF ts = NoValue THEN NoValue ELSE ts + (moved - second) * called.per

(* A string cast to a timestamp is null exactly if it was invalid or its    *)
(* instant has no 64-bit timestamp (get_timestamp_overflow).                *)
OverflowIsNull ==
    Answered({"cast"}) =>
        \A i \in DOMAIN called.rows :
            LET r       == called.rows[i]
                second  == IF r.fixed THEN r.seconds - r.offset ELSE ToUtc(r.zone, r.seconds)
                instant == second * MicrosPerSec + r.micros
            IN  answer[1][i] = IF r.invalid \/ instant \notin MinTimestamp .. MaxTimestamp THEN NoValue ELSE instant

\* The offset of the last transition, the raw one before all of them.
OrcOffsetAt(info, time) ==
    LET past == {i \in DOMAIN info.transitions : info.transitions[i] <= time}
    IN  IF past = {} THEN info.raw ELSE info.offsets[Max(past)]

(* ORC: the reader's clock shows at the new instant what the writer's clock *)
(* showed at the old one, wherever the reader's clock shows that only once  *)
(* (convert_timestamp_between_timezones).                                   *)
OrcKeepsTheWallClock ==
    Answered({"orc"}) /\ answer[1] # << >> =>
        \A i \in DOMAIN called.column :
            LET ts     == called.column[i]
                second == ts \div MicrosPerSec
                shown  == second + OrcOffsetAt(called.writer, second)
                far    == {second + d : d \in -30 .. 30}
                shows  == {u \in far : u + OrcOffsetAt(called.reader, u) = shown}
            IN  IF ts = NoValue THEN answer[1][i] = NoValue
                ELSE Cardinality(shows) = 1 /\ (ts >= 0 \/ ts % MicrosPerSec = 0) =>
                        (answer[1][i] - (ts % MicrosPerSec)) \div MicrosPerSec \in shows

(* Both conversions between zones, that of timestamps by java.time's rules  *)
(* and that of ORC's readers by its tables, follow the clocks of the zones. *)
ConversionsFollowTheRules == MovesByItsOffset /\ OrcKeepsTheWallClock

\* What a row of a date or timestamp column must become.
IsDated(c, x, y, i) ==
    LET day(z)  == IF c.in_days THEN z ELSE z \div Ticks.day
        time(z) == IF c.in_days THEN 0 ELSE z % Ticks.day
        julian(z, ymd) == z = JulianDayNumber(ymd.year, ymd.month, ymd.day)
        leap(z, ymd) == ymd.month = 3 /\ ymd.day = 1 /\ ~is_leap_year(ymd.year) /\ ymd.year % 4 = 0 /\ julian(z + 1, ymd)
        twin(z, ymd) == julian(z, ymd) \/ leap(z, ymd)
        fmt     == IF c.formats[i] = NoValue THEN "INVALID" ELSE parse_format(c.formats[i])
    IN  CASE c.op = "to_julian" ->
               IF day(x) >= GregorianStartDay THEN y = x
               ELSE /\ time(y) = time(x)
                    /\ IF day(x) >= GregorianStartDay - 10 THEN day(y) = GregorianStartDay ELSE julian(day(y), to_date(day(x)))
          [] c.op = "to_gregorian" ->
               IF day(x) >= GregorianStartDay THEN y = x ELSE time(y) = time(x) /\ twin(day(x), to_date(day(y)))
          [] c.op = "truncate" ->
               IF fmt = "INVALID" \/ (c.in_days /\ fmt \in {"DAY", "DD", "HOUR", "MINUTE", "SECOND", "MILLISECOND", "MICROSECOND"})
               THEN y = NoValue
               ELSE IF fmt = "MICROSECOND" THEN y = x ELSE IsTruncation(fmt, x, y, c.in_days)
          [] c.op = "since_epoch" -> IsCount(c.unit, x, y, c.in_days)

\* Whether a year of more than 16 bits makes another date of a row: the calendars and the truncations to a
\* part of the date go through year_month_day, but for what is not looked at and what is counted in days.
Wraps(c, x, i) ==
    LET day == IF c.in_days THEN x ELSE x \div Ticks.day
        fmt == IF c.formats[i] = NoValue THEN "INVALID" ELSE parse_format(c.formats[i])
    IN  CASE c.op = "to_julian" -> ~YearFits(to_date(day)) /\ (c.in_days \/ day < GregorianStartDay)
          [] c.op = "to_gregorian" -> ~YearFits(julian_date(day)) /\ day < GregorianStartDay
          [] c.op = "truncate" -> ~YearFits(to_date(day)) /\ fmt \notin {"INVALID", "WEEK", "MICROSECOND"}
          [] OTHER -> FALSE

(* Days and timestamps keep their date and time of day in the other         *)
(* calendar, those of neither calendar becoming the first Gregorian day and *)
(* Julian leap days without a twin the first of March                       *)
(* (datetime_rebase.cu); they are truncated to where their unit begins      *)
(* (datetime_truncate.cu) and count the units since 1970, before it too     *)
(* (iceberg_datetime_util.cu).  Null rows stay null.  Excepted are dates    *)
(* beyond the 16-bit years of year_month_day.                               *)
DatesFollowTheCalendars ==
    Answered({"to_julian", "to_gregorian", "truncate", "since_epoch"}) =>
        \A i \in DOMAIN answer[1] :
            LET x == called.times[IF Len(called.times) > 1 THEN i ELSE 1]
            IN  IF x = NoValue THEN answer[1][i] = NoValue
                ELSE Wraps(called, x, i) \/ IsDated(called, x, answer[1][i], i)

(* gregorian_to_julian_days, after the switch of 1582: "No change since     *)
(* this time."  From the year 32768 on the year is negative, and the day is *)
(* moved as one before the switch.                                          *)
NoChangeSinceTheSwitch ==
    Answered({"to_julian"}) =>
        \A i \in DOMAIN answer[1] :
            called.in_days /\ called.times[i] # NoValue /\ called.times[i] >= GregorianStartDay =>
                answer[1][i] = called.times[i]

\* The answer of a cast of strings, row by row or as the first row in error.
IsCast(c, result) ==
    LET exact(i) == IF c.op = "to_integer" THEN ExactInteger(c.type, c.texts[i], c.ansi, c.strip, NoValue)
                    ELSE ExactDecimal(c.texts[i], c.scale, c.precision, c.strip, NoValue)
        odd(i, x, y) ==
          /\ c.op = "to_decimal" /\ c.texts[i] # NoValue /\ c.texts[i] # << >>
          /\ \/ x # NoValue /\ y = NoValue /\ MayBeNull(c.texts[i], x, c.scale, c.precision)
             \/ x = NoValue /\ y = 0 /\ MayBeZero(c.texts[i], Behind(c.texts, i, c.beyond, NoValue))
             \/ MayWrap(c.texts[i], c.types[1])
        as(i, x, y) == x = y \/ odd(i, x, y)
        wrong(i) == c.texts[i] # NoValue /\ as(i, exact(i), NoValue)
        right(i) == c.texts[i] = NoValue \/ exact(i) # NoValue \/ odd(i, exact(i), 0)
    IN  CASE result.row = -1 -> 10^c.precision > c.types[Len(c.types)].max
          [] result.row = 0 -> /\ \A i \in DOMAIN c.texts : as(i, exact(i), result.column[i])
                               /\ c.ansi => \A i \in DOMAIN c.texts : right(i)
          [] OTHER -> c.ansi /\ wrong(result.row) /\ \A i \in 1 .. result.row - 1 : right(i)

\* A row of numbers in other bases.
IsConversion(c, i, result) ==
    LET expected == ExactConversion(Operand(c.input, i), Operand(c.from_base, i), Operand(c.to_base, i), NoValue)
    IN  IF NoConversion(c.input, c.from_base, c.to_base, i, NoValue) THEN result = NoValue
        ELSE IF expected = NoValue THEN result = NoValue
        ELSE result # NoValue /\ Denotes(result, expected, Magnitude(Operand(c.to_base, i)))

\* The digits of a row have more bits than a long.
IsTooLong(c, i) ==
    LET of(t) == t # << >> /\ ValueOf(UpTo(t, {chr \in Range(t) : char_to_byte(chr, Operand(c.from_base, i)) < 0}),
                                      Operand(c.from_base, i)) > MinusOne
        from(t) == of(IF t # << >> /\ Head(t) = "-" THEN Tail(t) ELSE t)
    IN  ~NoConversion(c.input, c.from_base, c.to_base, i, NoValue) /\ from(trim(Operand(c.input, i)))

(* A string is cast to the number it denotes, rounded half away from zero   *)
(* for decimals, and to null if it denotes none or one the type has no room *)
(* for, although digits are added one by one in that type; MayBeNull,       *)
(* MayBeZero and MayWrap name where a decimal is off.  In ANSI mode the     *)
(* first such row is reported (cast_string.cu).  A number in another base   *)
(* is the same number, cut to 64 bits, and an overflow is reported exactly  *)
(* if its digits have more bits (number_converter.cu).                      *)
NumbersAreRead ==
    /\ Answered({"to_integer", "to_decimal"}) => IsCast(called, answer[1])
    /\ Answered({"to_base"}) => \A i \in DOMAIN answer[1] : IsConversion(called, i, answer[1][i])
    /\ Answered({"overflows"}) =>
        answer[1] = IF HasColumn(called.input, called.from_base, called.to_base)
                    THEN \E i \in 1 .. NumRows(called.input, called.from_base, called.to_base) : IsTooLong(called, i) ELSE << >>

\* A split's footer: the groups whose middle is in it, and in each the chunks of the wanted leaves.
IsFooterOf(c, footer, split, elements) ==
    LET ids(kept) == [k \in DOMAIN kept |-> kept[k].id]
        leaves == ids(SelectSeq(elements, LAMBDA e : e.leaf))
        inside == SelectSeq([g \in DOMAIN c.places |-> g], LAMBDA g : InSplit(c.places[g], split))
    IN  /\ footer # << >>
        /\ \/ footer.schema = elements /\ getNumColumns(footer) = IF elements = << >> THEN 0 ELSE elements[1].kids
           \/ LosesElement(c.file, c.asked, c.ignore_case)
        /\ footer.orders = IF c.meta.orders = << >> THEN << >> ELSE leaves
        /\ Len(footer.groups) = Len(inside)
        /\ \A g \in DOMAIN inside : footer.groups[g] = [c.meta.groups[inside[g]] EXCEPT !.columns = [k \in DOMAIN leaves |-> @[leaves[k]]]]
        /\ getNumRows(footer) = FoldLeft(LAMBDA sum, g : sum + c.meta.groups[g].rows, 0, inside)

(* Whatever layout of lists and maps a file has, its footer is cut down to   *)
(* the tree of columns that is asked for, with the counts of children and    *)
(* the chunks that belong to it, or refused where the shapes differ; and     *)
(* every row group goes to the one split its middle is in, although the      *)
(* footer may lack offsets and sizes or have them wrong                      *)
(* (NativeParquetJni.cpp).                                                   *)
FootersArePruned ==
    LET c == called
        wanted == Wanted(c.file, c.asked, c.ignore_case)
        elements == IF wanted = << >> THEN << >> ELSE Flattened(wanted[1])
    IN  Answered({"footer"}) =>
            \A k \in DOMAIN c.splits : IF Fits(c.file, c.asked, c.ignore_case) THEN IsFooterOf(c, answer[1][k], c.splits[k], elements)
                                       ELSE answer[1][k] = << >>
=============================================================================
