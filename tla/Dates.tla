------------------------------- MODULE Dates -------------------------------
(***************************************************************************)
(* datetime_rebase.cu, datetime_truncate.cu and iceberg_datetime_util.cu:  *)
(* moving days and timestamps between the Julian and the Gregorian         *)
(* calendar, truncating them to a unit, and counting units since 1970.     *)
(*                                                                         *)
(* Ticks gives the length of the units in ticks of a timestamp (in the     *)
(* code microseconds); an int32 has DateBits bits (32).                    *)
(***************************************************************************)
EXTENDS TimeZones

CONSTANTS Ticks,     \* [milli, second, minute, hour, day]
          DateBits

\* cuda::std::chrono::year is a short, and a year_month_day made from days has one; to_date has an int.
year16(year) == ((year + 32768) % 65536) - 32768
year_month_day(days) == [to_date(days) EXCEPT !.year = year16(@)]

\* Dates as the calendar orders them.
DateCode(ymd) == (ymd.year * 100 + ymd.month) * 100 + ymd.day

-----------------------------------------------------------------------------
(* datetime_rebase.cu *)

julian_end == [year |-> 1582, month |-> 10, day |-> 4]
gregorian_start == [year |-> 1582, month |-> 10, day |-> 15]
GregorianStartDay == -141427

\* Eras of four years that begin in March.
days_from_julian(ymd) ==
    LET year        == IF ymd.month <= 2 THEN ymd.year - 1 ELSE ymd.year
        era         == Truncated(IF year >= 0 THEN year ELSE year - 3, 4)
        day_of_year == (153 * (IF ymd.month > 2 THEN ymd.month - 3 ELSE ymd.month + 9) + 2) \div 5 + ymd.day - 1
    IN  era * 1461 + (year - era * 4) * 365 + day_of_year - 719470

julian_date(days) ==
    LET date(year, doy, mp, m) ==
          [year |-> year + (IF m <= 2 THEN 1 ELSE 0), month |-> m, day |-> doy - (153 * mp + 2) \div 5 + 1]
        month(year, doy, mp) == date(year, doy, mp, IF mp < 10 THEN mp + 3 ELSE mp - 9)
        day(year, doy) == month(year, doy, (5 * doy + 2) \div 153)
        year_of(era, doe, yoe) == day(yoe + era * 4, doe - 365 * yoe)
        day_of(era, doe) == year_of(era, doe, (doe - doe \div 1460) \div 365)
        era_of(z, era) == day_of(era, z - era * 1461)
        from(z) == era_of(z, Truncated(IF z >= 0 THEN z ELSE z - 1460, 1461))
    IN  from(days + 719470)

\* The date is given back as a year_month_day.
julian_from_days(days) == [julian_date(days) EXCEPT !.year = year16(@)]

\* A date of neither calendar counts as the first of the Gregorian one.
between_calendars(ymd) == DateCode(ymd) > DateCode(julian_end) /\ DateCode(ymd) < DateCode(gregorian_start)

gregorian_to_julian_days(days) ==
    LET rebased(ymd) == IF between_calendars(ymd) THEN GregorianStartDay
                        ELSE IF DateCode(ymd) >= DateCode(gregorian_start) THEN days
                        ELSE days_from_julian(ymd)
    IN  rebased(year_month_day(days))

\* A mutant: the first Gregorian day is still read as Julian.
julian_to_gregorian_days_late(days) ==
    LET rebased(ymd) == to_epoch_day(ymd.year, ymd.month, ymd.day)
    IN  IF days > GregorianStartDay THEN days ELSE rebased(julian_from_days(days))

julian_to_gregorian_days(days) ==
    LET rebased(ymd) == to_epoch_day(ymd.year, ymd.month, ymd.day)
    IN  IF days >= GregorianStartDay THEN days ELSE rebased(julian_from_days(days))

modulo_time(time, base) == ((time - Truncated(time, base) * base) + base) % base
scale_time(time, base) == Truncated(time - (IF time < 0 THEN base - 1 ELSE 0), base)

\* Ticks since midnight, put together from hour, minute, second and subsecond.
get_time_components(micros) ==
    LET second    == Ticks.second
        subsecond == modulo_time(micros, second)
        seconds   == Truncated(micros, second) - (IF micros < 0 /\ subsecond # 0 THEN 1 ELSE 0)
        part(unit, next) == modulo_time(scale_time(seconds, unit \div second), next \div unit) * unit
    IN  part(Ticks.hour, Ticks.day) + part(Ticks.minute, Ticks.hour) + part(second, Ticks.minute) + subsecond

last_switch_gregorian_ts == GregorianStartDay * Ticks.day

gregorian_to_julian_micros(micros) ==
    LET days(ymd) == IF between_calendars(ymd) THEN GregorianStartDay ELSE days_from_julian(ymd)
    IN  IF micros >= last_switch_gregorian_ts THEN micros
        ELSE days(year_month_day(micros \div Ticks.day)) * Ticks.day + get_time_components(micros)

julian_to_gregorian_micros(micros) ==
    LET days(ymd) == to_epoch_day(ymd.year, ymd.month, ymd.day)
    IN  IF micros >= last_switch_gregorian_ts THEN micros
        ELSE days(julian_from_days(micros \div Ticks.day)) * Ticks.day + get_time_components(micros)

rebase_gregorian_to_julian(column, in_days, null) ==
    [i \in DOMAIN column |-> IF column[i] = null THEN null
                             ELSE IF in_days THEN gregorian_to_julian_days(column[i])
                             ELSE gregorian_to_julian_micros(column[i])]
rebase_julian_to_gregorian(column, in_days, null) ==
    [i \in DOMAIN column |-> IF column[i] = null THEN null
                             ELSE IF in_days THEN julian_to_gregorian_days(column[i])
                             ELSE julian_to_gregorian_micros(column[i])]

-----------------------------------------------------------------------------
(* datetime_truncate.cu.  A format is a string; Spellings are the ones in     *)
(* other letters than capitals that calls use.                               *)

truncation_format == {"YEAR", "YYYY", "YY", "QUARTER", "MONTH", "MM", "MON", "WEEK", "DAY", "DD", "HOUR",
                      "MINUTE", "SECOND", "MILLISECOND", "MICROSECOND"}

Spellings == [yyyy |-> "YYYY", Quarter |-> "QUARTER", mon |-> "MON", Week |-> "WEEK"]
to_upper(fmt) == IF fmt \in DOMAIN Spellings THEN Spellings[fmt] ELSE fmt

parse_format(fmt) == IF to_upper(fmt) \in truncation_format THEN to_upper(fmt) ELSE "INVALID"

trunc_quarter_month(month) == ((month - 1) \div 3) * 3 + 1

\* The difference of two weekdays, Monday and the one of the day, is one of 0 .. 6.
trunc_to_monday(days) == days - weekday_from_days(days)

\* The day of a truncated date, null for the other formats.
trunc_date(days, ymd, fmt, null) ==
    CASE fmt \in {"YEAR", "YYYY", "YY"} -> to_epoch_day(ymd.year, 1, 1)
      [] fmt = "QUARTER" -> to_epoch_day(ymd.year, trunc_quarter_month(ymd.month), 1)
      [] fmt \in {"MONTH", "MM", "MON"} -> to_epoch_day(ymd.year, ymd.month, 1)
      [] fmt = "WEEK" -> trunc_to_monday(days)
      [] OTHER -> null

truncate_date_fn(days, fmt, null) ==
    IF days = null \/ fmt = "INVALID" THEN null ELSE trunc_date(days, year_month_day(days), fmt, null)

FormatTicks(fmt) ==
    CASE fmt \in {"DAY", "DD"} -> Ticks.day [] fmt = "HOUR" -> Ticks.hour [] fmt = "MINUTE" -> Ticks.minute
      [] fmt = "SECOND" -> Ticks.second [] fmt = "MILLISECOND" -> Ticks.milli

\* floor to days and then, of what is left, to the unit; the day is put together again from the date.
truncate_timestamp_fn(ts, fmt, null) ==
    LET since(days) == ts - days * Ticks.day
        of(ymd) == to_epoch_day(ymd.year, ymd.month, ymd.day)
        finer(days, ymd) == of(ymd) * Ticks.day + (since(days) \div FormatTicks(fmt)) * FormatTicks(fmt)
        result(days, ymd, date) == IF date # null THEN date * Ticks.day ELSE finer(days, ymd)
        of_date(days, ymd) == result(days, ymd, trunc_date(days, ymd, fmt, null))
        dated(days) == of_date(days, year_month_day(days))
    IN  IF ts = null \/ fmt = "INVALID" THEN null
        ELSE IF fmt = "MICROSECOND" THEN ts
        ELSE dated(ts \div Ticks.day)

\* A column of one row goes with every format; columns of nulls are not looked at.
truncate(datetime, formats, in_days, null) ==
    LET row(i) == IF Len(datetime) > 1 THEN datetime[i] ELSE datetime[1]
        fmt(i) == IF formats[i] = null THEN "INVALID" ELSE parse_format(formats[i])
    IN  IF Range(datetime) = {null} \/ Range(formats) = {null} THEN [i \in DOMAIN formats |-> null]
        ELSE [i \in DOMAIN formats |-> IF in_days THEN truncate_date_fn(row(i), fmt(i), null)
                                       ELSE truncate_timestamp_fn(row(i), fmt(i), null)]

-----------------------------------------------------------------------------
(* iceberg_datetime_util.cu: partition transforms *)

int32(x) == ((x + 2^(DateBits - 1)) % 2^DateBits) - 2^(DateBits - 1)

\* The day of a row, cast to 32 bits if it comes from a timestamp.
epoch_days(x, in_days) == IF in_days THEN x ELSE int32(x \div Ticks.day)

years_from_epoch(x, in_days) == to_date(epoch_days(x, in_days)).year - 1970
months_from_epoch(x, in_days) ==
    LET months(ymd) == (ymd.year - 1970) * 12 + ymd.month - 1
    IN  months(to_date(epoch_days(x, in_days)))
days_from_epoch(x, in_days) == epoch_days(x, in_days)
hours_from_epoch(x) == int32(x \div Ticks.hour)

units_from_epoch(column, unit, in_days, null) ==
    LET count(x) == CASE unit = "years" -> years_from_epoch(x, in_days) [] unit = "months" -> months_from_epoch(x, in_days)
                      [] unit = "days" -> days_from_epoch(x, in_days) [] unit = "hours" -> hours_from_epoch(x)
    IN  [i \in DOMAIN column |-> IF column[i] = null THEN null ELSE count(column[i])]

-----------------------------------------------------------------------------
(* The reference *)

\* A year that a year_month_day holds.
YearFits(ymd) == -32768 <= ymd.year /\ ymd.year <= 32767

\* Days since 1970 of a Julian date: it has a leap day every fourth year, and its 1582-10-04 is the day
\* before the Gregorian 1582-10-15.
JulianDayNumber(year, month, day) ==
    LET length(y, m) == IF m = 2 THEN (IF y % 4 = 0 THEN 29 ELSE 28) ELSE days_in_month(1, m)
        into(y, m, d) == MapThenSumSet(LAMBDA k : length(y, k), 1 .. m - 1) + d
        leaps == Cardinality({y \in 1582 .. year - 1 : y % 4 = 0}) - Cardinality({y \in year .. 1581 : y % 4 = 0})
    IN  GregorianStartDay - 1 + (year - 1582) * 365 + leaps + into(year, month, day) - into(1582, 10, 4)

\* Whether a unit begins with a day.
BeginsWith(fmt, day) ==
    LET begins(ymd) == CASE fmt \in {"YEAR", "YYYY", "YY"} -> ymd.month = 1 /\ ymd.day = 1
                         [] fmt = "QUARTER" -> ymd.month \in {1, 4, 7, 10} /\ ymd.day = 1
                         [] fmt \in {"MONTH", "MM", "MON"} -> ymd.day = 1
                         [] fmt = "WEEK" -> day % 7 = 4
    IN  begins(to_date(day))

\* Whether truncated is where the unit that ts lies in begins.
IsTruncation(fmt, ts, truncated, in_days) ==
    LET day(x) == IF in_days THEN x ELSE x \div Ticks.day
        unit   == FormatTicks(fmt)
    IN  IF fmt \in {"DAY", "DD", "HOUR", "MINUTE", "SECOND", "MILLISECOND"}
        THEN truncated % unit = 0 /\ truncated <= ts /\ ts < truncated + unit
        ELSE /\ in_days \/ truncated % Ticks.day = 0
             /\ truncated <= ts
             /\ BeginsWith(fmt, day(truncated))
             /\ \A d \in day(truncated) + 1 .. day(ts) : ~BeginsWith(fmt, d)

\* Whether count is the number of whole units from 1970 to x, as far as it has DateBits bits.
IsCount(unit, x, count, in_days) ==
    LET day == IF in_days THEN x ELSE x \div Ticks.day
        first(months) == DayNumber(1970 + months \div 12, 1 + (months % 12), 1)
        within(months, k) == first(months) <= day /\ day < first(months + k)
    IN  CASE unit = "years" -> within(count * 12, 12)
          [] unit = "months" -> within(count, 1)
          [] unit = "days" -> count = day
          [] unit = "hours" -> (x \div Ticks.hour - count) % 2^DateBits = 0 /\ count \in -(2^(DateBits - 1)) .. 2^(DateBits - 1) - 1
=============================================================================
