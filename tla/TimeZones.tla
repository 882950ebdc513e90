----------------------------- MODULE TimeZones -----------------------------
(***************************************************************************)
(* datetime_utils.cuh and timezones.cu: moving timestamps between UTC and  *)
(* a zone, from the table GpuTimeZoneDB.loadData builds out of java.time's *)
(* rules (fixed transitions and two yearly rules), and the overflow check  *)
(* of the result.  The grain of time is a parameter: a day has             *)
(* SecondsPerDay seconds (86400 in the code), a second MicrosPerSec ticks  *)
(* (10^6), a timestamp TimestampBits bits (64).                            *)
(*                                                                         *)
(* A zone is what java.time gives: the offset of a zone without            *)
(* transitions, its transitions in order, its yearly rules (none or two).  *)
(***************************************************************************)
EXTENDS Integers, Sequences, SequencesExt, FiniteSets, FiniteSetsExt

CONSTANTS SecondsPerDay, MicrosPerSec, TimestampBits

\* Below every instant a table holds (Long.MIN_VALUE).
LongMin == -(2^30)

\* Integer division as C does it.
Truncated(a, b) == IF a >= 0 THEN a \div b ELSE -((-a) \div b)

-----------------------------------------------------------------------------
(* date_time_utils *)

is_leap_year(year) == (year % 4 = 0 /\ year % 100 # 0) \/ year % 400 = 0

days_in_month(year, month) ==
    IF month = 2 THEN (IF is_leap_year(year) THEN 29 ELSE 28)
    ELSE IF month \in {4, 6, 9, 11} THEN 30 ELSE 31

\* Days since 1970-01-01, by eras of 400 years that begin in March.
to_epoch_day(year, month, day) ==
    LET y   == IF month <= 2 THEN year - 1 ELSE year
        era == y \div 400
        yoe == y - era * 400
        doy == (153 * (IF month > 2 THEN month - 3 ELSE month + 9) + 2) \div 5 + day - 1
        doe == yoe * 365 + yoe \div 4 - yoe \div 100 + doy
    IN  era * 146097 + doe - 719468

to_date(epoch_day) ==
    LET date(year, doy, mp, m) ==
          [year |-> year + (IF m <= 2 THEN 1 ELSE 0), month |-> m, day |-> doy - (153 * mp + 2) \div 5 + 1]
        month(year, doy, mp) == date(year, doy, mp, IF mp < 10 THEN mp + 3 ELSE mp - 9)
        day(year, doy) == month(year, doy, (5 * doy + 2) \div 153)
        year_of(era, doe, yoe) == day(yoe + era * 400, doe - (365 * yoe + yoe \div 4 - yoe \div 100))
        day_of(era, doe) ==
          year_of(era, doe, (doe - doe \div 1460 + doe \div 36524 - doe \div 146096) \div 365)
        era_of(z) == day_of(z \div 146097, z % 146097)
    IN  era_of(epoch_day + 719468)

\* 0 is Monday; the code counts from a Monday below every 32-bit day.
weekday_from_days(epoch_days) == (epoch_days + 3) % 7

weekday_difference(epoch_days, weekday) == 6 - ((weekday_from_days(epoch_days) + (6 - weekday)) % 7)
previous_weekday_difference(epoch_days, weekday) == (weekday_from_days(epoch_days) + (7 - weekday)) % 7

\* A mutant: a day that already is the weekday moves a week on.
next_weekday(epoch_days, weekday) == epoch_days + 1 + weekday_difference(epoch_days + 1, weekday)

next_or_same_weekday(epoch_days, weekday) == epoch_days + weekday_difference(epoch_days, weekday)
previous_or_same_weekday(epoch_days, weekday) == epoch_days - previous_weekday_difference(epoch_days, weekday)

get_year(seconds) == to_date(seconds \div SecondsPerDay).year

-----------------------------------------------------------------------------
(* The table: what loadData makes of a zone *)

\* The time of a rule, given on the UTC, the standard or the wall clock, on the wall clock before it.
getTransitionRuleTimeDiffComparedToMidnight(rule) ==
    CASE rule.clock = "UTC"      -> rule.time + rule.before
      [] rule.clock = "STANDARD" -> rule.time + rule.before - rule.standard
      [] rule.clock = "WALL"     -> rule.time

\* A row per transition; a gap is left on the clock after it, an overlap on the clock before it.
transition_rows(zone) ==
    LET row(t) == [utc    |-> t.utc,
                   tz     |-> t.utc + (IF t.after > t.before THEN t.after ELSE t.before),
                   offset |-> t.after]
        first  == IF zone.transitions = <<>> THEN zone.offset ELSE zone.transitions[1].before
    IN  <<[utc |-> LongMin, tz |-> LongMin, offset |-> first]>>
            \o [i \in DOMAIN zone.transitions |-> row(zone.transitions[i])]

rule_rows(zone) ==
    [i \in DOMAIN zone.rules |->
        LET r == zone.rules[i]
        IN  [month |-> r.month, dom |-> r.dom, dow |-> r.dayOfWeek - 1,
             time_diff |-> getTransitionRuleTimeDiffComparedToMidnight(r),
             offset_before |-> r.before, offset_after |-> r.after]]

-----------------------------------------------------------------------------
(* daylight_saving_time_utils *)

create_transition_info(year, rule) ==
    LET dom   == IF rule.dom > 0 THEN rule.dom ELSE days_in_month(year, rule.month) + 1 + rule.dom
        day   == to_epoch_day(year, rule.month, dom)
        days  == IF rule.dow < 0 THEN day
                 ELSE IF rule.dom > 0 THEN next_or_same_weekday(day, rule.dow)
                 ELSE previous_or_same_weekday(day, rule.dow)
    IN  [utc_seconds |-> days * SecondsPerDay + rule.time_diff - rule.offset_before,
         offset_before |-> rule.offset_before, offset_after |-> rule.offset_after]

is_gap(info) == info.offset_after > info.offset_before

\* The two transitions of the year seconds lies in.
transition_infos(seconds, rules) ==
    LET infos(year) == [i \in 1 .. 2 |-> create_transition_info(year, rules[i])]
    IN  infos(get_year(seconds))

offset_between(seconds, infos, at) ==
    IF seconds < at[1] THEN infos[1].offset_before
    ELSE IF seconds < at[2] THEN infos[1].offset_after
    ELSE infos[2].offset_after

get_offset_for_utc_time(seconds, rules) ==
    LET offset(infos) == offset_between(seconds, infos, [i \in 1 .. 2 |-> infos[i].utc_seconds])
    IN  offset(transition_infos(seconds, rules))

\* One of the two is a gap, the other an overlap.
get_offset_for_local_time(seconds, rules) ==
    LET wall(info, gap) == info.utc_seconds + (IF gap THEN info.offset_after ELSE info.offset_before)
        offset(infos) == offset_between(seconds, infos,
                            [i \in 1 .. 2 |-> wall(infos[i], (i = 1) = is_gap(infos[1]))])
    IN  offset(transition_infos(seconds, rules))

\* convert_timestamp: the yearly rules after the last transition, else the last transition not after
\* the time (upper_bound); a timestamp has per ticks in a second.
convert_timestamp(ts, per, zone, to_utc) ==
    LET ruled(epoch, rules) == IF to_utc THEN get_offset_for_local_time(epoch, rules)
                               ELSE get_offset_for_utc_time(epoch, rules)
        offset(epoch, rows, times) ==
          IF zone.rules # <<>> /\ epoch > Last(times) THEN ruled(epoch, rule_rows(zone))
          ELSE rows[Cardinality({i \in DOMAIN times : times[i] <= epoch})].offset
        looked_up(rows) == offset(Truncated(ts, per), rows,
                                  [i \in DOMAIN rows |-> IF to_utc THEN rows[i].tz ELSE rows[i].utc])
    IN  ts + (IF to_utc THEN -per ELSE per) * looked_up(transition_rows(zone))

\* A column in one zone: each row by itself, nulls left as they are.
convert_timestamp_tz(column, per, zone, to_utc, null) ==
    [i \in DOMAIN column |-> IF column[i] = null THEN null ELSE convert_timestamp(column[i], per, zone, to_utc)]

-----------------------------------------------------------------------------
(* Rows that carry their zone, from casting strings *)

MaxTimestamp == 2^(TimestampBits - 1) - 1
MinTimestamp == -(2^(TimestampBits - 1))
int64(x) == ((x - MinTimestamp) % 2^TimestampBits) + MinTimestamp

max_positive_seconds == Truncated(MaxTimestamp, MicrosPerSec)
min_negative_seconds == Truncated(MinTimestamp, MicrosPerSec) - 1
\* The ticks of the first second that lie below the least timestamp (224192 in the code).
FirstTicks == MinTimestamp - min_negative_seconds * MicrosPerSec

\* A mutant: seconds at the upper end are let through whatever the ticks.
get_timestamp_overflow_lax(seconds, microseconds) ==
    [result   |-> int64(seconds * MicrosPerSec + microseconds),
     overflow |-> \/ seconds > max_positive_seconds \/ seconds < min_negative_seconds
                  \/ seconds = min_negative_seconds /\ microseconds >= FirstTicks]

get_timestamp_overflow(seconds, microseconds) ==
    [result   |-> int64(seconds * MicrosPerSec + microseconds),
     overflow |-> \/ seconds > max_positive_seconds \/ seconds < min_negative_seconds
                  \/ seconds > 0 /\ microseconds > MaxTimestamp - seconds * MicrosPerSec
                  \/ seconds = min_negative_seconds /\ microseconds >= FirstTicks]

\* convert_with_timezones_fn of one row: [invalid, seconds, micros, fixed, offset, zone].
convert_with_timezones_fn(row, null) ==
    LET answer(checked) == IF row.invalid \/ checked.overflow THEN null ELSE checked.result
    IN  answer(get_timestamp_overflow(IF row.fixed THEN row.seconds - row.offset
                                      ELSE convert_timestamp(row.seconds, 1, row.zone, TRUE), row.micros))

convert_to_utc_with_multiple_timezones(rows, null) == [i \in DOMAIN rows |-> convert_with_timezones_fn(rows[i], null)]

-----------------------------------------------------------------------------
(* ORC: tables of java.util.TimeZone, [raw, transitions, offsets, dst] *)

\* The offset of the last transition not after the time; outside the table the raw offset.
get_transition_index(info, time) ==
    LET index == Cardinality({i \in DOMAIN info.transitions : info.transitions[i] <= time})
    IN  IF index \in {0, Len(info.transitions)} THEN info.raw ELSE info.offsets[index]

\* Instants in ticks of which MicrosPerSec make the unit of the tables.
convert_timestamp_between_timezones(ts, writer, reader) ==
    LET epoch    == Truncated(ts, MicrosPerSec)
        w        == get_transition_index(writer, epoch)
        adjusted == epoch + (w - get_transition_index(reader, epoch))
    IN  ts + (w - get_transition_index(reader, adjusted)) * MicrosPerSec

\* convertOrcTimezones refuses zones with yearly rules; << >> stands for the exception.
convertOrcTimezones(column, writer, reader, null) ==
    IF writer.dst \/ reader.dst THEN << >>
    ELSE [i \in DOMAIN column |-> IF column[i] = null THEN null
                                  ELSE convert_timestamp_between_timezones(column[i], writer, reader)]

-----------------------------------------------------------------------------
(* The reference: java.time's rules by their definition *)

\* Days since 1970-01-01, year by year and month by month.
DayNumber(year, month, day) ==
    LET leaps  == Cardinality({y \in 1970 .. year - 1 : is_leap_year(y)}) - Cardinality({y \in year .. 1969 : is_leap_year(y)})
        months == MapThenSumSet(LAMBDA m : days_in_month(year, m), 1 .. month - 1)
    IN  (year - 1970) * 365 + leaps + months + day - 1

\* The instant a rule strikes in a year.
Strikes(rule, year) ==
    LET day(named) == IF rule.dayOfWeek = 0 THEN named
                      ELSE CHOOSE d \in (IF rule.dom > 0 THEN named .. named + 6 ELSE named - 6 .. named) :
                              (d - 4) % 7 = rule.dayOfWeek - 1
        dom == IF rule.dom > 0 THEN rule.dom ELSE days_in_month(year, rule.month) + 1 + rule.dom
        clock == CASE rule.clock = "UTC" -> 0 [] rule.clock = "STANDARD" -> rule.standard [] OTHER -> rule.before
    IN  day(DayNumber(year, rule.month, dom)) * SecondsPerDay + rule.time - clock

\* The transitions that decide about times around an instant.
Timeline(zone, around) ==
    LET fixed == Range(zone.transitions)
        near  == 1970 + around \div (366 * SecondsPerDay) - 1 .. 1970 + around \div (365 * SecondsPerDay) + 1
        made  == {[utc |-> Strikes(zone.rules[i], y), before |-> zone.rules[i].before, after |-> zone.rules[i].after] :
                    i \in DOMAIN zone.rules, y \in near}
    IN  fixed \cup {t \in made : \A f \in fixed : f.utc < t.utc}

OffsetAt(zone, instant) ==
    LET latest(past) == IF past # {} THEN (CHOOSE t \in past : \A u \in past : u.utc <= t.utc).after
                        ELSE IF zone.transitions = <<>> THEN zone.offset ELSE zone.transitions[1].before
    IN  latest({t \in Timeline(zone, instant) : t.utc <= instant})

ToLocal(zone, instant) == instant + OffsetAt(zone, instant)

\* The earlier of the instants that show a local time; in a gap, the one the clock before it would show.
ToUtc(zone, local) ==
    LET offsets(line) == {t.before : t \in line} \cup {t.after : t \in line} \cup {zone.offset}
        shows(line) == {u \in {local - o : o \in offsets(line)} : ToLocal(zone, u) = local}
        earliest(line, instants) ==
          IF instants # {} THEN Min(instants)
          ELSE local - (CHOOSE t \in line : t.utc + t.before <= local /\ local < t.utc + t.after).before
        from(line) == earliest(line, shows(line))
    IN  from(Timeline(zone, local))
=============================================================================
