------------------------------ MODULE Calendar ------------------------------
(***************************************************************************)
(* Days and civil dates (util.rs), and the calendar they should follow.    *)
(* Days count from 1970-01-01; dates are records.                          *)
(***************************************************************************)
EXTENDS Integers, FiniteSets

DaySeconds == 86400

\* Division of Rust's signed integers, towards zero.
Quotient(a, b) == IF a >= 0 THEN a \div b ELSE -((-a) \div b)

\* Mutant of CivilFromDays: centuries are leap years too.
CivilNoCenturies(days) ==
    LET z == days + 719468
        era == Quotient(IF z >= 0 THEN z ELSE z - 146096, 146097)
        doe == z - era * 146097
        yoe == (doe - doe \div 1460 - doe \div 146096) \div 365
        doy == doe - (365 * yoe + yoe \div 4 - yoe \div 100)
        mp == (5 * doy + 2) \div 153
        m == IF mp < 10 THEN mp + 3 ELSE mp - 9
    IN [y |-> yoe + era * 400 + (IF m <= 2 THEN 1 ELSE 0), m |-> m,
        d |-> doy - (153 * mp + 2) \div 5 + 1, wd |-> ((days % 7) + 7 + 4) % 7]

\* civil_from_days: eras of 400 years that start on the first of March.
CivilFromDays(days) ==
    LET z == days + 719468
        era == Quotient(IF z >= 0 THEN z ELSE z - 146096, 146097)
        doe == z - era * 146097
        yoe == (doe - doe \div 1460 + doe \div 36524 - doe \div 146096) \div 365
        doy == doe - (365 * yoe + yoe \div 4 - yoe \div 100)
        mp == (5 * doy + 2) \div 153
        m == IF mp < 10 THEN mp + 3 ELSE mp - 9
    IN [y |-> yoe + era * 400 + (IF m <= 2 THEN 1 ELSE 0), m |-> m,
        d |-> doy - (153 * mp + 2) \div 5 + 1, wd |-> ((days % 7) + 7 + 4) % 7]

\* Mutant of DaysFromCivil: January and February belong to their own year.
DaysWithoutShift(date) ==
    LET era == Quotient(IF date.y >= 0 THEN date.y ELSE date.y - 399, 400)
        yoe == date.y - era * 400
        doy == (153 * (IF date.m > 2 THEN date.m - 3 ELSE date.m + 9) + 2) \div 5 + date.d - 1
    IN era * 146097 + yoe * 365 + yoe \div 4 - yoe \div 100 + doy - 719468

\* days_from_civil: any two digits pass for a month or a day.
DaysFromCivil(date) ==
    LET y == IF date.m <= 2 THEN date.y - 1 ELSE date.y
        era == Quotient(IF y >= 0 THEN y ELSE y - 399, 400)
        yoe == y - era * 400
        doy == (153 * (IF date.m > 2 THEN date.m - 3 ELSE date.m + 9) + 2) \div 5 + date.d - 1
    IN era * 146097 + yoe * 365 + yoe \div 4 - yoe \div 100 + doy - 719468

\* parse_amz_date: seconds since the epoch, or -1.
AmzSeconds(date, second) ==
    LET total == DaysFromCivil(date) * DaySeconds + second IN
    IF total < 0 THEN -1 ELSE total

----------------------------------------------------------------------------
(* The Gregorian calendar, by counting.                                    *)

IsLeap(y) == y % 4 = 0 /\ (y % 100 = 0 => y % 400 = 0)
MonthDays(y, m) == CASE m = 2 -> IF IsLeap(y) THEN 29 ELSE 28
                     [] m \in {4, 6, 9, 11} -> 30
                     [] OTHER -> 31

\* The date a number of days after a date, one day at a time.
NextDay(date) ==
    LET wd == (date.wd + 1) % 7 IN
    CASE date.d < MonthDays(date.y, date.m) ->
            [y |-> date.y, m |-> date.m, d |-> date.d + 1, wd |-> wd]
      [] date.d = MonthDays(date.y, date.m) /\ date.m < 12 ->
            [y |-> date.y, m |-> date.m + 1, d |-> 1, wd |-> wd]
      [] OTHER -> [y |-> date.y + 1, m |-> 1, d |-> 1, wd |-> wd]

Epoch == [y |-> 1970, m |-> 1, d |-> 1, wd |-> 4]
=============================================================================
