--------------------------- MODULE CalendarProofs ---------------------------
(***************************************************************************)
(* The dates of util.rs are those of the calendar, for every day number.   *)
(* A day belongs to a year y that starts on the first of March, and is the *)
(* doy-th of it; a year is the z-th of four, these the q-th of a century,  *)
(* and that the c-th of an era.  Leaves with large numbers go to SMT only: *)
(* the other prover writes numbers in unary.                               *)
(***************************************************************************)
EXTENDS Calendar, WellFoundedInduction, TLAPS

EraDays == 146097
InEra(e) == e \in Int /\ 0 <= e /\ e < EraDays
Zero == 719468

\* The first steps of civil_from_days.
EraOf(n) == Quotient(IF n >= 0 THEN n ELSE n - 146096, 146097)
YearOf(e) == (e - e \div 1460 + e \div 36524 - e \div 146096) \div 365
InYear(e, yoe) == e - (365 * yoe + yoe \div 4 - yoe \div 100)

\* The parts of a day of an era, and of a year.
EraParts(e, c, q, z, doy) ==
    /\ doy \in 0..365
    /\ e = 36524 * c + 1461 * q + 365 * z + doy
    /\ doy = 365 => z = 3 /\ (q < 24 \/ c = 3)
EraNumbers(e, c, q, z) == InEra(e) /\ YearOf(e) = 100 * c + 4 * q + z
YearParts(y, era, c, q, z) == y = 400 * era + 100 * c + 4 * q + z
YearNumbers(y, era, c, q, z) ==
    /\ y \div 4 = 100 * era + 25 * c + q
    /\ y \div 100 = 4 * era + c
    /\ y \div 400 = era
    /\ IsLeap(y + 1) <=> z = 3 /\ (q < 24 \/ c = 3)

\* What year y has before its first of March, counted from that of year 0, and
\* how long it is from there.
MarchFirst(y) == 365 * y + y \div 4 - y \div 100 + y \div 400
YearDays(y) == IF IsLeap(y + 1) THEN 366 ELSE 365

\* The day is the doy-th of year y.
On(days, y, doy) ==
    /\ y \in Int /\ doy \in 0..(YearDays(y) - 1)
    /\ days = MarchFirst(y) + doy - Zero

\* Its last steps.
MonthOf(doy) == LET mp == (5 * doy + 2) \div 153 IN IF mp < 10 THEN mp + 3 ELSE mp - 9
DayOf(doy) == doy - (153 * ((5 * doy + 2) \div 153) + 2) \div 5 + 1
DateOn(y, doy, wd) ==
    [y |-> y + (IF MonthOf(doy) <= 2 THEN 1 ELSE 0), m |-> MonthOf(doy), d |-> DayOf(doy), wd |-> wd]

----------------------------------------------------------------------------
(* Division by the constants of the code.                                  *)

\* A day of an era is in one of its centuries, of its groups of four years, of its years.
LEMMA PartsOfDay ==
  ASSUME NEW e, InEra(e)
  PROVE  \E c \in 0..3, q \in 0..24, z \in 0..3, doy \in Int : EraParts(e, c, q, z, doy)
<1>0. e \in Int /\ 0 <= e /\ e <= 146096
  BY SMTT(20) DEF InEra, EraDays
<1>1. PICK c \in 0..3 : c = IF e = 146096 THEN 3 ELSE e \div 36524
  BY <1>0, SMTT(20)
<1>2. PICK r \in Int : r = e - 36524 * c
  BY <1>0, SMTT(20)
<1>3. 0 <= r /\ r <= 36524 /\ (r = 36524 => c = 3)
  BY <1>0, <1>1, <1>2, SMTT(20)
<1>4. PICK q \in 0..24 : q = IF r = 36524 THEN 24 ELSE r \div 1461
  BY <1>3, SMTT(20)
<1>5. PICK s \in Int : s = r - 1461 * q
  BY SMTT(20)
<1>6. 0 <= s /\ s <= 1460 /\ (s = 1460 => q < 24 \/ c = 3)
  BY <1>3, <1>4, <1>5, SMTT(20)
<1>7. PICK z \in 0..3 : z = IF s = 1460 THEN 3 ELSE s \div 365
  BY <1>6, SMTT(20)
<1>8. PICK doy \in Int : doy = s - 365 * z
  BY SMTT(20)
<1>9. doy \in 0..365 /\ (doy = 365 => z = 3 /\ s = 1460)
  BY <1>6, <1>7, <1>8, SMTT(20)
<1>10. EraParts(e, c, q, z, doy)
  BY <1>0, <1>2, <1>5, <1>6, <1>8, <1>9, SMTT(20) DEF EraParts
<1>. QED
  BY <1>9, <1>10

\* The year of an era, as civil_from_days divides for it.
LEMMA YearOfParts ==
  ASSUME NEW c \in 0..3, NEW q \in 0..24, NEW z \in 0..3, NEW doy \in Int,
         NEW e \in Int, EraParts(e, c, q, z, doy)
  PROVE  EraNumbers(e, c, q, z)
<1>0. /\ doy \in 0..365
      /\ e = 36524 * c + 1461 * q + 365 * z + doy
      /\ doy = 365 => z = 3 /\ (q < 24 \/ c = 3)
  BY SMTT(20) DEF EraParts
<1>1. PICK s \in 0..1460 : s = 365 * z + doy
  BY <1>0, SMTT(20)
<1>2. PICK t \in 0..1 : t = IF 24 * c + q + s >= 1460 THEN 1 ELSE 0
  BY SMTT(20)
<1>3. e = 36524 * c + 1461 * q + s
  BY <1>0, <1>1, SMTT(20)
<1>4. e \div 1460 = 25 * c + q + t
  <2>1. 1460 * (25 * c + q + t) <= e
    BY <1>2, <1>3, SMTT(20)
  <2>2. e < 1460 * (25 * c + q + t) + 1460
    BY <1>2, <1>3, SMTT(20)
  <2>. QED
    BY <2>1, <2>2, SMTT(20)
<1>5. doy - t \in 0..364
  BY <1>0, <1>1, <1>2, SMTT(20)
<1>6. e = 365 * (100 * c + 4 * q + z) + 24 * c + q + doy
  BY <1>0, SMTT(20)
<1>7. CASE e = 146096
  <2>1. 100 * c + 4 * q + z = 399
    BY <1>0, <1>7, SMTT(20)
  <2>. QED
    BY <1>7, <2>1, SMTT(20) DEF YearOf, InEra, EraDays, EraNumbers
<1>8. CASE e # 146096
  <2>0. 1461 * q + s <= 36523
    BY <1>0, <1>1, <1>3, <1>8, SMTT(20)
  <2>1. e \div 36524 = c
    BY <1>3, <2>0, SMTT(20)
  <2>2. 0 <= e /\ e < 146096
    BY <1>3, <1>8, <2>0, SMTT(20)
  <2>3. e \div 146096 = 0
    BY <2>2, SMTT(20)
  <2>4. e - e \div 1460 + e \div 36524 - e \div 146096 = 365 * (100 * c + 4 * q + z) + (doy - t)
    BY <2>1, <2>3, <1>4, <1>6, SMTT(20)
  <2>5. YearOf(e) = 100 * c + 4 * q + z
    BY <2>4, <1>5, SMTT(20) DEF YearOf
  <2>. QED
    BY <2>2, <2>5, SMTT(20) DEF InEra, EraDays, EraNumbers
<1>. QED
  BY <1>7, <1>8, SMTT(20)

\* A year is in an era, a century and a group of four.
LEMMA PartsOfYear ==
  ASSUME NEW y \in Int
  PROVE  \E era \in Int, c \in 0..3, q \in 0..24, z \in 0..3 : YearParts(y, era, c, q, z)
<1>1. PICK era \in Int, n \in 0..399 : y = 400 * era + n
  <2>1. y \div 400 \in Int /\ (y % 400) \in 0..399 /\ y = 400 * (y \div 400) + (y % 400)
    BY SMTT(20)
  <2>. QED
    BY <2>1
<1>2. PICK c \in 0..3, r \in 0..99 : n = 100 * c + r
  <2>1. n \div 100 \in 0..3 /\ (n % 100) \in 0..99 /\ n = 100 * (n \div 100) + (n % 100)
    BY SMTT(20)
  <2>. QED
    BY <2>1
<1>3. PICK q \in 0..24, z \in 0..3 : r = 4 * q + z
  <2>1. r \div 4 \in 0..24 /\ (r % 4) \in 0..3 /\ r = 4 * (r \div 4) + (r % 4)
    BY SMTT(20)
  <2>. QED
    BY <2>1
<1>4. YearParts(y, era, c, q, z)
  BY <1>1, <1>2, <1>3, SMTT(20) DEF YearParts
<1>. QED
  BY <1>4

\* What division gives for a year of these parts, and when its February is long.
LEMMA NumbersOfYear ==
  ASSUME NEW era \in Int, NEW c \in 0..3, NEW q \in 0..24, NEW z \in 0..3,
         NEW y \in Int, YearParts(y, era, c, q, z)
  PROVE  YearNumbers(y, era, c, q, z)
<1>0. y = 400 * era + 100 * c + 4 * q + z
  BY DEF YearParts
<1>1. y \div 4 = 100 * era + 25 * c + q
  BY <1>0, SMTT(20)
<1>2. y \div 100 = 4 * era + c
  BY <1>0, SMTT(20)
<1>3. y \div 400 = era
  BY <1>0, SMTT(20)
<1>4. (y + 1) % 4 = 0 <=> z = 3
  BY <1>0, SMTT(20)
<1>5. (y + 1) % 100 = 0 <=> z = 3 /\ q = 24
  BY <1>0, SMTT(20)
<1>6. (y + 1) % 400 = 0 <=> z = 3 /\ q = 24 /\ c = 3
  BY <1>0, SMTT(20)
<1>. QED
  BY <1>1, <1>2, <1>3, <1>4, <1>5, <1>6, SMTT(20) DEF IsLeap, YearNumbers

\* Rust's division towards zero, as the code uses it, gives the era of days before it too.
LEMMA EraOfParts ==
  ASSUME NEW n \in Int, NEW era \in Int, InEra(n - era * EraDays)
  PROVE  EraOf(n) = era
<1>0. PICK e \in Int : e = n - era * 146097
  BY SMTT(20)
<1>1. 0 <= e /\ e <= 146096
  BY <1>0, SMTT(20) DEF InEra, EraDays
<1>2. CASE n >= 0
  <2>1. n \div 146097 = era
    BY <1>0, <1>1, SMTT(20)
  <2>. QED
    BY <2>1, <1>2, SMTT(20) DEF Quotient, EraOf
<1>3. CASE ~(n >= 0)
  <2>1. ~(n - 146096 >= 0)
    BY <1>3, SMTT(20)
  <2>2. (-(n - 146096)) \div 146097 = -era
    BY <1>0, <1>1, SMTT(20)
  <2>. QED
    BY <2>1, <2>2, <1>3, SMTT(20) DEF Quotient, EraOf
<1>. QED
  BY <1>2, <1>3, SMTT(20)

----------------------------------------------------------------------------
(* civil_from_days finds the date of the day.                              *)

\* Every day is in one year.
LEMMA EveryDay ==
  ASSUME NEW days \in Int
  PROVE  \E y \in Int, doy \in Int : On(days, y, doy)
<1>1. PICK era \in Int : era = (days + Zero) \div 146097
  BY SMTT(20) DEF Zero
<1>2. PICK e \in Int : e = days + Zero - era * EraDays
  BY SMTT(20) DEF Zero, EraDays
<1>3. InEra(e)
  BY <1>1, <1>2, SMTT(20) DEF InEra, EraDays, Zero
<1>4. PICK c \in 0..3, q \in 0..24, z \in 0..3, doy \in Int : EraParts(e, c, q, z, doy)
  BY <1>3, PartsOfDay
<1>5. PICK y \in Int : y = 400 * era + 100 * c + 4 * q + z
  BY SMTT(20)
<1>6. YearParts(y, era, c, q, z)
  BY <1>5 DEF YearParts
<1>7. YearNumbers(y, era, c, q, z)
  BY <1>6, NumbersOfYear
<1>8. MarchFirst(y) = 146097 * era + 36524 * c + 1461 * q + 365 * z
  BY <1>5, <1>7, SMTT(20) DEF MarchFirst, YearNumbers
<1>9. days = MarchFirst(y) + doy - Zero
  BY <1>2, <1>4, <1>8, SMTT(20) DEF EraParts, Zero, EraDays
<1>10. doy \in 0..(YearDays(y) - 1)
  BY <1>4, <1>7, SMTT(20) DEF YearDays, EraParts, YearNumbers
<1>. QED
  BY <1>9, <1>10 DEF On

\* civil_from_days gives the date of the day's place in its year.
LEMMA CivilIsDateOn ==
  ASSUME NEW days \in Int, NEW y \in Int, NEW doy \in Int, On(days, y, doy)
  PROVE  CivilFromDays(days) = DateOn(y, doy, ((days % 7) + 7 + 4) % 7)
<1>0. doy \in 0..(YearDays(y) - 1) /\ days = MarchFirst(y) + doy - Zero
  BY DEF On
<1>1. PICK era \in Int, c \in 0..3, q \in 0..24, z \in 0..3 : YearParts(y, era, c, q, z)
  BY PartsOfYear
<1>2. YearNumbers(y, era, c, q, z)
  BY <1>1, NumbersOfYear
<1>3. doy \in 0..365 /\ (doy = 365 => z = 3 /\ (q < 24 \/ c = 3))
  BY <1>0, <1>2, SMTT(20) DEF YearDays, YearNumbers
<1>4. PICK e \in Int : e = 36524 * c + 1461 * q + 365 * z + doy
  BY SMTT(20)
<1>5. EraParts(e, c, q, z, doy)
  BY <1>3, <1>4, SMTT(20) DEF EraParts
<1>6. EraNumbers(e, c, q, z)
  BY <1>5, YearOfParts
<1>7. PICK n \in Int : n = days + Zero
  BY SMTT(20) DEF Zero
<1>8. n - era * EraDays = e
  BY <1>0, <1>1, <1>2, <1>4, <1>7, SMTT(20) DEF MarchFirst, Zero, EraDays, YearParts, YearNumbers
<1>9. EraOf(n) = era
  BY <1>6, <1>8, EraOfParts DEF EraNumbers
<1>10. PICK yoe \in 0..399 : yoe = 100 * c + 4 * q + z
  BY SMTT(20)
<1>11. InYear(e, yoe) = doy
  BY <1>3, <1>4, <1>10, SMTT(20) DEF InYear
<1>12. yoe + era * 400 = y
  BY <1>1, <1>10, SMTT(20) DEF YearParts
<1>13. days + 719468 = n /\ n - era * 146097 = e
  BY <1>7, <1>8, SMTT(20) DEF Zero, EraDays
<1>14. YearOf(e) = yoe
  BY <1>6, <1>10, SMTT(20) DEF EraNumbers
<1>. DEFINE N == days + 719468
            E == N - EraOf(N) * 146097
<1>15. CivilFromDays(days) = DateOn(YearOf(E) + EraOf(N) * 400, InYear(E, YearOf(E)),
                                    ((days % 7) + 7 + 4) % 7)
  BY SMTT(20) DEF CivilFromDays, DateOn, MonthOf, DayOf, EraOf, YearOf, InYear
<1>16. N = n
  BY <1>13, SMTT(20)
<1>17. E = e
  BY <1>9, <1>13, <1>16, SMTT(20)
<1>. HIDE DEF N, E
<1>. QED
  BY <1>9, <1>11, <1>12, <1>14, <1>15, <1>16, <1>17, SMTT(20)


----------------------------------------------------------------------------
(* Months.                                                                 *)

\* The days of a year from March to February, by month.
Months(doy, m, d) ==
    \/ doy \in 0..30 /\ m = 3 /\ d = doy + 1
    \/ doy \in 31..60 /\ m = 4 /\ d = doy - 31 + 1
    \/ doy \in 61..91 /\ m = 5 /\ d = doy - 61 + 1
    \/ doy \in 92..121 /\ m = 6 /\ d = doy - 92 + 1
    \/ doy \in 122..152 /\ m = 7 /\ d = doy - 122 + 1
    \/ doy \in 153..183 /\ m = 8 /\ d = doy - 153 + 1
    \/ doy \in 184..213 /\ m = 9 /\ d = doy - 184 + 1
    \/ doy \in 214..244 /\ m = 10 /\ d = doy - 214 + 1
    \/ doy \in 245..274 /\ m = 11 /\ d = doy - 245 + 1
    \/ doy \in 275..305 /\ m = 12 /\ d = doy - 275 + 1
    \/ doy \in 306..336 /\ m = 1 /\ d = doy - 306 + 1
    \/ doy \in 337..365 /\ m = 2 /\ d = doy - 337 + 1

\* Its formulas for the month and the day are the table of months from March on.
LEMMA MonthTable ==
  ASSUME NEW doy \in Int, doy \in 0..365
  PROVE  Months(doy, MonthOf(doy), DayOf(doy))
<1>1. PICK mp \in 0..11 : mp = (5 * doy + 2) \div 153
  BY SMTT(20)
<1>2. CASE mp = 0
  BY <1>1, <1>2, SMTT(20) DEF Months, MonthOf, DayOf
<1>3. CASE mp = 1
  BY <1>1, <1>3, SMTT(20) DEF Months, MonthOf, DayOf
<1>4. CASE mp = 2
  BY <1>1, <1>4, SMTT(20) DEF Months, MonthOf, DayOf
<1>5. CASE mp = 3
  BY <1>1, <1>5, SMTT(20) DEF Months, MonthOf, DayOf
<1>6. CASE mp = 4
  BY <1>1, <1>6, SMTT(20) DEF Months, MonthOf, DayOf
<1>7. CASE mp = 5
  BY <1>1, <1>7, SMTT(20) DEF Months, MonthOf, DayOf
<1>8. CASE mp = 6
  BY <1>1, <1>8, SMTT(20) DEF Months, MonthOf, DayOf
<1>9. CASE mp = 7
  BY <1>1, <1>9, SMTT(20) DEF Months, MonthOf, DayOf
<1>10. CASE mp = 8
  BY <1>1, <1>10, SMTT(20) DEF Months, MonthOf, DayOf
<1>11. CASE mp = 9
  BY <1>1, <1>11, SMTT(20) DEF Months, MonthOf, DayOf
<1>12. CASE mp = 10
  BY <1>1, <1>12, SMTT(20) DEF Months, MonthOf, DayOf
<1>13. CASE mp = 11
  BY <1>1, <1>13, SMTT(20) DEF Months, MonthOf, DayOf
<1>. QED
  BY <1>2, <1>3, <1>4, <1>5, <1>6, <1>7, <1>8, <1>9, <1>10, <1>11, <1>12, <1>13, SMTT(20)

\* So they are a month and a day.
LEMMA MonthAndDay ==
  ASSUME NEW doy \in Int, doy \in 0..365
  PROVE  MonthOf(doy) \in 1..12 /\ DayOf(doy) \in 1..31
<1>. QED
  BY MonthTable, SMTT(20) DEF Months

\* The next first of March.
LEMMA NextMarch ==
  ASSUME NEW y \in Int
  PROVE  MarchFirst(y + 1) = MarchFirst(y) + YearDays(y)
<1>1. (y + 1) \div 4 = y \div 4 + (IF (y + 1) % 4 = 0 THEN 1 ELSE 0)
  BY SMTT(20)
<1>2. (y + 1) \div 100 = y \div 100 + (IF (y + 1) % 100 = 0 THEN 1 ELSE 0)
  BY SMTT(20)
<1>3. (y + 1) \div 400 = y \div 400 + (IF (y + 1) % 400 = 0 THEN 1 ELSE 0)
  BY SMTT(20)
<1>4. (y + 1) % 400 = 0 => (y + 1) % 100 = 0
  BY SMTT(20)
<1>5. (y + 1) % 100 = 0 => (y + 1) % 4 = 0
  BY SMTT(20)
<1>. QED
  BY <1>1, <1>2, <1>3, <1>4, <1>5, SMTT(20) DEF MarchFirst, YearDays, IsLeap

\* The day after one of the year y.
LEMMA NextOfYear ==
  ASSUME NEW y \in Int, NEW doy \in Int, doy \in 0..(YearDays(y) - 1), NEW wd \in Int
  PROVE  NextDay(DateOn(y, doy, wd)) =
            IF doy + 1 < YearDays(y) THEN DateOn(y, doy + 1, (wd + 1) % 7) ELSE DateOn(y + 1, 0, (wd + 1) % 7)
<1>1. doy \in 0..365 /\ (IsLeap(y + 1) <=> YearDays(y) = 366) /\ YearDays(y) \in {365, 366}
  BY SMTT(20) DEF YearDays
<1>2. PICK m \in Int, d \in Int : m = MonthOf(doy) /\ d = DayOf(doy)
  BY <1>1, MonthAndDay, SMTT(20)
<1>3. Months(doy, m, d)
  BY <1>1, <1>2, MonthTable
<1>4. PICK w \in Int : w = (wd + 1) % 7
  BY SMTT(20)
<1>5. CASE doy + 1 < YearDays(y)
  <2>1. doy + 1 \in 0..365
    BY <1>1, <1>5, SMTT(20)
  <2>2. PICK m1 \in Int, d1 \in Int : m1 = MonthOf(doy + 1) /\ d1 = DayOf(doy + 1)
    BY <2>1, MonthAndDay, SMTT(20)
  <2>3. Months(doy + 1, m1, d1)
    BY <2>1, <2>2, MonthTable
  <2>4. CASE d1 = d + 1
    <3>1. m1 = m
      BY <1>1, <1>3, <1>5, <2>3, <2>4, SMTT(20) DEF Months
    <3>2. d < MonthDays(IF m <= 2 THEN y + 1 ELSE y, m)
      BY <1>1, <1>3, <1>5, <2>3, <2>4, SMTT(20) DEF Months, MonthDays
    <3>3. PICK yy \in Int : yy = IF m <= 2 THEN y + 1 ELSE y
      BY SMTT(20)
    <3>4. DateOn(y, doy, wd) = [y |-> yy, m |-> m, d |-> d, wd |-> wd]
      BY <1>2, <3>3, SMTT(20) DEF DateOn
    <3>5. NextDay(DateOn(y, doy, wd)) = [y |-> yy, m |-> m, d |-> d + 1, wd |-> w]
      <4>1. d < MonthDays(yy, m)
        BY <3>2, <3>3, SMTT(20)
      <4>. QED
        BY <1>4, <3>4, <4>1, SMTT(20) DEF NextDay
    <3>6. DateOn(y, doy + 1, w) = [y |-> yy, m |-> m, d |-> d + 1, wd |-> w]
      BY <2>2, <2>4, <3>1, <3>3, SMTT(20) DEF DateOn
    <3>. QED
      BY <1>4, <1>5, <3>5, <3>6
  <2>5. CASE d1 # d + 1
    <3>1. d1 = 1 /\ m # 2 /\ m1 = IF m = 12 THEN 1 ELSE m + 1
      BY <1>1, <1>3, <1>5, <2>3, <2>5, SMTT(20) DEF Months
    <3>2. d = MonthDays(IF m <= 2 THEN y + 1 ELSE y, m)
      BY <1>1, <1>3, <1>5, <2>3, <2>5, SMTT(20) DEF Months, MonthDays
    <3>3. m \in 1..12
      BY <1>1, <1>2, MonthAndDay
    <3>4. PICK yy \in Int : yy = IF m <= 2 THEN y + 1 ELSE y
      BY SMTT(20)
    <3>5. DateOn(y, doy, wd) = [y |-> yy, m |-> m, d |-> d, wd |-> wd]
      BY <1>2, <3>4, SMTT(20) DEF DateOn
    <3>6. CASE m = 12
      <4>1. NextDay(DateOn(y, doy, wd)) = [y |-> y + 1, m |-> 1, d |-> 1, wd |-> w]
        BY <1>4, <3>2, <3>4, <3>5, <3>6, SMTT(20) DEF NextDay
      <4>2. DateOn(y, doy + 1, w) = [y |-> y + 1, m |-> 1, d |-> 1, wd |-> w]
        BY <2>2, <3>1, <3>6, SMTT(20) DEF DateOn
      <4>. QED
        BY <1>4, <1>5, <4>1, <4>2
    <3>7. CASE m # 12
      <4>1. NextDay(DateOn(y, doy, wd)) = [y |-> yy, m |-> m + 1, d |-> 1, wd |-> w]
        BY <1>4, <3>2, <3>3, <3>4, <3>5, <3>7, SMTT(20) DEF NextDay
      <4>2. DateOn(y, doy + 1, w) = [y |-> yy, m |-> m + 1, d |-> 1, wd |-> w]
        BY <2>2, <3>1, <3>4, <3>7, SMTT(20) DEF DateOn
      <4>. QED
        BY <1>4, <1>5, <4>1, <4>2
    <3>. QED
      BY <3>6, <3>7
  <2>. QED
    BY <2>4, <2>5
<1>6. CASE ~(doy + 1 < YearDays(y))
  <2>1. m = 2 /\ doy = YearDays(y) - 1 /\ d = doy - 336
    BY <1>1, <1>3, <1>6, SMTT(20) DEF Months
  <2>2. d = MonthDays(y + 1, 2)
    BY <1>1, <2>1, SMTT(20) DEF MonthDays
  <2>3. MonthOf(0) = 3 /\ DayOf(0) = 1
    BY SMTT(20) DEF MonthOf, DayOf
  <2>. QED
    BY <1>2, <1>4, <1>6, <2>1, <2>2, <2>3, SMTT(20) DEF DateOn, NextDay
<1>. QED
  BY <1>5, <1>6

----------------------------------------------------------------------------
(* The theorems.                                                           *)

\* civil_from_days steps through the calendar: the next day has the next date.
THEOREM CivilFollowsCalendar ==
  ASSUME NEW days \in Int
  PROVE  CivilFromDays(days + 1) = NextDay(CivilFromDays(days))
<1>. DEFINE wd == ((days % 7) + 7 + 4) % 7
<1>1. PICK y \in Int, doy \in Int : On(days, y, doy)
  BY EveryDay
<1>2. CivilFromDays(days) = DateOn(y, doy, wd)
  BY <1>1, CivilIsDateOn
<1>3. doy \in 0..(YearDays(y) - 1) /\ days = MarchFirst(y) + doy - Zero
  BY <1>1 DEF On
<1>4. wd \in Int /\ (((days + 1) % 7) + 7 + 4) % 7 = (wd + 1) % 7
  BY SMTT(20)
<1>5. YearDays(y) \in {365, 366} /\ MarchFirst(y) \in Int
  BY SMTT(20) DEF YearDays, MarchFirst
<1>. HIDE DEF wd
<1>6. CASE doy + 1 < YearDays(y)
  <2>1. On(days + 1, y, doy + 1) /\ doy + 1 \in Int /\ days + 1 \in Int
    BY <1>3, <1>5, <1>6, SMTT(20) DEF On, Zero
  <2>2. CivilFromDays(days + 1) = DateOn(y, doy + 1, (((days + 1) % 7) + 7 + 4) % 7)
    BY <2>1, CivilIsDateOn
  <2>. QED
    BY <1>2, <1>3, <1>4, <1>6, <2>2, NextOfYear, SMTT(20)
<1>7. CASE ~(doy + 1 < YearDays(y))
  <2>1. MarchFirst(y + 1) = MarchFirst(y) + YearDays(y)
    BY NextMarch
  <2>2. On(days + 1, y + 1, 0) /\ y + 1 \in Int /\ days + 1 \in Int
    BY <1>3, <1>5, <1>7, <2>1, SMTT(20) DEF On, Zero, YearDays
  <2>3. CivilFromDays(days + 1) = DateOn(y + 1, 0, (((days + 1) % 7) + 7 + 4) % 7)
    BY <2>2, CivilIsDateOn
  <2>. QED
    BY <1>2, <1>3, <1>4, <1>7, <2>3, NextOfYear, SMTT(20)
<1>. QED
  BY <1>6, <1>7

\* days_from_civil undoes civil_from_days.
THEOREM DaysOfCivil ==
  ASSUME NEW days \in Int
  PROVE  DaysFromCivil(CivilFromDays(days)) = days
<1>. DEFINE wd == ((days % 7) + 7 + 4) % 7
<1>1. PICK y \in Int, doy \in Int : On(days, y, doy)
  BY EveryDay
<1>2. CivilFromDays(days) = DateOn(y, doy, wd)
  BY <1>1, CivilIsDateOn
<1>. HIDE DEF wd
<1>3. doy \in 0..365 /\ days = MarchFirst(y) + doy - Zero
  BY <1>1, SMTT(20) DEF On, YearDays
<1>4. PICK m \in Int, d \in Int : m = MonthOf(doy) /\ d = DayOf(doy)
  BY <1>3, MonthAndDay, SMTT(20)
<1>5. Months(doy, m, d)
  BY <1>3, <1>4, MonthTable
<1>6. (153 * (IF m > 2 THEN m - 3 ELSE m + 9) + 2) \div 5 + d - 1 = doy
  BY <1>3, <1>5, SMTT(20) DEF Months
<1>7. PICK yy \in Int : yy = IF m <= 2 THEN y + 1 ELSE y
  BY SMTT(20)
<1>8. DateOn(y, doy, wd) = [y |-> yy, m |-> m, d |-> d, wd |-> wd]
  BY <1>4, <1>7, SMTT(20) DEF DateOn
<1>9. (IF m <= 2 THEN yy - 1 ELSE yy) = y
  BY <1>7, SMTT(20)
<1>10. PICK era \in Int : era = y \div 400
  BY SMTT(20)
<1>11. Quotient(IF y >= 0 THEN y ELSE y - 399, 400) = era
  BY <1>10, SMTT(20) DEF Quotient
<1>12. PICK yoe \in Int : yoe = y - era * 400
  BY SMTT(20)
<1>13. era * 146097 + yoe * 365 + yoe \div 4 - yoe \div 100 = MarchFirst(y)
  BY <1>10, <1>12, SMTT(20) DEF MarchFirst
<1>14. PICK date : date = [y |-> yy, m |-> m, d |-> d, wd |-> wd]
  OBVIOUS
<1>15. date.y = yy /\ date.m = m /\ date.d = d
  BY <1>14
<1>. DEFINE Y == IF date.m <= 2 THEN date.y - 1 ELSE date.y
            G == Quotient(IF Y >= 0 THEN Y ELSE Y - 399, 400)
            O == Y - G * 400
            P == (153 * (IF date.m > 2 THEN date.m - 3 ELSE date.m + 9) + 2) \div 5 + date.d - 1
<1>16. DaysFromCivil(date) = G * 146097 + O * 365 + O \div 4 - O \div 100 + P - 719468
  BY SMTT(20) DEF DaysFromCivil
<1>17. Y = y /\ P = doy
  BY <1>6, <1>9, <1>15, SMTT(20)
<1>. HIDE DEF Y, P
<1>18. G = era
  BY <1>11, <1>17, SMTT(20)
<1>. HIDE DEF G
<1>19. O = yoe
  BY <1>12, <1>17, <1>18, SMTT(20)
<1>. HIDE DEF O
<1>20. DaysFromCivil(date) = MarchFirst(y) + doy - Zero
  BY <1>13, <1>16, <1>17, <1>18, <1>19, SMTT(20) DEF Zero
<1>. QED
  BY <1>2, <1>3, <1>8, <1>14, <1>20

\* The day zero is the first of January 1970, a Thursday.
THEOREM CivilEpoch == CivilFromDays(0) = Epoch
<1>1. EraOf(719468) = 4
  BY SMTT(20) DEF EraOf, Quotient
<1>2. YearOf(135080) = 369 /\ InYear(135080, 369) = 306
  BY SMTT(20) DEF YearOf, InYear
<1>3. MonthOf(306) = 1 /\ DayOf(306) = 1
  BY SMTT(20) DEF MonthOf, DayOf
<1>. QED
  BY SMTT(20) DEF CivilFromDays, Epoch, Quotient

\* Its dates exist.
THEOREM CivilIsDate ==
  ASSUME NEW days \in Int
  PROVE  LET date == CivilFromDays(days) IN
         date.y \in Int /\ date.m \in 1..12 /\ date.d \in 1..MonthDays(date.y, date.m)
<1>1. PICK y \in Int, doy \in Int : On(days, y, doy)
  BY EveryDay
<1>2. CivilFromDays(days) = DateOn(y, doy, ((days % 7) + 7 + 4) % 7)
  BY <1>1, CivilIsDateOn
<1>3. doy \in 0..(YearDays(y) - 1) /\ doy \in 0..365
  BY <1>1, SMTT(20) DEF On, YearDays
<1>4. PICK m \in Int, d \in Int : m = MonthOf(doy) /\ d = DayOf(doy)
  BY <1>3, MonthAndDay, SMTT(20)
<1>5. Months(doy, m, d)
  BY <1>3, <1>4, MonthTable
<1>6. PICK yy \in Int : yy = IF m <= 2 THEN y + 1 ELSE y
  BY SMTT(20)
<1>7. m \in 1..12 /\ d \in 1..MonthDays(yy, m)
  BY <1>3, <1>5, <1>6, SMTT(20) DEF Months, MonthDays, YearDays
<1>. QED
  BY <1>2, <1>4, <1>6, <1>7, SMTT(20) DEF DateOn

\* A set of natural numbers that is not empty has a least one.
LEMMA Least ==
  ASSUME NEW S \in SUBSET Nat, S # {}
  PROVE  \E n \in S : \A k \in S : n <= k
<1>1. \E n \in S : \A k \in S : <<k, n>> \notin OpToRel(<, Nat)
  BY NatLessThanWellFounded, WFMin
<1>2. PICK n \in S : \A k \in S : <<k, n>> \notin OpToRel(<, Nat)
  BY <1>1, Zenon
<1>3. ASSUME NEW k \in S PROVE n <= k
  <2>1. <<k, n>> \notin {ss \in Nat \X Nat : ss[1] < ss[2]}
    BY <1>2, Zenon DEF OpToRel
  <2>2. k \in Nat /\ n \in Nat
    OBVIOUS
  <2>. QED
    BY <2>1, <2>2, SMTT(20)
<1>. QED
  BY <1>3

\* Who counts the days on the calendar, from the epoch, counts civil_from_days.
THEOREM CivilCounts ==
  ASSUME NEW count, count[0] = Epoch, \A n \in Nat : count[n + 1] = NextDay(count[n])
  PROVE  \A n \in Nat : CivilFromDays(n) = count[n]
<1>. DEFINE Wrong == {n \in Nat : CivilFromDays(n) # count[n]}
<1>1. SUFFICES ASSUME Wrong # {} PROVE FALSE
  OBVIOUS
<1>2. PICK n \in Wrong : \A k \in Wrong : n <= k
  BY <1>1, Least, Zenon
<1>3. n \in Nat /\ n # 0
  BY CivilEpoch, Zenon
<1>4. PICK p \in Nat : n = p + 1
  <2>1. n - 1 \in Nat /\ n = (n - 1) + 1
    BY <1>3, SMTT(20)
  <2>. QED
    BY <2>1, Zenon
<1>5. p \in Int /\ ~(n <= p)
  BY <1>4, SMTT(20)
<1>6. CivilFromDays(p) = count[p]
  BY <1>2, <1>5, Zenon
<1>. QED
  BY <1>4, <1>5, <1>6, CivilFollowsCalendar, Zenon

=============================================================================
