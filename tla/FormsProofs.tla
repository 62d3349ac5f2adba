---------------------------- MODULE FormsProofs ----------------------------
(***************************************************************************)
(* Theorems about the pure functions, for all their inputs where the runs  *)
(* take samples.                                                           *)
(***************************************************************************)
EXTENDS MCForms, TLAPS, FiniteSetTheorems

-----------------------------------------------------------------------------
(***************************************************************************)
(* The calendar.  Days are counted in years that begin in March and in     *)
(* eras of 400 such years, so that a leap day is the last day of a year.   *)
(***************************************************************************)

\* A day of year `yoe` of an era; only a leap year has a day 365.
DayOfYear(yoe, doy) ==
  /\ yoe \in 0 .. 399 /\ doy \in 0 .. 365
  /\ doy = 365 => (yoe + 1) % 4 = 0 /\ ((yoe + 1) % 100 # 0 \/ yoe = 399)

DayOfEra(yoe, doy) == yoe * 365 + yoe \div 4 - yoe \div 100 + doy

\* The parts of a date.
MarchYear(y, m) == IF m <= 2 THEN y - 1 ELSE y
EraOf(y, m) == MarchYear(y, m) \div 400
YearInEra(y, m) == MarchYear(y, m) - EraOf(y, m) * 400
MarchMonth(m) == (m + 9) % 12
FirstOfMonth(m) == (153 * MarchMonth(m) + 2) \div 5
DayInYear(m, d) == FirstOfMonth(m) + d - 1
MonthOfDay(doy) == (5 * doy + 2) \div 153

\* The day of the era tells the year of the era.
LEMMA YearOfEra ==
  ASSUME NEW yoe, NEW doy, DayOfYear(yoe, doy), NEW doe, doe = DayOfEra(yoe, doy)
  PROVE  /\ doe \in Int /\ 0 <= doe /\ doe < 146097
         /\ (doe - doe \div 1460 + doe \div 36524 - doe \div 146096) \div 365 = yoe
<1>1. doe \in Int /\ yoe \in 0 .. 399 /\ doy \in 0 .. 365
  BY DEF DayOfYear, DayOfEra
<1>2. 0 <= doe /\ doe < 146097
  BY <1>1, SMTT(60) DEF DayOfYear, DayOfEra
<1>3. (doe - doe \div 1460 + doe \div 36524 - doe \div 146096) \div 365 = yoe
  BY <1>1, SMTT(120) DEF DayOfYear, DayOfEra
<1>4. QED
  BY <1>1, <1>2, <1>3

\* The date of a day given by its era, year and day of the year.
LEMMA CivilOfEra ==
  ASSUME NEW era \in Nat, NEW yoe, NEW doy, DayOfYear(yoe, doy)
  PROVE  LET mp == MonthOfDay(doy)
             m == IF mp < 10 THEN mp + 3 ELSE mp - 9
         IN CivilFromDays(era * 146097 + DayOfEra(yoe, doy) - 719468)
              = Date(yoe + era * 400 + (IF m <= 2 THEN 1 ELSE 0), m, doy - (153 * mp + 2) \div 5 + 1)
<1> DEFINE doe == DayOfEra(yoe, doy)
           days == era * 146097 + doe - 719468
           z == days + 719468
<1>1. /\ doe \in Int /\ 0 <= doe /\ doe < 146097
      /\ (doe - doe \div 1460 + doe \div 36524 - doe \div 146096) \div 365 = yoe
  BY YearOfEra
<1> HIDE DEF doe
<1>2. z = era * 146097 + doe
  BY <1>1
<1>3. z \div 146097 = era
  BY <1>1, <1>2, SMTT(60)
<1>4. z - era * 146097 = doe
  BY <1>1, <1>2
<1>5. doe - (365 * yoe + yoe \div 4 - yoe \div 100) = doy
  BY DEF doe, DayOfEra, DayOfYear
<1> HIDE DEF days
<1>6. QED
  BY <1>1, <1>3, <1>4, <1>5 DEF CivilFromDays, days, doe, MonthOfDay

\* A real date as the count takes it apart.
LEMMA CivilParts ==
  ASSUME NEW y \in Nat, y >= 1, NEW m \in 1 .. 12, NEW d \in Nat, 1 <= d, d <= MonthLength(y, m)
  PROVE  /\ EraOf(y, m) \in Nat
         /\ DayOfYear(YearInEra(y, m), DayInYear(m, d))
         /\ MonthOfDay(DayInYear(m, d)) = MarchMonth(m)
         /\ DaysFromCivil(Date(y, m, d))
              = EraOf(y, m) * 146097 + DayOfEra(YearInEra(y, m), DayInYear(m, d)) - 719468
<1> DEFINE march == MarchYear(y, m)
           era == EraOf(y, m)
           yoe == YearInEra(y, m)
           doy == DayInYear(m, d)
<1>1. march \in Nat /\ era = march \div 400 /\ yoe = march - era * 400
  BY DEF MarchYear, EraOf, YearInEra
<1>2. era \in Nat /\ yoe \in 0 .. 399
  BY <1>1
<1>3. /\ d \in 1 .. 31
      /\ m \in {4, 6, 9, 11} => d <= 30
      /\ m = 2 => d <= 29 /\ (d = 29 => IsLeap(y))
  BY DEF MonthLength
<1>4. /\ doy \in 0 .. 365
      /\ MonthOfDay(doy) = MarchMonth(m)
      /\ doy = 365 => m = 2 /\ d = 29
  BY <1>3, SMTT(60) DEF DayInYear, MonthOfDay, FirstOfMonth, MarchMonth
<1>5. ASSUME doy = 365 PROVE (yoe + 1) % 4 = 0 /\ ((yoe + 1) % 100 # 0 \/ yoe = 399)
  <2>1. IsLeap(y) /\ y = march + 1
    BY <1>3, <1>4, <1>5 DEF MarchYear
  <2>2. y = yoe + 1 + era * 400
    BY <1>1, <1>2, <2>1
  <2> HIDE DEF yoe, era
  <2>3. QED
    BY <1>2, <2>1, <2>2, SMTT(60) DEF IsLeap
<1>6. DayOfYear(yoe, doy)
  BY <1>2, <1>4, <1>5 DEF DayOfYear
<1>7. DaysFromCivil(Date(y, m, d)) = era * 146097 + DayOfEra(yoe, doy) - 719468
  BY <1>1, <1>2, <1>4
  DEF DaysFromCivil, Date, DayOfEra, MarchYear, DayInYear, FirstOfMonth, MarchMonth
<1>8. QED
  BY <1>2, <1>4, <1>6, <1>7

\* Every real date is read back from its day.
LEMMA CivilReadBack ==
  ASSUME NEW y \in Nat, y >= 1, NEW m \in 1 .. 12, NEW d \in Nat, 1 <= d, d <= MonthLength(y, m)
  PROVE  /\ DaysFromCivil(Date(y, m, d)) \in Int
         /\ CivilFromDays(DaysFromCivil(Date(y, m, d))) = Date(y, m, d)
<1> DEFINE era == EraOf(y, m)
           yoe == YearInEra(y, m)
           doy == DayInYear(m, d)
           mp == MonthOfDay(doy)
<1>1. /\ era \in Nat
      /\ DayOfYear(yoe, doy)
      /\ mp = MarchMonth(m)
      /\ DaysFromCivil(Date(y, m, d)) = era * 146097 + DayOfEra(yoe, doy) - 719468
  BY CivilParts
<1>2. (IF mp < 10 THEN mp + 3 ELSE mp - 9) = m
  BY <1>1 DEF MarchMonth
<1>3. doy - (153 * mp + 2) \div 5 + 1 = d
  BY <1>1 DEF DayInYear, FirstOfMonth, MarchMonth
<1>4. yoe \in 0 .. 399 /\ yoe + era * 400 + (IF m <= 2 THEN 1 ELSE 0) = y
  BY <1>1 DEF DayOfYear, YearInEra, MarchYear
<1>5. CivilFromDays(era * 146097 + DayOfEra(yoe, doy) - 719468)
        = Date(yoe + era * 400 + (IF (IF mp < 10 THEN mp + 3 ELSE mp - 9) <= 2 THEN 1 ELSE 0),
               IF mp < 10 THEN mp + 3 ELSE mp - 9,
               doy - (153 * mp + 2) \div 5 + 1)
  BY <1>1, CivilOfEra
<1>6. DayOfEra(yoe, doy) \in Int
  BY <1>1, YearOfEra
<1> HIDE DEF era, yoe, doy, mp
<1>7. QED
  BY <1>1, <1>2, <1>3, <1>4, <1>5, <1>6

\* The days before the year `march`, which begins on its first of March.
YearStart(march) ==
  (march \div 400) * 146097 + DayOfEra(march - (march \div 400) * 400, 0)

YearLength(y) == IF IsLeap(y) THEN 366 ELSE 365

\* The first of March of the year 0 to 1970-01-01.
EpochDay == 719468

\* The day of a date is that of its year and that of the date in the year.
LEMMA DaysOfYear ==
  ASSUME NEW y \in Nat, y >= 1, NEW m \in 1 .. 12, NEW d \in Nat
  PROVE  /\ MarchYear(y, m) \in Nat
         /\ YearStart(MarchYear(y, m)) \in Int
         /\ DayInYear(m, d) \in Int
         /\ DaysFromCivil(Date(y, m, d)) = YearStart(MarchYear(y, m)) + DayInYear(m, d) - EpochDay
<1> DEFINE march == MarchYear(y, m)
           era == march \div 400
           yoe == march - era * 400
           doy == DayInYear(m, d)
<1>1. march \in Nat
  BY DEF MarchYear
<1>2. era \in Nat /\ yoe \in Nat /\ doy \in Int
  BY <1>1 DEF DayInYear, FirstOfMonth, MarchMonth
<1>3. DaysFromCivil(Date(y, m, d)) = era * 146097 + yoe * 365 + yoe \div 4 - yoe \div 100 + doy - EpochDay
  BY <1>1, <1>2, SMTT(30) DEF DaysFromCivil, Date, MarchYear, DayInYear, FirstOfMonth, MarchMonth, EpochDay
<1>4. YearStart(march) = era * 146097 + (yoe * 365 + yoe \div 4 - yoe \div 100 + 0)
  BY DEF YearStart, DayOfEra
<1> HIDE DEF march, era, yoe, doy
<1>5. YearStart(march) \in Int /\ DaysFromCivil(Date(y, m, d)) = YearStart(march) + doy - EpochDay
  BY <1>2, <1>3, <1>4, SMT DEF EpochDay
<1>6. QED
  BY <1>1, <1>2, <1>5, SMT DEF march, doy

\* The leap days of the eras, centuries and quads add up.
LEMMA YearStartSum ==
  ASSUME NEW march \in Nat
  PROVE  YearStart(march) = 365 * march + march \div 4 - march \div 100 + march \div 400
  BY SMTT(60) DEF YearStart, DayOfEra

\* A year that begins in March is as long as its last February says.
LEMMA YearStarts ==
  ASSUME NEW y \in Nat, y >= 1
  PROVE  /\ YearStart(y - 1) \in Int /\ YearStart(y) \in Int
         /\ YearStart(y) = YearStart(y - 1) + YearLength(y)
<1>1. PICK p \in Nat : p = y - 1
  OBVIOUS
<1>2. /\ YearStart(y) = 365 * y + y \div 4 - y \div 100 + y \div 400
      /\ YearStart(p) = 365 * p + p \div 4 - p \div 100 + p \div 400
  BY YearStartSum
<1>3. /\ y \div 4 - p \div 4 = IF y % 4 = 0 THEN 1 ELSE 0
      /\ y \div 100 - p \div 100 = IF y % 100 = 0 THEN 1 ELSE 0
      /\ y \div 400 - p \div 400 = IF y % 400 = 0 THEN 1 ELSE 0
  BY <1>1, SMTT(60)
<1>4. (y % 400 = 0 => y % 100 = 0) /\ (y % 100 = 0 => y % 4 = 0)
  BY SMTT(60)
<1>5. YearStart(y) = YearStart(p) + YearLength(y) /\ YearStart(p) \in Int /\ YearStart(y) \in Int
  BY <1>1, <1>2, <1>3, <1>4, SMTT(60) DEF YearLength, IsLeap
<1>6. QED
  BY <1>1, <1>5

\* The first of a month follows the last of the month before.
LEMMA NextMonth ==
  ASSUME NEW y \in Nat, y >= 1, NEW m \in 1 .. 12, NEW k \in 1 .. 12, k = m + 1,
         NEW d \in Nat, d = MonthLength(y, m)
  PROVE  YearStart(MarchYear(y, k)) + DayInYear(k, 1) = YearStart(MarchYear(y, m)) + DayInYear(m, d) + 1
<1>0. YearStart(MarchYear(y, m)) \in Int /\ YearStart(MarchYear(y, k)) \in Int
  BY DaysOfYear
<1>1. CASE m = 2
  <2>1. MarchYear(y, m) = y - 1 /\ MarchYear(y, k) = y
    BY <1>1 DEF MarchYear
  <2>2. DayInYear(k, 1) = 0 /\ DayInYear(m, d) = YearLength(y) - 1
    BY <1>1 DEF DayInYear, FirstOfMonth, MarchMonth, YearLength, MonthLength
  <2>3. /\ YearStart(y) = YearStart(y - 1) + YearLength(y)
        /\ YearStart(y - 1) \in Int /\ YearLength(y) \in Int
    BY YearStarts DEF YearLength
  <2>4. QED
    BY <2>1, <2>2, <2>3
<1>2. CASE m # 2
  <2>1. MarchYear(y, k) = MarchYear(y, m)
    BY <1>2 DEF MarchYear
  <2>2. DayInYear(k, 1) = DayInYear(m, d) + 1 /\ DayInYear(m, d) \in Int
    BY <1>2, SMTT(60) DEF DayInYear, FirstOfMonth, MarchMonth, MonthLength
  <2>3. QED
    BY <1>0, <2>1, <2>2
<1>3. QED
  BY <1>1, <1>2

\* A date of the calendar.
RealDate(date) ==
  \E y \in Nat, m \in 1 .. 12, d \in Nat :
    /\ y >= 1 /\ 1 <= d /\ d <= MonthLength(y, m)
    /\ date = Date(y, m, d)

\* The calendar day by day and the count agree.
LEMMA DayAfterCounted ==
  ASSUME NEW y \in Nat, y >= 1, NEW m \in 1 .. 12, NEW d \in Nat, 1 <= d, d <= MonthLength(y, m)
  PROVE  /\ RealDate(DayAfter(Date(y, m, d)))
         /\ DaysFromCivil(DayAfter(Date(y, m, d))) = DaysFromCivil(Date(y, m, d)) + 1
         /\ \/ DayAfter(Date(y, m, d))[1] = y
            \/ d = 31 /\ m = 12 /\ DayAfter(Date(y, m, d)) = Date(y + 1, 1, 1)
<1>0. /\ MarchYear(y, m) \in Nat /\ YearStart(MarchYear(y, m)) \in Int /\ DayInYear(m, d) \in Int
      /\ DaysFromCivil(Date(y, m, d)) = YearStart(MarchYear(y, m)) + DayInYear(m, d) - EpochDay
  BY DaysOfYear
<1>1. CASE d < MonthLength(y, m)
  <2>1. PICK n \in Nat : n = d + 1
    OBVIOUS
  <2>2. DayAfter(Date(y, m, d)) = Date(y, m, n)
    BY <1>1, <2>1 DEF DayAfter, Date
  <2>3. DaysFromCivil(Date(y, m, n)) = YearStart(MarchYear(y, m)) + DayInYear(m, n) - EpochDay
    BY DaysOfYear
  <2>4. DayInYear(m, n) = DayInYear(m, d) + 1
    BY <2>1 DEF DayInYear, FirstOfMonth, MarchMonth
  <2>5. DaysFromCivil(Date(y, m, n)) = DaysFromCivil(Date(y, m, d)) + 1
    BY <1>0, <2>3, <2>4, SMT DEF EpochDay
  <2>6. 1 <= n /\ n <= MonthLength(y, m)
    BY <1>1, <2>1 DEF MonthLength
  <2>7. RealDate(Date(y, m, n))
    BY <2>6 DEF RealDate
  <2>8. Date(y, m, n)[1] = y
    BY DEF Date
  <2>9. QED
    BY <2>2, <2>5, <2>7, <2>8
<1>2. CASE d = MonthLength(y, m) /\ m < 12
  <2>1. PICK k \in 1 .. 12 : k = m + 1
    BY <1>2
  <2>2. DayAfter(Date(y, m, d)) = Date(y, k, 1)
    BY <1>2, <2>1 DEF DayAfter, Date
  <2>3. /\ DaysFromCivil(Date(y, k, 1)) = YearStart(MarchYear(y, k)) + DayInYear(k, 1) - EpochDay
        /\ YearStart(MarchYear(y, k)) \in Int
        /\ DayInYear(k, 1) \in Int
    BY DaysOfYear
  <2>4. YearStart(MarchYear(y, k)) + DayInYear(k, 1) = YearStart(MarchYear(y, m)) + DayInYear(m, d) + 1
    BY <1>2, <2>1, NextMonth
  <2>5. DaysFromCivil(Date(y, k, 1)) = DaysFromCivil(Date(y, m, d)) + 1
    BY <1>0, <2>3, <2>4, SMT DEF EpochDay
  <2>6. 1 <= MonthLength(y, k)
    BY DEF MonthLength
  <2>7. RealDate(Date(y, k, 1))
    BY <2>6 DEF RealDate
  <2>8. Date(y, k, 1)[1] = y
    BY DEF Date
  <2>9. QED
    BY <2>2, <2>5, <2>7, <2>8
<1>3. CASE d = MonthLength(y, m) /\ m = 12
  <2>1. PICK z \in Nat : z = y + 1 /\ z >= 1
    OBVIOUS
  <2>2. DayAfter(Date(y, m, d)) = Date(z, 1, 1) /\ d = 31
    BY <1>3, <2>1 DEF DayAfter, Date, MonthLength
  <2>3. /\ DaysFromCivil(Date(z, 1, 1)) = YearStart(MarchYear(z, 1)) + DayInYear(1, 1) - EpochDay
        /\ YearStart(MarchYear(z, 1)) \in Int
    <3>1. \A k \in 1 .. 12 : /\ DaysFromCivil(Date(z, k, 1)) = YearStart(MarchYear(z, k)) + DayInYear(k, 1) - EpochDay
                            /\ YearStart(MarchYear(z, k)) \in Int
      BY <2>1, DaysOfYear
    <3>2. QED
      BY <3>1
  <2>4. MarchYear(y, m) = y /\ MarchYear(z, 1) = y
    BY <1>3, <2>1 DEF MarchYear
  <2>5. DayInYear(1, 1) = 306 /\ DayInYear(m, d) = 305
    BY <1>3 DEF DayInYear, FirstOfMonth, MarchMonth, MonthLength
  <2>6. DaysFromCivil(Date(z, 1, 1)) = DaysFromCivil(Date(y, m, d)) + 1
    BY <1>0, <2>3, <2>4, <2>5, SMT DEF EpochDay
  <2>7. 1 <= MonthLength(z, 1)
    BY DEF MonthLength
  <2>8. RealDate(Date(z, 1, 1))
    BY <2>1, <2>7 DEF RealDate
  <2>9. QED
    BY <1>3, <2>1, <2>2, <2>6, <2>8
<1>4. QED
  BY <1>1, <1>2, <1>3 DEF MonthLength

\* The last day of a year is at most its 366th.
LEMMA LastDayOfYear ==
  ASSUME NEW y \in Nat, y >= 1
  PROVE  /\ DaysFromCivil(Date(y, 12, 31)) \in Int /\ DaysFromCivil(Date(y, 1, 1)) \in Int
         /\ TmYday(Date(y, 12, 31)) \in Int /\ TmYday(Date(y, 12, 31)) <= 365
<1>1. \A k \in 1 .. 12, n \in Nat : DaysFromCivil(Date(y, k, n)) = YearStart(MarchYear(y, k)) + DayInYear(k, n) - EpochDay
  BY DaysOfYear
<1>2. /\ DaysFromCivil(Date(y, 12, 31)) = YearStart(MarchYear(y, 12)) + DayInYear(12, 31) - EpochDay
      /\ DaysFromCivil(Date(y, 1, 1)) = YearStart(MarchYear(y, 1)) + DayInYear(1, 1) - EpochDay
  BY <1>1
<1>3. MarchYear(y, 12) = y /\ MarchYear(y, 1) = y - 1 /\ DayInYear(12, 31) = 305 /\ DayInYear(1, 1) = 306
  BY DEF MarchYear, DayInYear, FirstOfMonth, MarchMonth
<1>4. /\ YearStart(y - 1) \in Int /\ YearStart(y) \in Int /\ YearLength(y) \in Int /\ YearLength(y) <= 366
      /\ YearStart(y) = YearStart(y - 1) + YearLength(y)
  BY YearStarts DEF YearLength
<1>5. DaysFromCivil(Date(y, 12, 31)) \in Int /\ DaysFromCivil(Date(y, 1, 1)) \in Int
  BY <1>2, <1>3, <1>4, SMT DEF EpochDay
<1>6. DaysFromCivil(Date(y, 12, 31)) = DaysFromCivil(Date(y, 1, 1)) + YearLength(y) - 1
  BY <1>2, <1>3, <1>4, SMT DEF EpochDay
<1>7. TmYday(Date(y, 12, 31)) = DaysFromCivil(Date(y, 12, 31)) - DaysFromCivil(Date(y, 1, 1))
  BY DEF TmYday, Date
<1> QED
  BY <1>4, <1>5, <1>6, <1>7

\* Every day of the calendar is counted as the calendar does, with the weekday after
\* the day before's and a greater key for the schedule's counters.
THEOREM EveryDayCounted ==
  ASSUME NEW y \in Nat, y >= 1, NEW m \in 1 .. 12, NEW d \in Nat, 1 <= d, d <= MonthLength(y, m)
  PROVE  DayCounted(Date(y, m, d))
<1> DEFINE date == Date(y, m, d)
           day == DaysFromCivil(date)
           after == DayAfter(date)
           here == LocalTime(Time(day, 0))
           next == LocalTime(Time(day + 1, 0))
<1>1. day \in Int /\ CivilFromDays(day) = date
  BY CivilReadBack
<1>2. /\ RealDate(after)
      /\ DaysFromCivil(after) = day + 1
      /\ after[1] = y \/ (d = 31 /\ m = 12 /\ after = Date(y + 1, 1, 1))
  BY DayAfterCounted
<1>3. CivilFromDays(day + 1) = after
  <2>1. PICK yy \in Nat, mm \in 1 .. 12, dd \in Nat :
          yy >= 1 /\ 1 <= dd /\ dd <= MonthLength(yy, mm) /\ after = Date(yy, mm, dd)
    BY <1>2 DEF RealDate
  <2>2. CivilFromDays(DaysFromCivil(Date(yy, mm, dd))) = Date(yy, mm, dd)
    BY <2>1, CivilReadBack
  <2>3. QED
    BY <1>2, <2>1, <2>2
<1>4. /\ here.day = y * 366 + TmYday(date) + 1
      /\ here.weekday = FromTmWday(TmWday(day))
  BY <1>1 DEF LocalTime, Time, Date
<1>5. /\ next.day = after[1] * 366 + TmYday(after) + 1
      /\ next.weekday = FromTmWday(TmWday(day + 1))
  BY <1>3 DEF LocalTime, Time
<1>6. next.weekday = (here.weekday + 1) % 7
  <2> HIDE DEF day
  <2>1. FromTmWday(TmWday(day + 1)) = (FromTmWday(TmWday(day)) + 1) % 7
    BY <1>1, SMTT(60) DEF FromTmWday, TmWday
  <2>2. QED
    BY <1>4, <1>5, <2>1
<1>7. here.day < next.day
  <2>1. DaysFromCivil(Date(y, 1, 1)) \in Int
    BY LastDayOfYear
  <2>2. TmYday(date) = day - DaysFromCivil(Date(y, 1, 1))
    BY DEF TmYday, Date
  <2>3. TmYday(after) = day + 1 - DaysFromCivil(Date(after[1], 1, 1))
    <3> HIDE DEF after, day
    <3>1. \A a : TmYday(a) = DaysFromCivil(a) - DaysFromCivil(Date(a[1], 1, 1))
      BY DEF TmYday
    <3>2. DaysFromCivil(Date(after[1], 1, 1)) \in Int
      <4>1. after = Date(y + 1, 1, 1) => after[1] = y + 1
        BY DEF Date
      <4>2. QED
        BY <1>1, <1>2, <2>1, <4>1
    <3>3. QED
      BY <1>1, <1>2, <3>1, <3>2
  <2>4. CASE after[1] = y
    <3>1. TmYday(after) = TmYday(date) + 1 /\ TmYday(date) \in Int
      BY <1>1, <2>1, <2>2, <2>3, <2>4
    <3>2. QED
      BY <1>4, <1>5, <2>4, <3>1
  <2>5. CASE d = 31 /\ m = 12 /\ after = Date(y + 1, 1, 1)
    <3>1. TmYday(date) \in Int /\ TmYday(date) <= 365
      BY <2>5, LastDayOfYear
    <3>2. after[1] = y + 1 /\ TmYday(after) = 0
      <4>1. after[1] = y + 1
        BY <2>5 DEF Date
      <4>2. DaysFromCivil(Date(after[1], 1, 1)) = day + 1
        BY <1>2, <2>5, <4>1
      <4>3. QED
        BY <1>1, <2>3, <4>1, <4>2
    <3>3. QED
      BY <1>4, <1>5, <3>1, <3>2
  <2>6. QED
    BY <1>2, <2>4, <2>5
<1>8. QED
  BY <1>1, <1>2, <1>6, <1>7 DEF DayCounted

-----------------------------------------------------------------------------
(***************************************************************************)
(* The chip's registers.                                                   *)
(***************************************************************************)

\* Two decimal digits fit into a byte and are read back from it.
LEMMA BcdReadBack ==
  ASSUME NEW v \in 0 .. 99
  PROVE  /\ Bcd(v) \in Nat /\ IsBcd(Bcd(v)) /\ Unbcd(Bcd(v)) = v
         /\ Bcd(v) < 16 * (v \div 10) + 10
         /\ v <= 59 => Bcd(v) < 96
         /\ v <= 39 => Bcd(v) < 64
         /\ v <= 19 => Bcd(v) < 32
BY SMTT(60) DEF Bcd, IsBcd, Unbcd

\* The years are in the order of their first days.
LEMMA YearsOrdered ==
  ASSUME NEW p \in Nat, NEW q \in Nat, p < q
  PROVE  /\ YearStart(p) \in Int /\ YearStart(q) \in Int
         /\ YearStart(p) + 365 <= YearStart(q)
<1>1. /\ YearStart(p) = 365 * p + p \div 4 - p \div 100 + p \div 400
      /\ YearStart(q) = 365 * q + q \div 4 - q \div 100 + q \div 400
  BY YearStartSum
<1>2. QED
  BY <1>1, SMTT(60)

\* A date is valid from 2024 on.
LEMMA ValidDays ==
  ASSUME NEW y \in Nat, y >= 1, NEW m \in 1 .. 12, NEW d \in Nat, 1 <= d, d <= 31
  PROVE  /\ DaysFromCivil(Date(y, m, d)) \in Int
         /\ y >= 2024 <=> DaysFromCivil(Date(y, m, d)) >= MinValidDay
<1> DEFINE march == MarchYear(y, m)
<1>1. /\ march \in Nat /\ YearStart(march) \in Int
      /\ DaysFromCivil(Date(y, m, d)) = YearStart(march) + DayInYear(m, d) - EpochDay
  BY DaysOfYear
<1>2. YearStart(2023) = 738885 /\ YearStart(2022) = 738520
  BY SMT DEF YearStart, DayOfEra
<1>3. /\ DayInYear(m, d) \in Int
      /\ m <= 2 => DayInYear(m, d) >= 306 /\ DayInYear(m, d) <= 367
      /\ m > 2 => DayInYear(m, d) >= 0 /\ DayInYear(m, d) <= 305
  BY DEF DayInYear, FirstOfMonth, MarchMonth
<1>4. march = IF m <= 2 THEN y - 1 ELSE y
  BY DEF MarchYear
<1> HIDE DEF march
<1>5. march > 2023 => YearStart(march) >= 739250
  BY <1>1, <1>2, YearsOrdered, SMT
<1>6. march < 2022 => YearStart(march) <= 738155
  BY <1>1, <1>2, YearsOrdered, SMT
<1>7. march = 2022 \/ march = 2023 \/ march > 2023 \/ march < 2022
  BY <1>1
<1>8. QED
  BY <1>1, <1>2, <1>3, <1>4, <1>5, <1>6, <1>7, SMTT(60) DEF EpochDay, MinValidDay

\* A date that rolls over into the next month is not read back.
LEMMA RealDates ==
  ASSUME NEW y \in Nat, y >= 1, NEW m \in Nat, NEW d \in Nat
  PROVE  DateIsReal(Date(y, m, d)) <=> m \in 1 .. 12 /\ 1 <= d /\ d <= MonthLength(y, m)
<1>1. Date(y, m, d)[2] = m /\ Date(y, m, d)[3] = d
  BY DEF Date
<1>2. CASE ~ (m \in 1 .. 12 /\ d \in 1 .. 31)
  <2>1. ~ DateIsReal(Date(y, m, d))
    BY <1>1, <1>2 DEF DateIsReal
  <2>2. ~ (m \in 1 .. 12 /\ 1 <= d /\ d <= MonthLength(y, m))
    BY <1>2 DEF MonthLength
  <2>3. QED
    BY <2>1, <2>2
<1>3. CASE m \in 1 .. 12 /\ d \in 1 .. 31 /\ d <= MonthLength(y, m)
  <2>1. CivilFromDays(DaysFromCivil(Date(y, m, d))) = Date(y, m, d)
    BY <1>3, CivilReadBack
  <2>2. QED
    BY <1>1, <1>3, <2>1 DEF DateIsReal
<1>4. CASE m \in 1 .. 12 /\ d \in 1 .. 31 /\ d > MonthLength(y, m)
  <2>1. PICK k \in 1 .. 12 : k = m + 1
    BY <1>4 DEF MonthLength
  <2>2. PICK n \in Nat, last \in Nat :
          last = MonthLength(y, m) /\ d = last + n /\ 1 <= n /\ n <= MonthLength(y, k)
    <3>1. MonthLength(y, m) \in 28 .. 31 /\ MonthLength(y, k) >= 28 /\ MonthLength(y, k) \in Int
      BY DEF MonthLength
    <3>2. d - MonthLength(y, m) \in Nat /\ d = MonthLength(y, m) + (d - MonthLength(y, m))
      BY <1>4, <3>1
    <3>3. QED
      BY <1>4, <3>1, <3>2
  <2>3. /\ DaysFromCivil(Date(y, m, d)) = YearStart(MarchYear(y, m)) + DayInYear(m, d) - EpochDay
        /\ DaysFromCivil(Date(y, k, n)) = YearStart(MarchYear(y, k)) + DayInYear(k, n) - EpochDay
        /\ YearStart(MarchYear(y, m)) \in Int /\ YearStart(MarchYear(y, k)) \in Int
        /\ DayInYear(m, d) \in Int /\ DayInYear(k, n) \in Int
    BY <1>4, DaysOfYear
  <2>4. YearStart(MarchYear(y, k)) + DayInYear(k, 1) = YearStart(MarchYear(y, m)) + DayInYear(m, last) + 1
    BY <1>4, <2>1, <2>2, NextMonth
  <2>5. /\ DayInYear(m, d) = DayInYear(m, last) + n /\ DayInYear(k, n) = DayInYear(k, 1) + n - 1
        /\ DayInYear(m, last) \in Int /\ DayInYear(k, 1) \in Int
    BY <1>4, <2>2 DEF DayInYear, FirstOfMonth, MarchMonth
  <2>6. DaysFromCivil(Date(y, m, d)) = DaysFromCivil(Date(y, k, n))
    <3>1. YearStart(MarchYear(y, m)) + DayInYear(m, d) = YearStart(MarchYear(y, k)) + DayInYear(k, n)
      BY <2>3, <2>4, <2>5
    <3>2. QED
      BY <2>3, <3>1, SMT DEF EpochDay
  <2>7. CivilFromDays(DaysFromCivil(Date(y, k, n))) = Date(y, k, n)
    BY <2>2, CivilReadBack
  <2>8. Date(y, k, n) # Date(y, m, d)
    BY <2>1 DEF Date
  <2>9. QED
    BY <1>4, <2>6, <2>7, <2>8 DEF DateIsReal, MonthLength
<1>5. m \in 1 .. 12 => MonthLength(y, m) \in Int
  BY DEF MonthLength
<1>6. QED
  BY <1>2, <1>3, <1>4, <1>5

\* The chip's year, its register for month and century, and its time of the day.
YearOf(century, year) == 2000 + 100 * century + year
MonthByte(m, century) == Bcd(m) + 128 * century
SecondOf(hour, minute, second) == 3600 * hour + 60 * minute + second

\* Seven registers with decimal digits in them, and what they are read as.
Digits(second, minute, hours, weekday, d, m, century, year) ==
  << Bcd(second), Bcd(minute), hours, weekday, Bcd(d), MonthByte(m, century), Bcd(year) >>

AreDigits(second, minute, d, m, century, year) ==
  /\ second \in 0 .. 59 /\ minute \in 0 .. 59
  /\ d \in 0 .. 39 /\ m \in 0 .. 19 /\ century \in 0 .. 1 /\ year \in 0 .. 99

ReadAs(second, minute, hours, d, m, y) ==
  IF HourIsValid(hours) /\ m \in 1 .. 12 /\ 1 <= d /\ d <= MonthLength(y, m) /\ y >= 2024
  THEN Time(DaysFromCivil(Date(y, m, d)), SecondOf(Hour(hours), minute, second))
  ELSE NotATime

\* A reader takes the date and the second of the day from the digits.
LEMMA DecodeDigits ==
  ASSUME NEW second, NEW minute, NEW hours, NEW weekday, NEW d, NEW m, NEW century, NEW year,
         AreDigits(second, minute, d, m, century, year)
  PROVE  Decode(Digits(second, minute, hours, weekday, d, m, century, year))
           = ReadAs(second, minute, hours, d, m, YearOf(century, year))
<1> DEFINE r == Digits(second, minute, hours, weekday, d, m, century, year)
           y == YearOf(century, year)
           time == SecondOf(Hour(hours), minute, second)
<1>0. /\ second \in 0 .. 59 /\ minute \in 0 .. 59
      /\ d \in 0 .. 39 /\ m \in 0 .. 19 /\ century \in 0 .. 1 /\ year \in 0 .. 99
  BY DEF AreDigits
<1>1. /\ r[1] = Bcd(second) /\ r[2] = Bcd(minute) /\ r[3] = hours /\ r[5] = Bcd(d)
      /\ r[6] = Bcd(m) + 128 * century /\ r[7] = Bcd(year)
  BY <1>0 DEF Digits, MonthByte
<1> HIDE DEF r
<1>2. /\ r[1] % 128 = Bcd(second) /\ r[2] % 128 = Bcd(minute) /\ r[5] % 64 = Bcd(d)
      /\ r[6] % 32 = Bcd(m) /\ r[6] \div 128 = century
  <2>1. /\ Bcd(second) \in Nat /\ Bcd(second) < 96 /\ Bcd(minute) \in Nat /\ Bcd(minute) < 96
        /\ Bcd(d) \in Nat /\ Bcd(d) < 64
        /\ Bcd(m) \in Nat /\ Bcd(m) < 32
    BY <1>0, BcdReadBack
  <2>2. QED
    BY <1>0, <1>1, <2>1, SMTT(30)
<1>3. /\ \A b \in {r[1] % 128, r[2] % 128, r[5] % 64, r[6] % 32, r[7]} : IsBcd(b)
      /\ Unbcd(r[1] % 128) = second /\ Unbcd(r[2] % 128) = minute
      /\ Unbcd(r[5] % 64) = d /\ Unbcd(r[6] % 32) = m /\ Unbcd(r[7]) = year
  <2>1. /\ IsBcd(Bcd(second)) /\ IsBcd(Bcd(minute)) /\ IsBcd(Bcd(d)) /\ IsBcd(Bcd(m)) /\ IsBcd(Bcd(year))
        /\ Unbcd(Bcd(second)) = second /\ Unbcd(Bcd(minute)) = minute
        /\ Unbcd(Bcd(d)) = d /\ Unbcd(Bcd(m)) = m /\ Unbcd(Bcd(year)) = year
    BY <1>0, BcdReadBack
  <2>2. QED
    BY <1>1, <1>2, <2>1
<1>4. DecodedDate(r) = Date(y, m, d) /\ y \in Nat /\ y >= 1
  <2>1. DecodedDate(r) = Date(2000 + year + 100 * century, m, d)
    BY <1>0, <1>2, <1>3 DEF DecodedDate
  <2>2. y = 2000 + year + 100 * century
    BY <1>0 DEF YearOf
  <2>3. QED
    BY <1>0, <2>1, <2>2
<1>5. DateIsReal(Date(y, m, d)) <=> m \in 1 .. 12 /\ 1 <= d /\ d <= MonthLength(y, m)
  BY <1>0, <1>4, RealDates
<1>6. m \in 1 .. 12 /\ 1 <= d /\ d <= MonthLength(y, m) =>
        (y >= 2024 <=> DaysFromCivil(Date(y, m, d)) >= MinValidDay)
  BY <1>0, <1>4, ValidDays DEF MonthLength
<1>7. Decode(r) =
        IF HourIsValid(hours) /\ DateIsReal(Date(y, m, d)) /\ DaysFromCivil(Date(y, m, d)) >= MinValidDay
        THEN Time(DaysFromCivil(Date(y, m, d)), time)
        ELSE NotATime
  BY <1>0, <1>1, <1>3, <1>4 DEF Decode, SecondOf
<1>8. QED
  BY <1>0, <1>5, <1>6, <1>7 DEF r, ReadAs

\* A century of two-digit years starts with 2000, or with 2100 where the month says so:
\* to the end of 2199 the board reads back whatever time it has written to the chip.
THEOREM EveryTimeReadBack ==
  ASSUME NEW y \in Nat, 2024 <= y, y <= 2199, NEW m \in 1 .. 12, NEW d \in Nat, 1 <= d, d <= MonthLength(y, m),
         NEW second \in Nat, second < 86400
  PROVE  ReadBack(Date(y, m, d), second)
<1> DEFINE day == DaysFromCivil(Date(y, m, d))
           century == IF y >= 2100 THEN 1 ELSE 0
           hour == second \div 3600
           r == Encode(Time(day, second))
<1>1. day \in Int /\ CivilFromDays(day) = Date(y, m, d)
  BY CivilReadBack
<1>2. /\ second % 60 \in 0 .. 59 /\ (second \div 60) % 60 \in 0 .. 59 /\ hour \in 0 .. 23
      /\ second = 3600 * hour + 60 * ((second \div 60) % 60) + (second % 60)
  BY SMTT(60)
<1>3. /\ century \in 0 .. 1 /\ y % 100 \in 0 .. 99 /\ y = 2000 + 100 * century + (y % 100)
      /\ d \in 0 .. 39 /\ m \in 0 .. 19
  BY SMTT(60) DEF MonthLength
<1>4. Bcd(m) \in Nat /\ Bcd(m) + (IF y >= 2100 THEN 128 ELSE 0) = Bcd(m) + 128 * century
  BY BcdReadBack
<1>5. r = << Bcd(second % 60), Bcd((second \div 60) % 60), Bcd(hour), ((day + 3) % 7) + 1,
             Bcd(d), Bcd(m) + 128 * century, Bcd(y % 100) >>
  BY <1>1, <1>4 DEF Encode, Time, Date
<1>6. HourIsValid(Bcd(hour)) /\ Hour(Bcd(hour)) = hour
  <2>1. /\ Bcd(hour) \in Nat /\ Bcd(hour) < 64 /\ IsBcd(Bcd(hour)) /\ Unbcd(Bcd(hour)) = hour
    BY <1>2, BcdReadBack
  <2>2. (Bcd(hour) \div 64) % 2 = 0 /\ Bcd(hour) % 64 = Bcd(hour)
    BY <2>1, SMTT(30)
  <2>3. ~ TwelveHours(Bcd(hour)) /\ HourBits(Bcd(hour)) = Bcd(hour)
    BY <2>2 DEF TwelveHours, HourBits
  <2>4. QED
    BY <1>2, <2>1, <2>3 DEF HourIsValid, Hour
<1>7. Decode(r) = Time(day, SecondOf(hour, (second \div 60) % 60, second % 60))
  <2> HIDE DEF r, century, hour, day
  <2>1. y = YearOf(century, y % 100) /\ Bcd(m) + 128 * century = MonthByte(m, century)
    BY <1>3 DEF YearOf, MonthByte
  <2> DEFINE s == second % 60
             mi == (second \div 60) % 60
             yy == y % 100
  <2>2. AreDigits(s, mi, d, m, century, yy)
    BY <1>2, <1>3 DEF AreDigits
  <2>3. \A weekday : r = << Bcd(s), Bcd(mi), Bcd(hour), weekday, Bcd(d), MonthByte(m, century), Bcd(yy) >>
          => r = Digits(s, mi, Bcd(hour), weekday, d, m, century, yy)
    BY DEF Digits
  <2> HIDE DEF s, mi, yy
  <2>4. \A weekday : Decode(Digits(s, mi, Bcd(hour), weekday, d, m, century, yy))
                       = ReadAs(s, mi, Bcd(hour), d, m, YearOf(century, yy))
    BY <2>2, DecodeDigits
  <2>5. Decode(r) = ReadAs(s, mi, Bcd(hour), d, m, y)
    BY <1>5, <2>1, <2>3, <2>4 DEF s, mi, yy
  <2>6. QED
    BY <1>6, <2>5 DEF ReadAs, day, s, mi
<1>8. QED
  BY <1>2, <1>7 DEF ReadBack, SecondOf

\* The digits of an hour under the flags of the 12-hour mode.
LEMMA HourShown ==
  ASSUME NEW hour \in 0 .. 19, NEW twelve \in BOOLEAN, NEW pm \in BOOLEAN, NEW b,
         b = Bcd(hour) + (IF twelve THEN 64 ELSE 0) + (IF twelve /\ pm THEN 32 ELSE 0)
  PROVE  /\ HourIsValid(b) <=> hour \in (IF twelve THEN 1 .. 12 ELSE 0 .. 23)
         /\ HourIsValid(b) =>
              3600 * Hour(b) = 3600 * (IF twelve /\ hour = 12 THEN 0 ELSE hour) + (IF twelve /\ pm THEN 43200 ELSE 0)
<1>1. Bcd(hour) \in Nat /\ Bcd(hour) < 32 /\ IsBcd(Bcd(hour)) /\ Unbcd(Bcd(hour)) = hour
  BY BcdReadBack
<1>2. CASE ~ twelve
  <2>1. b = Bcd(hour)
    BY <1>1, <1>2
  <2>2. (b \div 64) % 2 = 0 /\ b % 64 = b
    BY <1>1, <2>1, SMTT(30)
  <2>3. ~ TwelveHours(b) /\ HourBits(b) = b
    BY <2>2 DEF TwelveHours, HourBits
  <2>4. QED
    BY <1>1, <1>2, <2>1, <2>3 DEF HourIsValid, Hour
<1>3. CASE twelve
  <2>1. (b \div 64) % 2 = 1 /\ b % 32 = Bcd(hour) /\ (b \div 32) % 2 = (IF pm THEN 1 ELSE 0)
    BY <1>1, <1>3, SMTT(30)
  <2>2. TwelveHours(b) /\ HourBits(b) = Bcd(hour)
    BY <2>1 DEF TwelveHours, HourBits
  <2>3. /\ HourIsValid(b) <=> hour \in 1 .. 12
        /\ Hour(b) = (hour % 12) + 12 * (IF pm THEN 1 ELSE 0)
    BY <1>1, <1>3, <2>1, <2>2 DEF HourIsValid, Hour
  <2>4. hour \in 1 .. 12 => hour % 12 = (IF hour = 12 THEN 0 ELSE hour)
    BY SMTT(30)
  <2>5. QED
    BY <1>3, <2>3, <2>4
<1>4. QED
  BY <1>2, <1>3

\* A date and hour that the registers have digits for.
ChipDigits(y, m, d, hour, twelve, pm) ==
  /\ y \in 2000 .. 2099 /\ m \in 0 .. 19 /\ d \in 0 .. 39
  /\ hour \in 0 .. 19 /\ twelve \in BOOLEAN /\ pm \in BOOLEAN

\* The chip is read as the date it shows, in both hour modes, and not at all where no
\* clock shows that.
THEOREM ChipRead ==
  ASSUME NEW y, NEW m, NEW d, NEW hour, NEW twelve, NEW pm, ChipDigits(y, m, d, hour, twelve, pm)
  PROVE  Decode(Registers(Date(y, m, d), hour, twelve, pm)) = Shown(Date(y, m, d), hour, twelve, pm)
<1> DEFINE hours == Bcd(hour) + (IF twelve THEN 64 ELSE 0) + (IF twelve /\ pm THEN 32 ELSE 0)
           r == Registers(Date(y, m, d), hour, twelve, pm)
           shown == 3600 * (IF twelve /\ hour = 12 THEN 0 ELSE hour) + (IF twelve /\ pm THEN 43200 ELSE 0)
<1>0. /\ y \in 2000 .. 2099 /\ m \in 0 .. 19 /\ d \in 0 .. 39
      /\ hour \in 0 .. 19 /\ twelve \in BOOLEAN /\ pm \in BOOLEAN
  BY DEF ChipDigits
<1>1. Date(y, m, d)[1] = y /\ Date(y, m, d)[2] = m /\ Date(y, m, d)[3] = d
  BY DEF Date
<1>2. /\ HourIsValid(hours) <=> hour \in (IF twelve THEN 1 .. 12 ELSE 0 .. 23)
      /\ HourIsValid(hours) => 3600 * Hour(hours) = shown
      /\ shown \in Nat
  BY <1>0, HourShown
<1>3. y % 100 \in 0 .. 99 /\ y = 2000 + (y % 100)
  BY <1>0, SMTT(30)
<1>4. Bcd(0) = 0 /\ Bcd(m) \in Nat
  BY <1>0, BcdReadBack DEF Bcd
<1>5. Shown(Date(y, m, d), hour, twelve, pm) =
        IF HourIsValid(hours) /\ m \in 1 .. 12 /\ 1 <= d /\ d <= MonthLength(y, m) /\ y >= 2024
        THEN Time(DaysFromCivil(Date(y, m, d)), shown) ELSE NotATime
  <2>1. m \in 1 .. 12 => (d \in 1 .. MonthLength(y, m) <=> 1 <= d /\ d <= MonthLength(y, m))
    BY <1>0 DEF MonthLength
  <2> HIDE DEF hours
  <2>2. QED
    BY <1>0, <1>1, <1>2, <2>1 DEF Shown
<1> HIDE DEF hours, shown
<1>6. r = << Bcd(0), Bcd(0), hours, 1, Bcd(d), Bcd(m), Bcd(y % 100) >>
  BY <1>1, <1>4 DEF Registers, hours
<1>7. Decode(r) = ReadAs(0, 0, hours, d, m, y)
  <2> HIDE DEF r
  <2> DEFINE yy == y % 100
  <2>1. AreDigits(0, 0, d, m, 0, yy) /\ y = YearOf(0, yy) /\ Bcd(m) = MonthByte(m, 0)
    BY <1>0, <1>3, <1>4 DEF YearOf, MonthByte, AreDigits
  <2>2. r = Digits(0, 0, hours, 1, d, m, 0, yy)
    BY <1>6, <2>1 DEF Digits
  <2> HIDE DEF yy
  <2>3. Decode(Digits(0, 0, hours, 1, d, m, 0, yy)) = ReadAs(0, 0, hours, d, m, YearOf(0, yy))
    BY <2>1, DecodeDigits
  <2>4. QED
    BY <2>1, <2>2, <2>3
<1>8. HourIsValid(hours) => SecondOf(Hour(hours), 0, 0) = shown
  BY <1>2 DEF SecondOf
<1>9. QED
  BY <1>5, <1>7, <1>8 DEF ReadAs

-----------------------------------------------------------------------------
(***************************************************************************)
(* The inputs of the specification.                                        *)
(***************************************************************************)

\* A day of the walk.
DayInput ==
  /\ RealDate(input.date) /\ input.date[1] <= LastYear
  /\ input = [kind |-> "day", date |-> input.date]

\* Every input is a day of the calendar or one of the samples.
InputInv ==
  \/ DayInput
  \/ input \in MCChips \/ input \in MCDays \/ input \in MCPlans \/ input \in MCConfigs \/ input \in MCOptions
  \/ input \in MCBuffers \/ input \in MCHeaders \/ input \in MCCommands

\* What an input is, its kind says.
LEMMA InputKinds ==
  /\ DayInput => input.kind = "day"
  /\ input \in MCChips => input.kind = "chip"
  /\ input \in MCDays => input.kind = "days"
  /\ input \in MCPlans => input.kind = "plan"
  /\ input \in MCConfigs => input.kind = "config"
  /\ input \in MCOptions => input.kind = "option"
  /\ input \in MCBuffers => input.kind = "buffer"
  /\ input \in MCHeaders => input.kind = "header"
  /\ input \in MCCommands => input.kind = "command"
<1>1. DayInput => input.kind = "day"
  BY DEF DayInput
<1>2. input \in MCChips => input.kind = "chip"
  BY DEF MCChips
<1>3. input \in MCDays => input.kind = "days"
  BY DEF MCDays
<1>4. input \in MCPlans => input.kind = "plan"
  <2>1. input \in MCPlans => \E keys : input \in [kind : {"plan"}, object : [keys -> MCBlocks]]
    BY Zenon DEF MCPlans
  <2>2. QED
    BY <2>1
<1>5. input \in MCConfigs => input.kind = "config"
  <2>1. \A c : [kind |-> "config", object |-> c].kind = "config"
    OBVIOUS
  <2>2. input \in MCConfigs => \E c : input = [kind |-> "config", object |-> c]
    BY DEF MCConfigs
  <2>3. QED
    BY <2>1, <2>2
<1>6. input \in MCOptions => input.kind = "option"
  BY DEF MCOptions
<1>7. input \in MCBuffers => input.kind = "buffer"
  BY DEF MCBuffers
<1>8. input \in MCHeaders => input.kind = "header"
  BY DEF MCHeaders
<1>9. input \in MCCommands => input.kind = "command"
  BY DEF MCCommands
<1>10. QED
  BY <1>1, <1>2, <1>3, <1>4, <1>5, <1>6, <1>7, <1>8, <1>9

\* Every input is one of the samples, or a real date that the walk has come to.
LEMMA InputInvariant == Spec => []InputInv
<1>1. Init => InputInv
  <2> SUFFICES ASSUME NEW y \in FirstYear .. LastYear, input = [kind |-> "day", date |-> Date(y, 1, 1)]
      PROVE DayInput
    BY DEF Init, InputInv
  <2>1. y \in Nat /\ y >= 1 /\ y <= LastYear
    BY YearsAssumption
  <2>2. RealDate(Date(y, 1, 1)) /\ Date(y, 1, 1)[1] = y
    <3>1. 1 <= MonthLength(y, 1)
      BY DEF MonthLength
    <3>2. \A m \in 1 .. 12, d \in Nat : 1 <= d /\ d <= MonthLength(y, m) => RealDate(Date(y, m, d))
      BY <2>1 DEF RealDate
    <3>3. QED
      BY <3>1, <3>2 DEF Date
  <2>3. QED
    BY <2>1, <2>2 DEF DayInput
<1>2. InputInv /\ [Next]_input => InputInv'
  <2> SUFFICES ASSUME InputInv, DayPasses PROVE DayInput'
    BY DEF Next, InputInv, DayInput
  <2>1. DayInput
    BY InputKinds DEF InputInv, DayPasses, Is
  <2>2. PICK y \in Nat, m \in 1 .. 12, d \in Nat :
          y >= 1 /\ 1 <= d /\ d <= MonthLength(y, m) /\ input.date = Date(y, m, d)
    BY <2>1 DEF DayInput, RealDate
  <2>3. input' = [kind |-> "day", date |-> DayAfter(input.date)]
    BY <2>1 DEF DayInput, DayPasses
  <2>4. /\ RealDate(DayAfter(Date(y, m, d)))
        /\ \/ DayAfter(Date(y, m, d))[1] = y
           \/ d = 31 /\ m = 12 /\ DayAfter(Date(y, m, d)) = Date(y + 1, 1, 1)
    BY <2>2, DayAfterCounted
  <2>5. DayAfter(Date(y, m, d))[1] <= LastYear
    <3>1. y <= LastYear
      BY <2>1, <2>2 DEF DayInput, Date
    <3>2. CASE DayAfter(Date(y, m, d))[1] = y
      BY <3>1, <3>2
    <3>3. CASE d = 31 /\ m = 12 /\ DayAfter(Date(y, m, d)) = Date(y + 1, 1, 1)
      <4>1. y # LastYear
        BY <2>2, <3>3 DEF DayPasses
      <4>2. Date(y + 1, 1, 1)[1] = y + 1
        BY DEF Date
      <4>3. QED
        BY <3>1, <3>3, <4>1, <4>2, YearsAssumption
    <3>4. QED
      BY <2>4, <3>2, <3>3
  <2>6. QED
    BY <2>2, <2>3, <2>4, <2>5 DEF DayInput
<1>3. QED
  BY <1>1, <1>2, PTL DEF Spec

\* Every time the board is given it reads back from the chip, however long the walk.
THEOREM RtcInvariant == Spec => []RtcKeepsTime
<1>1. InputInv => RtcKeepsTime
  <2> SUFFICES ASSUME InputInv PROVE RtcKeepsTime
    OBVIOUS
  <2>1. ASSUME Is("day")
        PROVE  /\ DayCounted(input.date)
               /\ input.date[1] >= 2024 => \A second \in {0, 43199, 86399} : ReadBack(input.date, second)
    <3>1. DayInput
      BY <2>1, InputKinds DEF InputInv, Is
    <3>2. PICK y \in Nat, m \in 1 .. 12, d \in Nat :
            y >= 1 /\ 1 <= d /\ d <= MonthLength(y, m) /\ input.date = Date(y, m, d)
      BY <3>1 DEF DayInput, RealDate
    <3>3. input.date[1] = y /\ y <= LastYear
      BY <3>1, <3>2 DEF DayInput, Date
    <3>4. DayCounted(Date(y, m, d))
      BY <3>2, EveryDayCounted
    <3>5. ASSUME y >= 2024, NEW second \in {0, 43199, 86399} PROVE ReadBack(Date(y, m, d), second)
      <4>1. y <= 2199 /\ second \in Nat /\ second < 86400
        BY <3>3, <3>5, YearsAssumption
      <4>2. QED
        BY <3>2, <3>5, <4>1, EveryTimeReadBack
    <3>6. QED
      BY <3>2, <3>3, <3>4, <3>5
  <2>2. ASSUME Is("chip")
        PROVE  Decode(Registers(input.date, input.hour, input.twelve, input.pm))
                 = Shown(input.date, input.hour, input.twelve, input.pm)
    <3>1. input \in MCChips
      BY <2>2, InputKinds DEF InputInv, Is
    <3> DEFINE date == input.date
    <3>2. date = Date(date[1], date[2], date[3])
      BY <3>1 DEF MCChips, Date
    <3>3. date[1] \in 2000 .. 2099 /\ date[2] \in 0 .. 19 /\ date[3] \in 0 .. 39
      <4>1. date[1] \in 2000 .. 2099 /\ date[2] \in 0 .. 19
        BY <3>1 DEF MCChips
      <4>2. date[3] \in 0 .. 39
        BY <3>1 DEF MCChips
      <4>3. QED
        BY <4>1, <4>2
    <3>4. input.hour \in 0 .. 19 /\ input.twelve \in BOOLEAN /\ input.pm \in BOOLEAN
      BY <3>1 DEF MCChips
    <3>5. ChipDigits(date[1], date[2], date[3], input.hour, input.twelve, input.pm)
      BY <3>3, <3>4 DEF ChipDigits
    <3> HIDE DEF date
    <3>6. Decode(Registers(date, input.hour, input.twelve, input.pm)) = Shown(date, input.hour, input.twelve, input.pm)
      BY <3>2, <3>5, ChipRead
    <3>7. QED
      BY <3>6 DEF date
  <2>3. QED
    BY <2>1, <2>2 DEF RtcKeepsTime
<1>2. QED
  BY <1>1, InputInvariant, PTL

-----------------------------------------------------------------------------
(***************************************************************************)
(* The text forms of the settings.                                         *)
(***************************************************************************)

\* Days that have been read are written so that they are read again, whatever the text.
THEOREM DaysReadBack ==
  ASSUME NEW text, ParseDays(text) # Refused
  PROVE  ParseDays(ShowDays(ParseDays(text))) = ParseDays(text)
<1> DEFINE days == ParseDays(text)
<1>1. days = {i \in 1 .. 7 : text[i] = "letter"}
  BY DEF ParseDays
<1>2. days \subseteq 1 .. 7
  BY <1>1
<1> HIDE DEF days
<1>3. /\ DOMAIN ShowDays(days) = 1 .. 7 /\ Len(ShowDays(days)) = 7
      /\ \A i \in 1 .. 7 : ShowDays(days)[i] = IF i \in days THEN "letter" ELSE "blank"
  BY DEF ShowDays
<1>4. ParseDays(ShowDays(days)) = {i \in 1 .. 7 : ShowDays(days)[i] = "letter"}
  BY <1>3 DEF ParseDays
<1>5. {i \in 1 .. 7 : ShowDays(days)[i] = "letter"} = days
  BY <1>2, <1>3
<1>6. QED
  BY <1>4, <1>5 DEF days

\* The numbers of the keys.
LEMMA KeyNumbers ==
  /\ DOMAIN KeyOrder = 1 .. 7
  /\ KeyOrder[1] = "+1" /\ KeyOrder[2] = "0" /\ KeyOrder[3] = "01" /\ KeyOrder[4] = "1"
  /\ KeyOrder[5] = "2" /\ KeyOrder[6] = "3" /\ KeyOrder[7] = "x"
  /\ NumberOf("+1") = 1 /\ NumberOf("0") = 0 /\ NumberOf("01") = 1 /\ NumberOf("1") = 1
  /\ NumberOf("2") = 2 /\ NumberOf("3") = 3 /\ NumberOf("x") = 0
<1>1. /\ DOMAIN KeyOrder = 1 .. 7
      /\ KeyOrder[1] = "+1" /\ KeyOrder[2] = "0" /\ KeyOrder[3] = "01" /\ KeyOrder[4] = "1"
      /\ KeyOrder[5] = "2" /\ KeyOrder[6] = "3" /\ KeyOrder[7] = "x"
  BY DEF KeyOrder
<1>2. /\ NumberOf("+1") = 1 /\ NumberOf("0") = 0 /\ NumberOf("01") = 1 /\ NumberOf("1") = 1
      /\ NumberOf("2") = 2 /\ NumberOf("3") = 3 /\ NumberOf("x") = 0
  BY DEF NumberOf
<1>3. QED
  BY <1>1, <1>2

\* The places of the keys of a channel that an object has.
KeysOf(object, ch) == {i \in DOMAIN KeyOrder : KeyOrder[i] \in DOMAIN object /\ NumberOf(KeyOrder[i]) = ch}

\* What a plan that is not refused has for a channel.
LEMMA PlanRead ==
  ASSUME NEW object, ReadPlan(object) # Refused
  PROVE  /\ \A key \in DOMAIN object : NumberOf(key) \in Channels
         /\ ReadPlan(object) = ReadChannels(object)
         /\ ReadChannels(object) =
              [ch \in Channels |->
                 IF KeysOf(object, ch) = {} THEN <<>>
                 ELSE object[KeyOrder[CHOOSE i \in KeysOf(object, ch) : \A j \in KeysOf(object, ch) : j <= i]]]
         /\ \A ch \in Channels : \A i \in DOMAIN ReadPlan(object)[ch] : ValidBlock(ReadPlan(object)[ch][i])
<1>1. /\ ReadPlan(object) = ReadChannels(object) /\ ReadChannels(object) # Refused
      /\ \A ch \in Channels : \A i \in DOMAIN ReadPlan(object)[ch] : ValidBlock(ReadPlan(object)[ch][i])
  BY DEF ReadPlan
<1>2. \A key \in DOMAIN object : NumberOf(key) \in Channels
  BY <1>1 DEF ReadChannels
<1>3. QED
  BY <1>1, <1>2 DEF ReadChannels, KeysOf

\* A plan that has been read is written so that it is read again.
THEOREM PlanReadBack ==
  ASSUME NEW object, ReadPlan(object) # Refused
  PROVE  ReadPlan(WriteChannels(ReadPlan(object))) = ReadPlan(object)
<1> DEFINE plan == ReadPlan(object)
           w == WriteChannels(plan)
<1>1. /\ \A ch \in Channels : KeysOf(object, ch) = {} => plan[ch] = <<>>
      /\ plan = [ch \in Channels |-> plan[ch]]
      /\ \A ch \in Channels : \A i \in DOMAIN plan[ch] : ValidBlock(plan[ch][i])
  BY PlanRead
<1> HIDE DEF plan
<1>2. \A ch \in Channels : ch > 3 => plan[ch] = <<>>
  <2>1. \A ch \in Channels : ch > 3 => KeysOf(object, ch) = {}
    BY KeyNumbers DEF KeysOf
  <2>2. QED
    BY <1>1, <2>1
<1>3. /\ DOMAIN w = {k \in PlainKeys : NumberOf(k) \in Channels /\ plan[NumberOf(k)] # <<>>}
      /\ \A k \in DOMAIN w : w[k] = plan[NumberOf(k)]
  BY DEF WriteChannels
<1> HIDE DEF w
<1>4. ASSUME NEW ch \in Channels
      PROVE  (IF KeysOf(w, ch) = {} THEN <<>>
              ELSE w[KeyOrder[CHOOSE i \in KeysOf(w, ch) : \A j \in KeysOf(w, ch) : j <= i]]) = plan[ch]
  <2>1. CASE ch > 3 \/ plan[ch] = <<>>
    <3>1. plan[ch] = <<>>
      BY <1>2, <2>1
    <3>2. KeysOf(w, ch) = {}
      BY <1>3, <3>1 DEF KeysOf
    <3>3. QED
      BY <3>1, <3>2
  <2>2. CASE ch <= 3 /\ plan[ch] # <<>>
    <3>1. ch \in 1 .. 3
      BY <2>2 DEF Channels
    <3>2. PICK place \in 4 .. 6 : place = ch + 3
      BY <3>1
    <3>3. KeyOrder[place] \in PlainKeys /\ NumberOf(KeyOrder[place]) = ch /\ place \in DOMAIN KeyOrder
      <4>1. \A i \in 4 .. 6 : KeyOrder[i] \in PlainKeys /\ NumberOf(KeyOrder[i]) = i - 3
        BY KeyNumbers DEF PlainKeys
      <4>2. QED
        BY <3>1, <3>2, <4>1, KeyNumbers
    <3>4. \A i \in DOMAIN KeyOrder : KeyOrder[i] \in PlainKeys /\ NumberOf(KeyOrder[i]) = ch => i = place
      <4>1. \A i \in 1 .. 7 : i \notin 4 .. 6 => KeyOrder[i] \notin PlainKeys
        BY KeyNumbers DEF PlainKeys
      <4>2. \A i \in 4 .. 6 : NumberOf(KeyOrder[i]) = i - 3
        BY KeyNumbers
      <4>3. QED
        BY <3>2, <4>1, <4>2, KeyNumbers
    <3>5. KeysOf(w, ch) = {place}
      BY <1>3, <2>2, <3>3, <3>4 DEF KeysOf
    <3>6. (CHOOSE i \in KeysOf(w, ch) : \A j \in KeysOf(w, ch) : j <= i) = place
      BY <3>2, <3>5
    <3>7. w[KeyOrder[place]] = plan[ch]
      BY <1>3, <2>2, <3>3
    <3>8. QED
      BY <3>5, <3>6, <3>7
  <2>3. QED
    BY <2>1, <2>2 DEF Channels
<1>5. ReadChannels(w) = plan
  <2>1. ~ \E key \in DOMAIN w : NumberOf(key) \notin Channels
    BY <1>3
  <2>2. ReadChannels(w) =
          [ch \in Channels |->
             IF KeysOf(w, ch) = {} THEN <<>>
             ELSE w[KeyOrder[CHOOSE i \in KeysOf(w, ch) : \A j \in KeysOf(w, ch) : j <= i]]]
    BY <2>1 DEF ReadChannels, KeysOf
  <2>3. QED
    BY <1>1, <1>4, <2>2
<1>6. plan # Refused
  BY DEF plan
<1>7. QED
  BY <1>1, <1>5, <1>6 DEF ReadPlan, plan, w

\* A channel that a plan names is read from one of its keys: also of a plan whose keys
\* are channels and whose blocks are good, which is then not refused.
LEMMA PlanKey ==
  ASSUME NEW object,
         DOMAIN object \subseteq {KeyOrder[i] : i \in DOMAIN KeyOrder},
         \/ ReadPlan(object) # Refused
         \/ \A key \in DOMAIN object :
              NumberOf(key) \in Channels /\ \A i \in DOMAIN object[key] : ValidBlock(object[key][i]),
         NEW key \in DOMAIN object
  PROVE  \E k \in DOMAIN object : NumberOf(k) = NumberOf(key) /\ ReadPlan(object)[NumberOf(key)] = object[k]
<1> DEFINE Last(ch) == CHOOSE i \in KeysOf(object, ch) : \A j \in KeysOf(object, ch) : j <= i
           channels == [ch \in Channels |-> IF KeysOf(object, ch) = {} THEN <<>> ELSE object[KeyOrder[Last(ch)]]]
<1>1. ASSUME NEW ch, KeysOf(object, ch) # {}
      PROVE  Last(ch) \in KeysOf(object, ch)
  <2>1. KeysOf(object, ch) \subseteq 1 .. 7
    BY KeyNumbers DEF KeysOf
  <2>2. \E i \in KeysOf(object, ch) : \A j \in KeysOf(object, ch) : j <= i
    BY <1>1, <2>1
  <2>3. QED
    BY <2>2
<1> HIDE DEF Last
<1>2. ASSUME NEW ch, KeysOf(object, ch) # {}
      PROVE  KeyOrder[Last(ch)] \in DOMAIN object /\ NumberOf(KeyOrder[Last(ch)]) = ch
  BY <1>1, <1>2 DEF KeysOf
<1>3. ReadChannels(object) = channels /\ NumberOf(key) \in Channels
  <2>1. \A k \in DOMAIN object : NumberOf(k) \in Channels
    BY PlanRead
  <2>2. QED
    BY <2>1 DEF ReadChannels, KeysOf, Last
<1>4. ASSUME NEW ch \in Channels, KeysOf(object, ch) # {}
      PROVE  channels[ch] = object[KeyOrder[Last(ch)]]
  BY <1>4
<1>5. ASSUME NEW ch \in Channels, KeysOf(object, ch) = {}
      PROVE  channels[ch] = <<>>
  BY <1>5
<1> HIDE DEF channels
<1>6. ReadPlan(object) = channels
  <2>1. CASE ReadPlan(object) # Refused
    BY <1>3, <2>1, PlanRead
  <2>2. CASE \A k \in DOMAIN object :
               NumberOf(k) \in Channels /\ \A i \in DOMAIN object[k] : ValidBlock(object[k][i])
    <3>1. \A ch \in Channels : \A i \in DOMAIN channels[ch] : ValidBlock(channels[ch][i])
      BY <1>2, <1>4, <1>5, <2>2
    <3>2. QED
      BY <1>3, <3>1 DEF ReadPlan
  <2>3. QED
    BY <2>1, <2>2
<1>7. KeysOf(object, NumberOf(key)) # {}
  BY DEF KeysOf
<1>8. QED
  BY <1>2, <1>3, <1>4, <1>6, <1>7

\* A configuration that has been read, of whatever firmware, is read again as it was.
THEOREM ConfigReadBack ==
  ASSUME NEW c
  PROVE  ReadConfig(WriteConfig(ReadConfig(c))) = ReadConfig(c)
<1> DEFINE cfg == ReadConfig(c)
           w == WriteConfig(cfg)
<1>1. /\ cfg = [sets |-> cfg.sets, buzzer |-> cfg.buzzer]
      /\ cfg.sets = [i \in DOMAIN cfg.sets |-> cfg.sets[i]]
      /\ \A i \in DOMAIN cfg.sets : ~ (cfg.sets[i] > MaxExclusiveSets)
  <2>1. \A i \in DOMAIN c.channels : ~ (ReadSet(c, c.channels[i]) > MaxExclusiveSets)
    BY DEF ReadSet, MaxExclusiveSets
  <2>2. cfg = [sets |-> [i \in DOMAIN c.channels |-> ReadSet(c, c.channels[i])], buzzer |-> Get(c, "buzzer", TRUE)]
    BY DEF ReadConfig
  <2> HIDE DEF cfg
  <2>3. QED
    BY <2>1, <2>2
<1> HIDE DEF cfg
<1>2. /\ w.channels = [i \in DOMAIN cfg.sets |-> [exclusive_set |-> cfg.sets[i]]]
      /\ w.buzzer = cfg.buzzer /\ DOMAIN w = {"channels", "buzzer"}
  BY DEF WriteConfig
<1> HIDE DEF w
<1>3. Get(w, "buzzer", TRUE) = cfg.buzzer /\ Get(w, "exclusive", FALSE) = FALSE
  BY <1>2 DEF Get
<1>4. ASSUME NEW i \in DOMAIN cfg.sets PROVE ReadSet(w, w.channels[i]) = cfg.sets[i]
  <2>1. Get(w.channels[i], "exclusive_set", 0) = cfg.sets[i]
    BY <1>2 DEF Get
  <2>2. ~ JoinsSetA(w, w.channels[i])
    BY <1>3 DEF JoinsSetA
  <2>3. QED
    BY <1>1, <2>1, <2>2 DEF ReadSet
<1>5. ReadConfig(w) = [sets |-> cfg.sets, buzzer |-> cfg.buzzer]
  <2>1. DOMAIN w.channels = DOMAIN cfg.sets
    BY <1>2
  <2>2. [i \in DOMAIN w.channels |-> ReadSet(w, w.channels[i])] = cfg.sets
    BY <1>1, <1>4, <2>1
  <2>3. QED
    BY <1>3, <2>2 DEF ReadConfig
<1>6. QED
  BY <1>1, <1>5 DEF cfg, w

\* The labels of the exclusive sets are told apart.
LEMMA SetLabels ==
  ASSUME NEW set \in 0 .. 3
  PROVE  ParseSet(SetLabel(set)) = set
<1>1. SetLabel(0) = "none" /\ SetLabel(1) = "A" /\ SetLabel(2) = "B" /\ SetLabel(3) = "C"
  BY DEF SetLabel
<1>2. ParseSet("none") = 0 /\ ParseSet("A") = 1 /\ ParseSet("B") = 2 /\ ParseSet("C") = 3
  BY DEF ParseSet
<1>3. QED
  BY <1>1, <1>2

\* A mode is chosen by its label, or by the value alone.
LEMMA ModeOptions ==
  ASSUME NEW mode \in ModeValues, NEW option \in {ModeLabel(mode), Bare(mode)}
  PROVE  ModeFromOption(option) = mode
<1> DEFINE labelled == {m \in ModeValues : option = ModeLabel(m)}
           starting == {m \in ModeValues : option # <<>> /\ option[1] = m}
<1>1. /\ \A m, n : ModeLabel(m) = ModeLabel(n) => m = n
      /\ \A m, n : ModeLabel(m) # Bare(n)
      /\ \A m, n : Bare(m) = Bare(n) => m = n
      /\ \A m : Bare(m)[1] = m /\ Bare(m) # <<>>
  <2>1. \A m : ModeLabel(m)[1] = m /\ Bare(m)[1] = m
    BY DEF ModeLabel, Label, Bare
  <2>2. \A m : Len(ModeLabel(m)) = 2 /\ Len(Bare(m)) = 1 /\ Len(<<>>) = 0
    BY DEF ModeLabel, Label, Bare
  <2>3. QED
    BY <2>1, <2>2
<1>2. CASE option = ModeLabel(mode)
  <2>1. labelled = {mode}
    BY <1>1, <1>2, Zenon
  <2> HIDE DEF labelled
  <2>2. (CHOOSE m \in labelled : TRUE) = mode /\ labelled # {}
    BY <2>1
  <2>3. QED
    BY <2>2 DEF ModeFromOption, labelled
<1>3. CASE option = Bare(mode)
  <2>1. labelled = {}
    BY <1>1, <1>3
  <2>2. starting = {mode}
    <3>1. option[1] = mode /\ option # <<>>
      BY <1>1, <1>3
    <3>2. QED
      BY <3>1
  <2>3. ParseMode(option) = mode
    <3>1. \A m \in ModeValues : option = Bare(m) <=> m = mode
      BY <1>1, <1>3
    <3>2. QED
      BY <3>1 DEF ParseMode
  <2> HIDE DEF labelled, starting
  <2>4. (CHOOSE m \in starting : TRUE) = mode /\ starting # {}
    BY <2>2
  <2>5. QED
    BY <2>1, <2>3, <2>4 DEF ModeFromOption, labelled, starting
<1>4. QED
  BY <1>2, <1>3

\* The object of a channel, by whatever firmware.
ChannelObject(ch) ==
  /\ DOMAIN ch \subseteq {"exclusive_member", "exclusive_set"}
  /\ ch = [key \in DOMAIN ch |-> ch[key]]
  /\ "exclusive_member" \in DOMAIN ch => ch.exclusive_member \in BOOLEAN
  /\ "exclusive_set" \in DOMAIN ch => ch.exclusive_set \in Nat

\* The set of a relay: the one it has if that exists; or A, if an older firmware kept it
\* exclusive and it was not asked out.
SetOfRelay(c, ch) ==
  CASE Get(ch, "exclusive_set", 0) \in 1 .. MaxExclusiveSets -> ch.exclusive_set
    [] Get(ch, "exclusive_set", 0) > MaxExclusiveSets -> 0
    [] OTHER -> IF Get(c, "exclusive", FALSE) /\ ch # [exclusive_member |-> FALSE]
                     /\ ch # [exclusive_member |-> FALSE, exclusive_set |-> 0]
                THEN 1 ELSE 0

FlagIsBoolean(c) == Get(c, "exclusive", FALSE) \in BOOLEAN

\* A relay that an older firmware kept exclusive joins set A unless it was asked out or
\* has a set already; a set that does not exist is none.
THEOREM OldSetsRead ==
  ASSUME NEW c, FlagIsBoolean(c), NEW ch, ChannelObject(ch)
  PROVE  ReadSet(c, ch) = SetOfRelay(c, ch)
<1>0. Get(c, "exclusive", FALSE) \in BOOLEAN
  BY DEF FlagIsBoolean
<1> DEFINE set == Get(ch, "exclusive_set", 0)
           member == Get(ch, "exclusive_member", TRUE)
<1>1. set \in Nat /\ member \in BOOLEAN
  BY DEF ChannelObject, Get
<1>2. CASE set = 0
  <2>1. ~ member <=> ch = [exclusive_member |-> FALSE] \/ ch = [exclusive_member |-> FALSE, exclusive_set |-> 0]
    <3>1. ASSUME ~ member
          PROVE  ch = [exclusive_member |-> FALSE] \/ ch = [exclusive_member |-> FALSE, exclusive_set |-> 0]
      <4>1. "exclusive_member" \in DOMAIN ch /\ ch.exclusive_member = FALSE
        BY <3>1 DEF Get, ChannelObject
      <4>2. CASE "exclusive_set" \in DOMAIN ch
        <5>1. ch.exclusive_set = 0 /\ DOMAIN ch = {"exclusive_member", "exclusive_set"}
          BY <1>2, <4>1, <4>2 DEF Get, ChannelObject
        <5>2. QED
          BY <4>1, <5>1 DEF ChannelObject
      <4>3. CASE "exclusive_set" \notin DOMAIN ch
        <5>1. DOMAIN ch = {"exclusive_member"}
          BY <4>1, <4>3 DEF ChannelObject
        <5>2. QED
          BY <4>1, <5>1 DEF ChannelObject
      <4>4. QED
        BY <4>2, <4>3
    <3>2. [exclusive_member |-> FALSE].exclusive_member = FALSE
          /\ "exclusive_member" \in DOMAIN [exclusive_member |-> FALSE]
          /\ [exclusive_member |-> FALSE, exclusive_set |-> 0].exclusive_member = FALSE
          /\ "exclusive_member" \in DOMAIN [exclusive_member |-> FALSE, exclusive_set |-> 0]
      OBVIOUS
    <3>3. QED
      BY <3>1, <3>2 DEF Get
  <2>2. ReadSet(c, ch) = IF Get(c, "exclusive", FALSE) /\ member THEN 1 ELSE 0
    <3>1. JoinsSetA(c, ch) <=> Get(c, "exclusive", FALSE) /\ member
      BY <1>2 DEF JoinsSetA
    <3>2. ReadSet(c, ch) = IF (IF JoinsSetA(c, ch) THEN 1 ELSE set) > MaxExclusiveSets THEN 0
                           ELSE IF JoinsSetA(c, ch) THEN 1 ELSE set
      BY DEF ReadSet
    <3>3. ~ (1 > MaxExclusiveSets) /\ ~ (0 > MaxExclusiveSets)
      BY DEF MaxExclusiveSets
    <3> HIDE DEF set, member
    <3>4. QED
      BY <1>0, <1>2, <3>1, <3>2, <3>3
  <2>3. ~ (set \in 1 .. MaxExclusiveSets) /\ ~ (set > MaxExclusiveSets)
    BY <1>2 DEF MaxExclusiveSets
  <2> HIDE DEF set, member
  <2>4. QED
    BY <1>0, <2>1, <2>2, <2>3 DEF set, SetOfRelay
<1>3. CASE set # 0
  <2>1. ReadSet(c, ch) = IF set > MaxExclusiveSets THEN 0 ELSE set
    BY <1>3 DEF ReadSet, JoinsSetA
  <2>2. set = ch.exclusive_set
    BY <1>3 DEF Get
  <2>3. set > MaxExclusiveSets \/ set \in 1 .. MaxExclusiveSets
    BY <1>1, <1>3 DEF MaxExclusiveSets
  <2>4. ~ (set > MaxExclusiveSets /\ set \in 1 .. MaxExclusiveSets)
    BY <1>1 DEF MaxExclusiveSets
  <2> HIDE DEF set
  <2>5. QED
    BY <2>1, <2>2, <2>3, <2>4 DEF set, SetOfRelay
<1>4. QED
  BY <1>2, <1>3

\* The keys of pairs, and the value of a key.
KeysIn(pairs) == {p[1] : p \in pairs}
ValueIn(pairs, key) == (CHOOSE p \in pairs : p[1] = key)[2]

\* The only pair of a key has its value.
OnlyPair(pairs, key, v) ==
  /\ <<key, v>> \in pairs
  /\ \A p \in pairs : p[1] = key => p = <<key, v>>

\* The value of the only pair with a key.
LEMMA OnlyValue ==
  ASSUME NEW pairs, NEW key, NEW v, OnlyPair(pairs, key, v)
  PROVE  ValueIn(pairs, key) = v
<1> DEFINE pair == <<key, v>>
<1>1. pair \in pairs /\ pair[1] = key /\ pair[2] = v /\ \A p \in pairs : p[1] = key => p = pair
  BY DEF OnlyPair
<1> HIDE DEF pair
<1>2. (CHOOSE p \in pairs : p[1] = key) = pair
  BY <1>1
<1>3. QED
  BY <1>1, <1>2 DEF ValueIn

\* The keys of one pair, or of two.
LEMMA FirstOfPair ==
  ASSUME NEW k, NEW v
  PROVE  KeysIn({<<k, v>>}) = {k}
<1>1. <<k, v>>[1] = k
  OBVIOUS
<1>2. \A q : KeysIn({q}) = {q[1]}
  BY Zenon DEF KeysIn
<1>3. QED
  BY <1>1, <1>2

TwoPairs(k, v, l, w) == {<<k, v>>, <<l, w>>}

\* The keys of two pairs.
LEMMA FirstOfPairs ==
  ASSUME NEW k, NEW v, NEW l, NEW w
  PROVE  KeysIn(TwoPairs(k, v, l, w)) = {k, l}
<1> DEFINE q == <<k, v>>
           r == <<l, w>>
<1>1. q[1] = k /\ r[1] = l
  OBVIOUS
<1> HIDE DEF q, r
<1>2. KeysIn({q, r}) = {q[1], r[1]}
  BY Zenon DEF KeysIn
<1>3. QED
  BY <1>1, <1>2 DEF q, r, TwoPairs

\* The channels of the samples are such objects.
LEMMA SampleChannels ==
  ASSUME NEW ch \in MCChannels
  PROVE  ChannelObject(ch)
<1>0. PICK m \in MCMembers, s \in MCSets : ch = AsObject(m \cup s)
  BY DEF MCChannels
<1> DEFINE pairs == m \cup s
<1>1. ch = [key \in KeysIn(pairs) |-> ValueIn(pairs, key)]
  BY <1>0 DEF AsObject, KeysIn, ValueIn
<1>2. CASE m = {}
  <2>1. CASE s = {}
    <3>1. KeysIn(pairs) = {}
      BY <1>2, <2>1 DEF KeysIn
    <3>2. QED
      BY <1>1, <3>1 DEF ChannelObject
  <2>2. CASE s # {}
    <3>1. PICK n \in {0, 1, 3, 4, 255} : s = {<<"exclusive_set", n>>}
      BY <2>2 DEF MCSets
    <3>2. pairs = {<<"exclusive_set", n>>}
      BY <1>2, <3>1
    <3> HIDE DEF pairs
    <3>3. KeysIn(pairs) = {"exclusive_set"}
      BY <3>2, FirstOfPair
    <3>4. ValueIn(pairs, "exclusive_set") = n
      <4>1. OnlyPair(pairs, "exclusive_set", n)
        BY <3>2 DEF OnlyPair
      <4>2. QED
        BY <4>1, OnlyValue
    <3>5. /\ DOMAIN ch = {"exclusive_set"} /\ ch = [key \in DOMAIN ch |-> ch[key]]
          /\ ch["exclusive_set"] = n
      BY <1>1, <3>3, <3>4
    <3>6. QED
      BY <3>5 DEF ChannelObject
  <2>3. QED
    BY <2>1, <2>2
<1>3. CASE m # {}
  <2>1. PICK b \in BOOLEAN : m = {<<"exclusive_member", b>>}
    BY <1>3 DEF MCMembers
  <2>2. CASE s = {}
    <3>1. pairs = {<<"exclusive_member", b>>}
      BY <2>1, <2>2
    <3> HIDE DEF pairs
    <3>2. KeysIn(pairs) = {"exclusive_member"}
      BY <3>1, FirstOfPair
    <3>3. ValueIn(pairs, "exclusive_member") = b
      <4>1. OnlyPair(pairs, "exclusive_member", b)
        BY <3>1 DEF OnlyPair
      <4>2. QED
        BY <4>1, OnlyValue
    <3>4. /\ DOMAIN ch = {"exclusive_member"} /\ ch = [key \in DOMAIN ch |-> ch[key]]
          /\ ch["exclusive_member"] = b
      BY <1>1, <3>2, <3>3
    <3>5. QED
      BY <3>4 DEF ChannelObject
  <2>3. CASE s # {}
    <3>1. PICK n \in {0, 1, 3, 4, 255} : s = {<<"exclusive_set", n>>}
      BY <2>3 DEF MCSets
    <3>2. pairs = {<<"exclusive_member", b>>, <<"exclusive_set", n>>}
      BY <2>1, <3>1
    <3> HIDE DEF pairs
    <3>3. KeysIn(pairs) = {"exclusive_member", "exclusive_set"}
      <4>1. pairs = TwoPairs("exclusive_member", b, "exclusive_set", n)
        BY <3>2 DEF TwoPairs
      <4>2. QED
        BY <4>1, FirstOfPairs
    <3>4. ValueIn(pairs, "exclusive_member") = b /\ ValueIn(pairs, "exclusive_set") = n
      <4>1. OnlyPair(pairs, "exclusive_member", b)
        BY <3>2 DEF OnlyPair
      <4>2. OnlyPair(pairs, "exclusive_set", n)
        BY <3>2 DEF OnlyPair
      <4>3. QED
        BY <4>1, <4>2, OnlyValue
    <3>5. /\ DOMAIN ch = {"exclusive_member", "exclusive_set"} /\ ch = [key \in DOMAIN ch |-> ch[key]]
          /\ ch["exclusive_member"] = b /\ ch["exclusive_set"] = n
      BY <1>1, <3>3, <3>4
    <3>6. QED
      BY <3>5 DEF ChannelObject
  <2>4. QED
    BY <2>2, <2>3
<1>4. QED
  BY <1>2, <1>3

\* A configuration of the samples, with its flag and its channels.
LEMMA SampleConfigs ==
  ASSUME input \in MCConfigs
  PROVE  /\ Get(input.object, "exclusive", FALSE) \in BOOLEAN
         /\ \A i \in DOMAIN input.object.channels : ChannelObject(input.object.channels[i])
<1> DEFINE Plain == {[channels |-> <<d>>, buzzer |-> b] : d \in MCChannels, b \in BOOLEAN}
<1>1. PICK c : /\ input = [kind |-> "config", object |-> c]
               /\ c \in MCTops \/ c \in Plain
  BY DEF MCConfigs
<1>2. input.object = c
  BY <1>1
<1>3. CASE c \in MCTops
  <2>1. PICK b \in BOOLEAN, d \in MCChannels, e \in MCChannels : c = [exclusive |-> b, channels |-> <<d, e>>]
    BY <1>3 DEF MCTops
  <2>2. Get(c, "exclusive", FALSE) = b
    BY <2>1 DEF Get
  <2>3. \A i \in DOMAIN c.channels : c.channels[i] \in MCChannels
    BY <2>1
  <2>4. QED
    BY <1>2, <2>2, <2>3, SampleChannels
<1>4. CASE c \in Plain
  <2>1. PICK b \in BOOLEAN, d \in MCChannels : c = [channels |-> <<d>>, buzzer |-> b]
    BY <1>4
  <2>2. Get(c, "exclusive", FALSE) = FALSE
    BY <2>1 DEF Get
  <2>3. \A i \in DOMAIN c.channels : c.channels[i] \in MCChannels
    BY <2>1
  <2>4. QED
    BY <1>2, <2>2, <2>3, SampleChannels
<1> HIDE DEF Plain
<1>5. QED
  BY <1>1, <1>3, <1>4

\* The blocks that are active at some minutes of a day and no others are the good ones.
LEMMA DayBlocks ==
  ASSUME NEW b, b.from \in Nat, b.to \in Nat
  PROVE  OfOneDay(b) <=> ValidBlock(b)
<1> DEFINE from == b.from
           to == b.to
<1>0. from \in Nat /\ to \in Nat /\ (ValidBlock(b) <=> from < to /\ to <= 1440)
  BY DEF ValidBlock
<1> HIDE DEF from, to
<1> DEFINE minutes == from .. to - 1
           day == 0 .. 1439
<1>1. /\ \A m \in minutes : m \in Int /\ from <= m /\ m <= to - 1
      /\ \A m \in Int : from <= m /\ m <= to - 1 => m \in minutes
      /\ \A m \in day : m \in Int /\ 0 <= m /\ m <= 1439
      /\ \A m \in Int : 0 <= m /\ m <= 1439 => m \in day
  BY <1>0
<1> HIDE DEF minutes, day
<1>2. from < to => from \in minutes /\ to - 1 \in minutes
  BY <1>0, <1>1
<1>3. (\E m : m \in minutes) => from < to
  BY <1>0, <1>1
<1>4. to - 1 \in day => to <= 1440
  BY <1>0, <1>1
<1>5. to <= 1440 => \A m : m \in minutes => m \in day
  BY <1>0, <1>1
<1>6. minutes # {} <=> from < to
  BY <1>2, <1>3
<1>7. from < to => (minutes \subseteq day <=> to <= 1440)
  <2>1. minutes \subseteq day <=> \A m : m \in minutes => m \in day
    OBVIOUS
  <2>2. QED
    BY <1>2, <1>4, <1>5, <2>1
<1>8. (minutes # {} /\ minutes \subseteq day) <=> (from < to /\ to <= 1440)
  BY <1>6, <1>7
<1>9. OfOneDay(b) <=> minutes # {} /\ minutes \subseteq day
  BY DEF OfOneDay, minutes, day, from, to
<1>10. QED
  BY <1>0, <1>8, <1>9

\* What the board saves it reads back, for every sample.
THEOREM SettingsInvariant == Spec => []SettingsReadBack
<1>1. InputInv => SettingsReadBack
  <2> SUFFICES ASSUME InputInv PROVE SettingsReadBack
    OBVIOUS
  <2>1. ASSUME Is("days")
        PROVE  LET days == ParseDays(input.text) IN days # Refused => ParseDays(ShowDays(days)) = days
    BY DaysReadBack
  <2>2. ASSUME Is("plan")
        PROVE  LET plan == ReadPlan(input.object)
                   keys == DOMAIN input.object
                   unknown == {key \in keys : NumberOf(key) \notin Channels}
                   bad == {key \in keys : \E i \in DOMAIN input.object[key] : ~OfOneDay(input.object[key][i])}
                   alone == {key \in keys : \A k \in keys : NumberOf(k) = NumberOf(key) => k = key}
               IN /\ (unknown # {} \/ bad \cap alone # {}) => plan = Refused
                  /\ ((unknown = {} /\ bad = {}) \/ plan # Refused) =>
                       \A key \in keys : \E k \in keys :
                         NumberOf(k) = NumberOf(key) /\ plan[NumberOf(key)] = input.object[k]
                  /\ plan # Refused =>
                       /\ ReadPlan(WriteChannels(plan)) = plan
                       /\ \A ch \in Channels : \A i \in DOMAIN plan[ch] : OfOneDay(plan[ch][i])
    <3> DEFINE object == input.object
               plan == ReadPlan(object)
               keys == DOMAIN object
    <3>1. input \in MCPlans
      BY <2>2, InputKinds DEF InputInv, Is
    <3>2. /\ keys \subseteq {KeyOrder[i] : i \in DOMAIN KeyOrder}
          /\ \A key \in keys : object[key] \in MCBlocks
      <4>1. PICK names \in kSubset(2, {KeyOrder[i] : i \in DOMAIN KeyOrder}) :
              input \in [kind : {"plan"}, object : [names -> MCBlocks]]
        BY <3>1, Zenon DEF MCPlans
      <4>2. keys = names /\ \A key \in keys : object[key] \in MCBlocks
        BY <4>1
      <4>3. QED
        BY <4>1, <4>2 DEF kSubset
    <3>3. ASSUME NEW key \in keys, NEW i \in DOMAIN object[key]
          PROVE  OfOneDay(object[key][i]) <=> ValidBlock(object[key][i])
      <4>1. object[key][i].from \in Nat /\ object[key][i].to \in Nat
        BY <3>2, <3>3 DEF MCBlocks
      <4>2. QED
        BY <4>1, DayBlocks
    <3> HIDE DEF object
    <3>4. ASSUME plan # Refused
          PROVE  /\ \A key \in keys : NumberOf(key) \in Channels
                 /\ \A ch \in Channels : \A i \in DOMAIN plan[ch] : ValidBlock(plan[ch][i])
      BY <3>4, PlanRead
    <3>5. ASSUME \/ plan # Refused
                 \/ \A key \in keys : NumberOf(key) \in Channels /\ \A i \in DOMAIN object[key] : OfOneDay(object[key][i]),
                 NEW key \in keys
          PROVE  \E k \in keys : NumberOf(k) = NumberOf(key) /\ plan[NumberOf(key)] = object[k]
      <4>1. \/ plan # Refused
            \/ \A k \in keys : NumberOf(k) \in Channels /\ \A i \in DOMAIN object[k] : ValidBlock(object[k][i])
        BY <3>3, <3>5
      <4>2. QED
        BY <3>2, <4>1, PlanKey
    <3>6. ASSUME plan # Refused, NEW key \in keys, \A k \in keys : NumberOf(k) = NumberOf(key) => k = key
          PROVE  \A i \in DOMAIN object[key] : OfOneDay(object[key][i])
      <4>1. plan[NumberOf(key)] = object[key]
        BY <3>5, <3>6
      <4>2. QED
        BY <3>3, <3>4, <3>6, <4>1
    <3>7. ASSUME plan # Refused, NEW ch \in Channels, NEW i \in DOMAIN plan[ch]
          PROVE  OfOneDay(plan[ch][i])
      <4>1. CASE \E key \in keys : NumberOf(key) = ch
        <5>1. PICK k \in keys : plan[ch] = object[k]
          BY <3>5, <3>7, <4>1
        <5>2. QED
          BY <3>3, <3>4, <3>7, <5>1
      <4>2. CASE ~\E key \in keys : NumberOf(key) = ch
        <5>1. plan[ch] = <<>>
          BY <3>2, <3>7, <4>2, PlanRead DEF KeysOf
        <5>2. QED
          BY <3>7, <5>1
      <4>3. QED
        BY <4>1, <4>2
    <3>8. plan # Refused => ReadPlan(WriteChannels(plan)) = plan
      BY PlanReadBack
    <3> HIDE DEF plan
    <3> DEFINE unknown == {key \in keys : NumberOf(key) \notin Channels}
               bad == {key \in keys : \E i \in DOMAIN object[key] : ~OfOneDay(object[key][i])}
               alone == {key \in keys : \A k \in keys : NumberOf(k) = NumberOf(key) => k = key}
    <3>9. plan # Refused => unknown = {} /\ bad \cap alone = {}
      BY <3>4, <3>6
    <3>10. (unknown = {} /\ bad = {}) \/ plan # Refused =>
             \A key \in keys : \E k \in keys : NumberOf(k) = NumberOf(key) /\ plan[NumberOf(key)] = object[k]
      <4>1. unknown = {} /\ bad = {} =>
              \A key \in keys : NumberOf(key) \in Channels /\ \A i \in DOMAIN object[key] : OfOneDay(object[key][i])
        OBVIOUS
      <4>2. QED
        BY <3>5, <4>1
    <3> HIDE DEF keys, unknown, bad, alone
    <3>11. /\ (unknown # {} \/ bad \cap alone # {}) => plan = Refused
           /\ ((unknown = {} /\ bad = {}) \/ plan # Refused) =>
                \A key \in keys : \E k \in keys : NumberOf(k) = NumberOf(key) /\ plan[NumberOf(key)] = object[k]
           /\ plan # Refused =>
                /\ ReadPlan(WriteChannels(plan)) = plan
                /\ \A ch \in Channels : \A i \in DOMAIN plan[ch] : OfOneDay(plan[ch][i])
      BY <3>7, <3>8, <3>9, <3>10
    <3>12. QED
      BY <3>11 DEF object, plan, keys, unknown, bad, alone
  <2>3. ASSUME Is("config")
        PROVE  LET cfg == ReadConfig(input.object)
               IN /\ ReadConfig(WriteConfig(cfg)) = cfg
                  /\ \A i \in DOMAIN cfg.sets :
                       LET ch == input.object.channels[i]
                       IN cfg.sets[i] =
                            CASE Get(ch, "exclusive_set", 0) \in 1 .. MaxExclusiveSets -> ch.exclusive_set
                              [] Get(ch, "exclusive_set", 0) > MaxExclusiveSets -> 0
                              [] OTHER -> IF Get(input.object, "exclusive", FALSE) /\ ch # [exclusive_member |-> FALSE]
                                               /\ ch # [exclusive_member |-> FALSE, exclusive_set |-> 0]
                                          THEN 1 ELSE 0
    <3>1. input \in MCConfigs
      BY <2>3, InputKinds DEF InputInv, Is
    <3>2. /\ Get(input.object, "exclusive", FALSE) \in BOOLEAN
          /\ \A i \in DOMAIN input.object.channels : ChannelObject(input.object.channels[i])
      BY <3>1, SampleConfigs
    <3>3. ReadConfig(input.object).sets
            = [i \in DOMAIN input.object.channels |-> ReadSet(input.object, input.object.channels[i])]
      BY DEF ReadConfig
    <3>4. \A i \in DOMAIN input.object.channels :
            ReadSet(input.object, input.object.channels[i]) = SetOfRelay(input.object, input.object.channels[i])
      <4>1. FlagIsBoolean(input.object)
        BY <3>2 DEF FlagIsBoolean
      <4>2. QED
        BY <3>2, <4>1, OldSetsRead
    <3>5. ReadConfig(WriteConfig(ReadConfig(input.object))) = ReadConfig(input.object)
      BY ConfigReadBack
    <3>6. \A i \in DOMAIN ReadConfig(input.object).sets :
            /\ i \in DOMAIN input.object.channels
            /\ ReadConfig(input.object).sets[i] = ReadSet(input.object, input.object.channels[i])
      BY <3>3
    <3>7. \A i \in DOMAIN ReadConfig(input.object).sets :
            ReadConfig(input.object).sets[i] = SetOfRelay(input.object, input.object.channels[i])
      BY <3>4, <3>6
    <3>8. QED
      BY <3>5, <3>7 DEF SetOfRelay
  <2>4. ASSUME Is("option")
        PROVE  /\ input.set <= MaxExclusiveSets => ParseSet(SetLabel(input.set)) = input.set
               /\ \A option \in {ModeLabel(input.mode), Bare(input.mode)} : ModeFromOption(option) = input.mode
    <3>1. input \in MCOptions
      BY <2>4, InputKinds DEF InputInv, Is
    <3>2. input.set \in 0 .. 4 /\ input.mode \in ModeValues
      BY <3>1 DEF MCOptions
    <3>3. input.set <= MaxExclusiveSets => input.set \in 0 .. 3
      BY <3>2 DEF MaxExclusiveSets
    <3>4. QED
      BY <3>2, <3>3, SetLabels, ModeOptions
  <2>5. QED
    BY <2>1, <2>2, <2>3, <2>4 DEF SettingsReadBack
<1>2. QED
  BY <1>1, InputInvariant, PTL

-----------------------------------------------------------------------------
(***************************************************************************)
(* Lengths on the wire.                                                    *)
(***************************************************************************)
\* Division with remainder.
LEMMA DivMod ==
  ASSUME NEW v \in Nat, NEW b \in Nat, b > 0
  PROVE  /\ v \div b \in Nat /\ v % b \in 0 .. b - 1
         /\ v = b * (v \div b) + (v % b)
  OBVIOUS

\* A number below the divisor is its own remainder.
LEMMA SmallRemainder ==
  ASSUME NEW v \in Nat, NEW b \in Nat, v < b
  PROVE  v % b = v
  OBVIOUS

\* Products grow with their factors.
LEMMA ProductGrows ==
  ASSUME NEW b \in Nat, NEW x \in Nat, NEW y \in Nat, x <= y
  PROVE  b * x <= b * y
  OBVIOUS

\* A quotient is below what the product says.
LEMMA QuotientBelow ==
  ASSUME NEW v \in Nat, NEW b \in Nat, b > 0, NEW c \in Nat, v < b * c
  PROVE  v \div b < c
<1> DEFINE q == v \div b
<1>1. q \in Nat /\ v = b * q + (v % b) /\ v % b \in Nat
  BY DivMod
<1> HIDE DEF q
<1>2. ASSUME c <= q PROVE FALSE
  <2>1. b * c <= b * q
    BY <1>1, <1>2, ProductGrows
  <2>2. b * c \in Nat /\ b * q \in Nat
    BY <1>1
  <2>3. QED
    BY <1>1, <2>1, <2>2
<1>3. QED
  BY <1>1, <1>2 DEF q

\* The groups and what is left behind each of them make a number; five are enough.
LEMMA RestsShrink ==
  ASSUME NEW v \in 0 .. Modulus - 1
  PROVE  LET rest == Rests(v)
         IN /\ rest[1] = v
            /\ \A n \in 1 .. 5 : rest[n] \in Nat
            /\ \A n \in 1 .. 4 : rest[n] = Base * rest[n + 1] + (rest[n] % Base)
            /\ rest[5] < Base
<1> DEFINE b == v \div Base
           c == b \div Base
           d == c \div Base
           e == d \div Base
<1>1. Base \in Nat /\ Base > 0 /\ v \in Nat
  BY HeadersAssumption
<1>2. b \in Nat /\ v = Base * b + (v % Base)
  BY <1>1, DivMod
<1>3. c \in Nat /\ b = Base * c + (b % Base)
  BY <1>1, <1>2, DivMod
<1>4. d \in Nat /\ c = Base * d + (c % Base)
  BY <1>1, <1>3, DivMod
<1>5. e \in Nat /\ d = Base * e + (d % Base)
  BY <1>1, <1>4, DivMod
<1>6. v < Base * (Base * Base * Base * Base)
  BY HeadersAssumption
<1>7. e < Base
  <2>1. Base * Base \in Nat /\ Base * Base * Base \in Nat /\ Base * Base * Base * Base \in Nat
    BY <1>1
  <2>2. b < Base * (Base * Base * Base)
    BY <1>1, <1>6, <2>1, QuotientBelow
  <2>3. c < Base * (Base * Base)
    BY <1>1, <1>2, <2>1, <2>2, QuotientBelow
  <2>4. d < Base * Base
    BY <1>1, <1>3, <2>1, <2>3, QuotientBelow
  <2>5. QED
    BY <1>1, <1>4, <2>4, QuotientBelow
<1>8. Rests(v) = <<v, b, c, d, e>>
  BY DEF Rests
<1> HIDE DEF b, c, d, e
<1>9. QED
  BY <1>1, <1>2, <1>3, <1>4, <1>5, <1>7, <1>8

\* What is written: one to five bytes, of which the last ends the number they make.
LEMMA EncodedGroups ==
  ASSUME NEW v \in 0 .. Modulus - 1
  PROVE  LET bytes == Encode7(v)
         IN /\ bytes \in Seq(Bytes) /\ Len(bytes) \in 1 .. MaxGroups
            /\ ~bytes[Len(bytes)].more /\ \A i \in 1 .. Len(bytes) - 1 : bytes[i].more
            /\ \A buf : (\A i \in 1 .. Len(bytes) : buf[i] = bytes[i]) => ValueOf(buf, Len(bytes)) = v
<1> DEFINE rest == Rests(v)
           Last(n) == rest[n] < Base /\ \A m \in 1 .. n - 1 : rest[m] >= Base
           count == CHOOSE n \in 1 .. MaxGroups : Last(n)
           bytes == [i \in 1 .. count |-> Byte(rest[i] % Base, i < count)]
<1>1. /\ rest[1] = v
      /\ \A n \in 1 .. 5 : rest[n] \in Nat
      /\ \A n \in 1 .. 4 : rest[n] = Base * rest[n + 1] + (rest[n] % Base)
      /\ rest[5] < Base
  BY RestsShrink
<1>2. Base \in Nat /\ Base > 0 /\ v \in Nat /\ v < Modulus /\ Modulus \in Nat
  BY HeadersAssumption
<1>3. Encode7(v) = bytes
  BY DEF Encode7
<1> HIDE DEF rest
<1>4. count \in 1 .. 5 /\ Last(count)
  <2>1. \E n \in 1 .. MaxGroups : Last(n)
    <3>1. CASE rest[1] < Base
      BY <3>1 DEF MaxGroups
    <3>2. CASE rest[1] >= Base /\ rest[2] < Base
      BY <3>2 DEF MaxGroups
    <3>3. CASE rest[1] >= Base /\ rest[2] >= Base /\ rest[3] < Base
      BY <3>3 DEF MaxGroups
    <3>4. CASE rest[1] >= Base /\ rest[2] >= Base /\ rest[3] >= Base /\ rest[4] < Base
      BY <3>4 DEF MaxGroups
    <3>5. CASE rest[1] >= Base /\ rest[2] >= Base /\ rest[3] >= Base /\ rest[4] >= Base
      BY <1>1, <3>5 DEF MaxGroups
    <3>6. QED
      BY <1>1, <1>2, <3>1, <3>2, <3>3, <3>4, <3>5
  <2>2. QED
    BY <2>1 DEF MaxGroups
<1>5. rest[count] < Base
  BY <1>4
<1> HIDE DEF count, Last
<1>6. \A i \in 1 .. count : rest[i] % Base \in 0 .. Base - 1
  <2> TAKE i \in 1 .. count
  <2>1. rest[i] \in Nat
    BY <1>1, <1>4
  <2>2. QED
    BY <1>2, <2>1, DivMod
<1>7. bytes \in Seq(Bytes) /\ Len(bytes) = count
  <2>1. \A i \in 1 .. count : Byte(rest[i] % Base, i < count) \in Bytes
    BY <1>6 DEF Byte, Bytes
  <2>2. QED
    BY <1>4, <2>1
<1>8. /\ \A i \in 1 .. count : bytes[i].group = rest[i] % Base
      /\ ~bytes[count].more /\ \A i \in 1 .. count - 1 : bytes[i].more
  <2>1. ASSUME NEW i \in 1 .. count PROVE bytes[i] = Byte(rest[i] % Base, i < count)
    OBVIOUS
  <2>2. count \in 1 .. count /\ ~(count < count) /\ \A i \in 1 .. count - 1 : i \in 1 .. count /\ i < count
    BY <1>4
  <2> HIDE DEF bytes
  <2>3. ASSUME NEW i \in 1 .. count PROVE bytes[i].group = rest[i] % Base
    <3>1. \A g, more : Byte(g, more).group = g
      BY Zenon DEF Byte
    <3>2. QED
      BY <2>1, <3>1, Zenon
  <2>4. ~bytes[count].more
    <3>1. bytes[count] = Byte(rest[count] % Base, FALSE)
      <4>1. (count < count) = FALSE
        BY <2>2
      <4>2. QED
        BY <2>1, <2>2, <4>1, Zenon
    <3>2. QED
      BY <3>1 DEF Byte
  <2>5. ASSUME NEW i \in 1 .. count - 1 PROVE bytes[i].more
    <3>1. i \in 1 .. count /\ (i < count) = TRUE
      BY <2>2
    <3>2. bytes[i] = Byte(rest[i] % Base, TRUE)
      BY <2>1, <3>1, Zenon
    <3>3. QED
      BY <3>2 DEF Byte
  <2>6. QED
    BY <2>3, <2>4, <2>5
<1> HIDE DEF bytes
<1>9. ASSUME NEW buf, \A i \in 1 .. count : buf[i] = bytes[i]
      PROVE  ValueOf(buf, count) = v
  <2>1. \A i \in 1 .. count : buf[i].group = rest[i] % Base
    BY <1>8, <1>9
  <2> DEFINE group(i) == IF i <= count THEN buf[i].group ELSE 0
             sum == group(1) + Base * (group(2) + Base * (group(3) + Base * (group(4) + Base * group(5))))
  <2>2. rest[count] % Base = rest[count]
    <3>1. rest[count] \in Nat
      BY <1>1, <1>4
    <3>2. QED
      BY <1>2, <1>5, <3>1, SmallRemainder
  \* Each rest is its group and what is left after it.
  <2>3. /\ (rest[1] % Base) + Base * rest[2] = v
        /\ (rest[2] % Base) + Base * rest[3] = rest[2]
        /\ (rest[3] % Base) + Base * rest[4] = rest[3]
        /\ (rest[4] % Base) + Base * rest[5] = rest[4]
    <3>1. \A n \in 1 .. 4 : rest[n] = Base * rest[n + 1] + (rest[n] % Base) /\ rest[n] % Base \in Int
      <4> TAKE n \in 1 .. 4
      <4>1. rest[n] \in Nat
        BY <1>1
      <4>2. rest[n] % Base \in Int
        BY <1>2, <4>1, DivMod
      <4>3. QED
        BY <1>1, <4>2
    <3>2. \A n \in 1 .. 4 : rest[n] = (rest[n] % Base) + Base * rest[n + 1]
      <4> TAKE n \in 1 .. 4
      <4> DEFINE product == Base * rest[n + 1]
      <4>1. product \in Int
        BY <1>1, <1>2
      <4>2. rest[n] % Base \in Int /\ rest[n] = product + (rest[n] % Base)
        BY <3>1
      <4> HIDE DEF product
      <4>3. rest[n] = (rest[n] % Base) + product
        BY <4>1, <4>2
      <4>4. QED
        BY <4>3 DEF product
    <3>3. 1 + 1 = 2 /\ 2 + 1 = 3 /\ 3 + 1 = 4 /\ 4 + 1 = 5
      OBVIOUS
    <3>4. QED
      BY <1>1, <3>2, <3>3
  <2>4. Base * 0 = 0 /\ 0 + 0 = 0 /\ \A n \in 1 .. 5 : rest[n] + 0 = rest[n]
    BY <1>1, <1>2
  <2>5. sum = v
    <3>1. CASE count = 1
      <4>1. group(1) = v /\ group(2) = 0 /\ group(3) = 0 /\ group(4) = 0 /\ group(5) = 0
        BY <1>1, <2>1, <2>2, <3>1
      <4>2. v + 0 = v
        BY <1>2
      <4> HIDE DEF group
      <4>3. QED
        BY <2>4, <4>1, <4>2
    <3>2. CASE count = 2
      <4>1. group(1) = rest[1] % Base /\ group(2) = rest[2] /\ group(3) = 0 /\ group(4) = 0 /\ group(5) = 0
        BY <1>1, <2>1, <2>2, <3>2
      <4> HIDE DEF group
      <4>2. group(2) + Base * (group(3) + Base * (group(4) + Base * group(5))) = rest[2]
        BY <2>4, <4>1
      <4>3. QED
        BY <2>3, <4>1, <4>2
    <3>3. CASE count = 3
      <4>1. group(1) = rest[1] % Base /\ group(2) = rest[2] % Base /\ group(3) = rest[3] /\ group(4) = 0 /\ group(5) = 0
        BY <1>1, <2>1, <2>2, <3>3
      <4> HIDE DEF group
      <4>2. group(3) + Base * (group(4) + Base * group(5)) = rest[3]
        BY <2>4, <4>1
      <4>3. group(2) + Base * rest[3] = rest[2]
        BY <2>3, <4>1
      <4>4. QED
        BY <2>3, <4>1, <4>2, <4>3
    <3>4. CASE count = 4
      <4>1. /\ group(1) = rest[1] % Base /\ group(2) = rest[2] % Base /\ group(3) = rest[3] % Base
            /\ group(4) = rest[4] /\ group(5) = 0
        BY <1>1, <2>1, <2>2, <3>4
      <4> HIDE DEF group
      <4>2. group(4) + Base * group(5) = rest[4]
        BY <2>4, <4>1
      <4>3. group(3) + Base * rest[4] = rest[3] /\ group(2) + Base * rest[3] = rest[2]
        BY <2>3, <4>1
      <4>4. QED
        BY <2>3, <4>1, <4>2, <4>3
    <3>5. CASE count = 5
      <4>1. /\ group(1) = rest[1] % Base /\ group(2) = rest[2] % Base /\ group(3) = rest[3] % Base
            /\ group(4) = rest[4] % Base /\ group(5) = rest[5]
        BY <1>1, <2>1, <2>2, <3>5
      <4> HIDE DEF group
      <4>2. group(4) + Base * group(5) = rest[4]
        BY <2>3, <4>1
      <4>3. group(3) + Base * rest[4] = rest[3] /\ group(2) + Base * rest[3] = rest[2]
        BY <2>3, <4>1
      <4>4. QED
        BY <2>3, <4>1, <4>2, <4>3
    <3>6. QED
      BY <1>4, <3>1, <3>2, <3>3, <3>4, <3>5
  <2>6. ValueOf(buf, count) = sum % Modulus
    BY DEF ValueOf
  <2> HIDE DEF sum
  <2>7. QED
    BY <1>2, <2>5, <2>6, SmallRemainder
<1>10. QED
  BY <1>3, <1>4, <1>7, <1>8, <1>9 DEF MaxGroups

\* A buffer whose first byte that ends a number is the n-th.
EndsAt(buf, n) ==
  /\ n \in DOMAIN buf /\ n \in 1 .. MaxGroups /\ ~buf[n].more
  /\ \A m \in 1 .. n - 1 : m \in DOMAIN buf /\ buf[m].more

\* Both readers take a number up to the byte that ends it,
LEMMA NumberTaken ==
  ASSUME NEW S, NEW buf \in Seq(S), NEW n, EndsAt(buf, n)
  PROVE  Parse(buf) = <<ValueOf(buf, n), n>> /\ Read(buf) = <<ValueOf(buf, n), n>>
<1>1. Ends(buf) = {n}
  BY DEF Ends, EndsAt
<1>2. n <= MaxGroups
  BY DEF EndsAt, MaxGroups
<1>3. QED
  BY <1>1, <1>2 DEF Parse, Read

\* the one on a buffer waits while none does,
LEMMA NumberOpen ==
  ASSUME NEW S, NEW buf \in Seq(S), \A m \in DOMAIN buf : buf[m].more, Len(buf) <= MaxGroups
  PROVE  Parse(buf) = Incomplete
<1>1. Ends(buf) = {}
  BY DEF Ends
<1>2. QED
  BY <1>1 DEF Parse, MaxGroups

\* and an end within reach is the first.
LEMMA NumberEnds ==
  ASSUME NEW S, NEW buf \in Seq(S), \E n \in Ends(buf) : n <= MaxGroups
  PROVE  \E n \in 1 .. MaxGroups : EndsAt(buf, n)
  BY DEF Ends, EndsAt, MaxGroups

\* Both readers take the same number from any bytes, and none before its last one.
THEOREM ReadersAgree ==
  ASSUME NEW S, NEW buf \in Seq(S)
  PROVE  /\ Parse(buf) # Incomplete => Read(buf) = Parse(buf)
         /\ Len(Parse(buf)) = 2 => \A n \in 0 .. Parse(buf)[2] - 1 : Parse(SubSeq(buf, 1, n)) = Incomplete
<1>1. CASE \E n \in Ends(buf) : n <= MaxGroups
  <2>1. PICK n \in 1 .. MaxGroups : EndsAt(buf, n)
    BY <1>1, NumberEnds
  <2>2. Parse(buf) = <<ValueOf(buf, n), n>> /\ Read(buf) = Parse(buf)
    BY <2>1, NumberTaken
  <2>3. ASSUME NEW k \in 0 .. n - 1 PROVE Parse(SubSeq(buf, 1, k)) = Incomplete
    <3>1. k <= Len(buf) /\ k <= MaxGroups /\ k \in Nat
      BY <2>1, <2>3 DEF EndsAt, MaxGroups
    <3> DEFINE part == SubSeq(buf, 1, k)
    <3>2. part \in Seq(S) /\ Len(part) = k /\ \A i \in 1 .. k : part[i] = buf[i]
      BY <3>1
    <3>3. \A i \in 1 .. k : buf[i].more
      BY <2>1, <2>3 DEF EndsAt
    <3> HIDE DEF part
    <3>4. Parse(part) = Incomplete
      <4>1. DOMAIN part = 1 .. k
        BY <3>2
      <4>2. QED
        BY <3>1, <3>2, <3>3, <4>1, NumberOpen
    <3>5. QED
      BY <3>4 DEF part
  <2>4. QED
    BY <2>2, <2>3
<1>2. CASE ~\E n \in Ends(buf) : n <= MaxGroups
  <2>1. Parse(buf) = IF Len(buf) > MaxGroups THEN TooLong ELSE Incomplete
    BY <1>2 DEF Parse
  <2>2. Len(buf) > MaxGroups => Read(buf) = TooLong
    BY <1>2 DEF Read, MaxGroups
  <2>3. Len(TooLong) = 1 /\ Len(Incomplete) = 1
    BY DEF TooLong, Incomplete
  <2>4. QED
    BY <2>1, <2>2, <2>3
<1>3. QED
  BY <1>1, <1>2

\* A number that was written is read back when all of it has come, whatever follows.
LEMMA NumberReadBack ==
  ASSUME NEW v \in 0 .. Modulus - 1, NEW S, NEW buf \in Seq(S), Len(buf) >= Len(Encode7(v)),
         \A i \in 1 .. Len(Encode7(v)) : buf[i] = Encode7(v)[i]
  PROVE  Parse(buf) = <<v, Len(Encode7(v))>>
<1> DEFINE bytes == Encode7(v)
           k == Len(bytes)
<1>1. k \in 1 .. 5 /\ ~bytes[k].more /\ (\A i \in 1 .. k - 1 : bytes[i].more) /\ ValueOf(buf, k) = v
  BY EncodedGroups DEF MaxGroups
<1>2. Len(buf) >= k /\ \A i \in 1 .. k : buf[i] = bytes[i]
  OBVIOUS
<1>3. DOMAIN buf = 1 .. Len(buf) /\ Len(buf) \in Nat
  OBVIOUS
<1> HIDE DEF k, bytes
<1>4. EndsAt(buf, k)
  <2>1. k \in 1 .. MaxGroups /\ k \in DOMAIN buf /\ \A m \in 1 .. k - 1 : m \in DOMAIN buf
    BY <1>1, <1>2, <1>3 DEF MaxGroups
  <2>2. buf[k] = bytes[k] /\ \A m \in 1 .. k - 1 : buf[m] = bytes[m]
    BY <1>1, <1>2
  <2>3. QED
    BY <1>1, <2>1, <2>2 DEF EndsAt
<1>5. QED
  BY <1>1, <1>4, NumberTaken DEF k, bytes

\* Until then the reader waits.
LEMMA NumberNotYet ==
  ASSUME NEW v \in 0 .. Modulus - 1, NEW S, NEW buf \in Seq(S), Len(buf) < Len(Encode7(v)),
         \A i \in 1 .. Len(buf) : buf[i] = Encode7(v)[i]
  PROVE  Parse(buf) = Incomplete
<1> DEFINE bytes == Encode7(v)
           k == Len(bytes)
<1>1. k \in 1 .. 5 /\ \A i \in 1 .. k - 1 : bytes[i].more
  BY EncodedGroups DEF MaxGroups
<1>2. Len(buf) < k /\ \A i \in 1 .. Len(buf) : buf[i] = bytes[i]
  OBVIOUS
<1>3. DOMAIN buf = 1 .. Len(buf) /\ Len(buf) \in Nat
  OBVIOUS
<1> HIDE DEF k, bytes
<1>4. Len(buf) <= MaxGroups /\ \A m \in 1 .. Len(buf) : m \in 1 .. k - 1
  BY <1>1, <1>2, <1>3 DEF MaxGroups
<1>5. \A m \in DOMAIN buf : buf[m].more
  BY <1>1, <1>2, <1>3, <1>4
<1>6. QED
  BY <1>4, <1>5, NumberOpen

\* The bytes from the k-th on.
LEMMA Suffix ==
  ASSUME NEW S, NEW buf \in Seq(S), NEW k \in 0 .. Len(buf)
  PROVE  /\ SubSeq(buf, k + 1, Len(buf)) \in Seq(S)
         /\ Len(SubSeq(buf, k + 1, Len(buf))) = Len(buf) - k
         /\ \A i \in 1 .. Len(buf) - k : SubSeq(buf, k + 1, Len(buf))[i] = buf[k + i]
  OBVIOUS

\* A header that is read while it arrives: not before its last byte, and then as it was
\* written, with as many bytes as it has, whatever follows, unless it announces more
\* than a frame may have.
THEOREM HeaderReadBack ==
  ASSUME NEW length \in 0 .. Modulus - 1, NEW id \in 0 .. Modulus - 1
  PROVE  LET bytes == Header(length, id)
         IN /\ \A n \in 0 .. Len(bytes) - 1 : ParseHeader(SubSeq(bytes, 1, n)) = Incomplete
            /\ \A rest \in Seq(Bytes) :
                 ParseHeader(bytes \o rest)
                   = IF length > MaxPayload THEN TooLarge ELSE <<length, id, Len(bytes)>>
<1> DEFINE first == Encode7(length)
           second == Encode7(id)
           k == Len(first)
           l == Len(second)
           bytes == first \o second
<1>1. first \in Seq(Bytes) /\ second \in Seq(Bytes) /\ k \in 1 .. 5 /\ l \in 1 .. 5
  BY EncodedGroups DEF MaxGroups
<1>2. Header(length, id) = bytes
  BY DEF Header
<1> HIDE DEF first, second
<1>3. /\ bytes \in Seq(Bytes) /\ Len(bytes) = k + l
      /\ \A i \in 1 .. k : bytes[i] = first[i]
      /\ \A i \in 1 .. l : bytes[k + i] = second[i]
  BY <1>1
<1> HIDE DEF bytes, k, l
<1>4. \A v \in 0 .. Modulus - 1, n \in 1 .. 5 : <<v, n>> \notin {TooLong, Incomplete} /\ Incomplete \in {TooLong, Incomplete}
  BY DEF TooLong, Incomplete
\* Once the length has come, what follows is the rest.
<1>5. ASSUME NEW buf \in Seq(Bytes), Len(buf) >= k, \A i \in 1 .. k : buf[i] = first[i]
      PROVE  LET rest == SubSeq(buf, k + 1, Len(buf))
             IN ParseHeader(buf) = IF Parse(rest) \in {TooLong, Incomplete} THEN Parse(rest)
                                   ELSE IF length > MaxPayload THEN TooLarge
                                   ELSE <<length, Parse(rest)[1], k + Parse(rest)[2]>>
  <2>1. Parse(buf) = <<length, k>>
    BY <1>5, NumberReadBack DEF first, k
  <2>2. Parse(buf)[1] = length /\ Parse(buf)[2] = k /\ Parse(buf) \notin {TooLong, Incomplete}
    BY <1>1, <1>4, <2>1
  <2>3. QED
    BY <2>2 DEF ParseHeader
<1>6. ASSUME NEW n \in 0 .. Len(bytes) - 1
      PROVE  ParseHeader(SubSeq(bytes, 1, n)) = Incomplete
  <2> DEFINE buf == SubSeq(bytes, 1, n)
  <2>1. buf \in Seq(Bytes) /\ Len(buf) = n /\ \A i \in 1 .. n : buf[i] = bytes[i]
    BY <1>3
  <2> HIDE DEF buf
  <2>2. CASE n < k
    <3>1. ASSUME NEW i \in 1 .. n PROVE buf[i] = first[i]
      <4>1. i \in 1 .. k
        BY <1>1, <1>3, <2>2
      <4>2. QED
        BY <1>3, <2>1, <4>1
    <3>2. Parse(buf) = Incomplete
      BY <2>1, <2>2, <3>1, NumberNotYet DEF first, k
    <3>3. QED
      BY <3>2 DEF ParseHeader, buf
  <2>3. CASE n >= k
    <3> DEFINE rest == SubSeq(buf, k + 1, n)
    <3>1. rest \in Seq(Bytes) /\ Len(rest) = n - k /\ \A i \in 1 .. n - k : rest[i] = buf[k + i]
      BY <1>1, <2>1, <2>3
    <3> HIDE DEF rest
    <3>2. ASSUME NEW i \in 1 .. n - k PROVE rest[i] = second[i]
      <4>1. i \in 1 .. l /\ k + i \in 1 .. n
        BY <1>1, <1>3, <2>3
      <4>2. QED
        BY <1>3, <2>1, <3>1, <4>1
    <3>3. Len(rest) < l
      BY <1>1, <1>3, <3>1, <2>3
    <3>4. Parse(rest) = Incomplete
      BY <3>1, <3>2, <3>3, NumberNotYet DEF second, l
    <3>5. \A i \in 1 .. k : buf[i] = first[i]
      BY <1>1, <1>3, <2>1, <2>3
    <3>6. QED
      BY <1>4, <1>5, <2>1, <2>3, <3>4, <3>5 DEF rest, buf
  <2>4. QED
    BY <1>1, <2>2, <2>3
<1>7. ASSUME NEW tail \in Seq(Bytes)
      PROVE  ParseHeader(bytes \o tail) = IF length > MaxPayload THEN TooLarge ELSE <<length, id, Len(bytes)>>
  <2> DEFINE buf == bytes \o tail
             rest == SubSeq(buf, k + 1, Len(buf))
  <2>1. /\ buf \in Seq(Bytes) /\ Len(buf) = k + l + Len(tail) /\ Len(tail) \in Nat
        /\ \A i \in 1 .. k + l : buf[i] = bytes[i]
    BY <1>1, <1>3
  <2> HIDE DEF buf, rest
  <2>2. rest \in Seq(Bytes) /\ Len(rest) = l + Len(tail) /\ \A i \in 1 .. l : rest[i] = buf[k + i]
    <3> DEFINE more == Len(tail)
    <3>0. k \in Nat /\ l \in Nat /\ more \in Nat /\ Len(buf) = k + l + more
      BY <1>1, <2>1
    <3> HIDE DEF more
    <3>1. k \in 0 .. Len(buf) /\ Len(buf) - k = l + more
      BY <3>0
    <3>2. rest \in Seq(Bytes) /\ Len(rest) = Len(buf) - k /\ \A i \in 1 .. Len(buf) - k : rest[i] = buf[k + i]
      BY <2>1, <3>1, Suffix DEF rest
    <3>3. \A i \in 1 .. l : i \in 1 .. l + more
      BY <3>0
    <3>4. QED
      BY <3>1, <3>2, <3>3 DEF more
  <2>3. ASSUME NEW i \in 1 .. l PROVE rest[i] = second[i]
    <3>1. k + i \in 1 .. k + l
      BY <1>1
    <3>2. QED
      BY <1>3, <2>1, <2>2, <3>1
  <2>4. Parse(rest) = <<id, l>>
    BY <1>1, <2>1, <2>2, <2>3, NumberReadBack DEF second, l
  <2>5. Parse(rest)[1] = id /\ Parse(rest)[2] = l /\ Parse(rest) \notin {TooLong, Incomplete}
    BY <1>1, <1>4, <2>4
  <2>6. \A i \in 1 .. k : buf[i] = first[i]
    BY <1>1, <1>3, <2>1
  <2>7. Len(buf) >= k
    BY <1>1, <2>1
  <2>8. ParseHeader(buf)
          = IF length > MaxPayload THEN TooLarge ELSE <<length, Parse(rest)[1], k + Parse(rest)[2]>>
    BY <1>5, <2>1, <2>5, <2>6, <2>7 DEF rest
  <2>9. QED
    BY <1>3, <2>5, <2>8 DEF buf
<1>8. QED
  BY <1>2, <1>6, <1>7

\* Four groups are less than all the numbers, so three are, and fewer.
LEMMA PowersInRange ==
  /\ 0 \in 0 .. Modulus - 1 /\ 1 \in 0 .. Modulus - 1 /\ Modulus - 1 \in 0 .. Modulus - 1
  /\ Base - 1 \in 0 .. Modulus - 1 /\ Base \in 0 .. Modulus - 1
  /\ Base * Base * Base - 1 \in 0 .. Modulus - 1 /\ Base * Base * Base \in 0 .. Modulus - 1
<1> DEFINE two == Base * Base
           three == Base * Base * Base
           four == Base * Base * Base * Base
<1>1. Base \in Nat /\ Base > 1 /\ Modulus \in Nat
  BY HeadersAssumption
<1>2. two \in Nat /\ two >= Base
  <2>1. Base * 1 <= Base * Base
    BY <1>1, ProductGrows
  <2>2. QED
    BY <1>1, <2>1
<1>3. three \in Nat /\ three >= two
  <2>1. two * 1 <= two * Base
    BY <1>1, <1>2, ProductGrows
  <2>2. QED
    BY <1>1, <1>2, <2>1
<1>4. four \in Nat /\ four >= three
  <2>1. three * 1 <= three * Base
    BY <1>1, <1>3, ProductGrows
  <2>2. QED
    BY <1>1, <1>3, <2>1
<1>5. four < Modulus
  BY HeadersAssumption
<1> HIDE DEF two, three, four
<1>6. QED
  BY <1>1, <1>2, <1>3, <1>4, <1>5 DEF three

\* Every buffer of the samples is one of bytes.
LEMMA SampleBuffers ==
  ASSUME NEW i \in MCBuffers
  PROVE  i.bytes \in Seq(Bytes)
<1>1. ASSUME NEW n \in Nat PROVE [1 .. n -> Bytes] \subseteq Seq(Bytes) /\ [1 .. n -> Going] \subseteq Seq(Bytes)
  BY DEF Going
<1>2. ASSUME NEW b \in Short PROVE b \in Seq(Bytes)
  <2>1. PICK n \in 0 .. 3 : b \in [1 .. n -> Bytes]
    BY DEF Short
  <2>2. QED
    BY <1>1, <2>1
<1>3. ASSUME NEW s \in Start, NEW b \in Bytes PROVE Append(s, b) \in Seq(Bytes)
  <2>1. PICK n \in 3 .. 5 : s \in [1 .. n -> Going]
    BY DEF Start
  <2>2. s \in Seq(Bytes)
    BY <1>1, <2>1
  <2>3. QED
    BY <2>2
<1>4. CASE i \in [kind : {"buffer"}, bytes : Short]
  BY <1>2, <1>4
<1>5. CASE i \in {[kind |-> "buffer", bytes |-> Append(s, b)] : s \in Start, b \in Bytes}
  <2>1. PICK s \in Start, b \in Bytes : i = [kind |-> "buffer", bytes |-> Append(s, b)]
    BY <1>5
  <2>2. i.bytes = Append(s, b)
    BY <2>1
  <2>3. QED
    BY <1>3, <2>2
<1>6. QED
  BY <1>4, <1>5 DEF MCBuffers

\* Headers are read as they were written, and both readers agree.
THEOREM HeadersInvariant == Spec => []HeadersAgree
<1>1. InputInv => HeadersAgree
  <2> SUFFICES ASSUME InputInv PROVE HeadersAgree
    OBVIOUS
  <2>1. ASSUME Is("buffer")
        PROVE  /\ Parse(input.bytes) # Incomplete => Read(input.bytes) = Parse(input.bytes)
               /\ Len(Parse(input.bytes)) = 2 =>
                    \A n \in 0 .. Parse(input.bytes)[2] - 1 : Parse(SubSeq(input.bytes, 1, n)) = Incomplete
    <3>1. input \in MCBuffers
      BY <2>1, InputKinds DEF InputInv, Is
    <3>2. input.bytes \in Seq(Bytes)
      BY <3>1, SampleBuffers
    <3>3. QED
      BY <3>2, ReadersAgree
  <2>2. ASSUME Is("header")
        PROVE  LET bytes == Header(input.length, input.id)
               IN \A n \in 0 .. Len(bytes) :
                    ParseHeader(SubSeq(bytes, 1, n) \o (IF n = Len(bytes) THEN <<Byte(0, TRUE)>> ELSE <<>>))
                      = IF n < Len(bytes) THEN Incomplete
                        ELSE IF input.length > MaxPayload THEN TooLarge ELSE <<input.length, input.id, n>>
    <3> DEFINE bytes == Header(input.length, input.id)
               start(n) == SubSeq(bytes, 1, n)
    <3>1. input \in MCHeaders
      BY <2>2, InputKinds DEF InputInv, Is
    <3>2. input.id \in 0 .. Modulus - 1 /\ input.length \in 0 .. Modulus - 1
      <4>1. Base - 1 \in 0 .. Modulus - 1 /\ Base \in 0 .. Modulus - 1 /\ 1 \in 0 .. Modulus - 1
            /\ Base * Base * Base - 1 \in 0 .. Modulus - 1 /\ Base * Base * Base \in 0 .. Modulus - 1
            /\ 0 \in 0 .. Modulus - 1 /\ Modulus - 1 \in 0 .. Modulus - 1
            /\ MaxPayload \in 0 .. Modulus - 1 /\ MaxPayload + 1 \in 0 .. Modulus - 1
        BY PowersInRange, HeadersAssumption
      <4>2. QED
        BY <3>1, <4>1 DEF MCHeaders
    <3>3. /\ \A n \in 0 .. Len(bytes) - 1 : ParseHeader(start(n)) = Incomplete
          /\ \A rest \in Seq(Bytes) :
               ParseHeader(bytes \o rest)
                 = IF input.length > MaxPayload THEN TooLarge ELSE <<input.length, input.id, Len(bytes)>>
      BY <3>2, HeaderReadBack
    <3>4. bytes \in Seq(Bytes)
      BY <3>2, EncodedGroups DEF Header
    <3> HIDE DEF bytes
    <3>5. <<Byte(0, TRUE)>> \in Seq(Bytes)
      BY HeadersAssumption DEF Byte, Bytes
    <3> SUFFICES ASSUME NEW n \in 0 .. Len(bytes)
                 PROVE  ParseHeader(start(n) \o (IF n = Len(bytes) THEN <<Byte(0, TRUE)>> ELSE <<>>))
                          = IF n < Len(bytes) THEN Incomplete
                            ELSE IF input.length > MaxPayload THEN TooLarge ELSE <<input.length, input.id, n>>
      BY DEF bytes
    <3>6. CASE n = Len(bytes)
      <4>1. start(n) = bytes
        BY <3>4, <3>6
      <4>2. ~(n < Len(bytes))
        BY <3>6
      <4>3. ParseHeader(bytes \o <<Byte(0, TRUE)>>)
              = IF input.length > MaxPayload THEN TooLarge ELSE <<input.length, input.id, Len(bytes)>>
        BY <3>3, <3>5
      <4>4. QED
        BY <3>6, <4>1, <4>2, <4>3
    <3>7. CASE n # Len(bytes)
      <4>1. start(n) \in Seq(Bytes)
        BY <3>4
      <4>2. start(n) \o <<>> = start(n)
        BY <4>1
      <4>3. n \in 0 .. Len(bytes) - 1 /\ n < Len(bytes)
        BY <3>4, <3>7
      <4>4. ParseHeader(start(n)) = Incomplete
        BY <3>3, <4>3
      <4>5. QED
        BY <3>7, <4>2, <4>3, <4>4
    <3>8. QED
      BY <3>6, <3>7
  <2>3. QED
    BY <2>1, <2>2 DEF HeadersAgree
<1>2. QED
  BY <1>1, InputInvariant, PTL

-----------------------------------------------------------------------------
(***************************************************************************)
(* The entities and the arms of their commands.                            *)
(***************************************************************************)

\* The entities of each kind.
OfKind(kind) ==
  CASE kind = "switch" -> {"relay", "safe_state", "power_on", "buzzer"}
    [] kind = "number" -> {"max_on", "max_daily", "rain_hold_hours"}
    [] kind = "select" -> {"exclusive_set", "mode"}
    [] kind = "binary_sensor" -> {"tripped", "daily_capped", "schedule_loaded"}
    [] kind = "sensor" -> {"on_today", "total", "schedule_rev", "uptime", "rssi",
                              "heap", "heap_min"}
    [] kind = "text_sensor" -> {"link", "local_time", "schedule_info", "ota_status",
                                   "rain_hold", "rtc", "last_crash", "reset_reason"}
    [] kind = "button" -> {"all_off", "restart", "clear_crash"}
    [] kind = "update" -> {"update"}
    [] kind = "service" -> {"set_schedule", "clear_schedule", "ota", "debug_crash"}

\* The kinds are told apart by their listing.
LEMMA ListedAsItIs ==
  /\ Kinds = {"switch", "number", "select", "binary_sensor", "sensor", "text_sensor",
                "button", "update", "service"}
  /\ \A k, l \in Kinds : ListMessage[k].id = ListMessage[l].id => k = l
<1>1. Kinds = {"switch", "number", "select", "binary_sensor", "sensor", "text_sensor",
                "button", "update", "service"}
  BY DEF Kinds, ListMessage
<1>2. /\ ListMessage["switch"].id = 17 /\ ListMessage["number"].id = 49 /\ ListMessage["select"].id = 52
      /\ ListMessage["binary_sensor"].id = 12 /\ ListMessage["sensor"].id = 16
      /\ ListMessage["text_sensor"].id = 18 /\ ListMessage["button"].id = 61
      /\ ListMessage["update"].id = 116 /\ ListMessage["service"].id = 41
  BY DEF ListMessage, Message, ListEntitiesSwitchResponse, ListEntitiesNumberResponse,
     ListEntitiesSelectResponse, ListEntitiesBinarySensorResponse, ListEntitiesSensorResponse,
     ListEntitiesTextSensorResponse, ListEntitiesButtonResponse, ListEntitiesUpdateResponse,
     ListEntitiesServicesResponse
<1>3. QED
  BY <1>1, <1>2

\* The entities of each kind are those, and every entity is of one.
LEMMA KindsOfGroups ==
  /\ \A g \in OfKind("switch") : g \in Groups /\ KindOf(g) = "switch"
  /\ \A g \in OfKind("number") : g \in Groups /\ KindOf(g) = "number"
  /\ \A g \in OfKind("select") : g \in Groups /\ KindOf(g) = "select"
  /\ \A g \in OfKind("binary_sensor") : g \in Groups /\ KindOf(g) = "binary_sensor"
  /\ \A g \in OfKind("sensor") : g \in Groups /\ KindOf(g) = "sensor"
  /\ \A g \in OfKind("text_sensor") : g \in Groups /\ KindOf(g) = "text_sensor"
  /\ \A g \in OfKind("button") : g \in Groups /\ KindOf(g) = "button"
  /\ \A g \in OfKind("update") : g \in Groups /\ KindOf(g) = "update"
  /\ \A g \in OfKind("service") : g \in Groups /\ KindOf(g) = "service"
  /\ \A g \in Groups : KindOf(g) \in Kinds /\ g \in OfKind(KindOf(g))
<1>1. DOMAIN OfRelay = {"relay", "max_on", "tripped", "safe_state", "power_on",
                       "exclusive_set", "max_daily", "on_today", "total", "daily_capped"}
  BY DEF OfRelay
<1>2. DOMAIN OfBoard = {"mode", "link", "local_time", "schedule_loaded", "schedule_rev",
                       "schedule_info", "uptime", "rssi", "all_off", "restart",
                       "set_schedule", "clear_schedule", "ota", "ota_status", "buzzer",
                       "heap", "rain_hold_hours", "rain_hold", "update", "rtc",
                       "last_crash", "clear_crash", "debug_crash", "reset_reason",
                       "heap_min"}
  BY DEF OfBoard
<1>3. \A g \in OfKind("switch") : g \in Groups /\ KindOf(g) = "switch"
  BY <1>1, <1>2 DEF OfKind, Groups, KindOf, OfRelay, OfBoard
<1>4. \A g \in OfKind("number") : g \in Groups /\ KindOf(g) = "number"
  BY <1>1, <1>2 DEF OfKind, Groups, KindOf, OfRelay, OfBoard
<1>5. \A g \in OfKind("select") : g \in Groups /\ KindOf(g) = "select"
  BY <1>1, <1>2 DEF OfKind, Groups, KindOf, OfRelay, OfBoard
<1>6. \A g \in OfKind("binary_sensor") : g \in Groups /\ KindOf(g) = "binary_sensor"
  BY <1>1, <1>2 DEF OfKind, Groups, KindOf, OfRelay, OfBoard
<1>7. \A g \in OfKind("sensor") : g \in Groups /\ KindOf(g) = "sensor"
  BY <1>1, <1>2 DEF OfKind, Groups, KindOf, OfRelay, OfBoard
<1>8. \A g \in OfKind("text_sensor") : g \in Groups /\ KindOf(g) = "text_sensor"
  BY <1>1, <1>2 DEF OfKind, Groups, KindOf, OfRelay, OfBoard
<1>9. \A g \in OfKind("button") : g \in Groups /\ KindOf(g) = "button"
  BY <1>1, <1>2 DEF OfKind, Groups, KindOf, OfRelay, OfBoard
<1>10. \A g \in OfKind("update") : g \in Groups /\ KindOf(g) = "update"
  BY <1>1, <1>2 DEF OfKind, Groups, KindOf, OfRelay, OfBoard
<1>11. \A g \in OfKind("service") : g \in Groups /\ KindOf(g) = "service"
  BY <1>1, <1>2 DEF OfKind, Groups, KindOf, OfRelay, OfBoard
<1>12. Groups = UNION {OfKind(k) : k \in Kinds}
  BY <1>1, <1>2, ListedAsItIs DEF Groups, OfKind
<1>13. \A g \in Groups : KindOf(g) \in Kinds /\ g \in OfKind(KindOf(g))
  BY <1>3, <1>4, <1>5, <1>6, <1>7, <1>8, <1>9, <1>10, <1>11, <1>12, ListedAsItIs
<1>14. QED
  BY <1>3, <1>4, <1>5, <1>6, <1>7, <1>8, <1>9, <1>10, <1>11, <1>13

\* A state of a type fits an entity.
Fits(group, type) == HasState(KindOf(group)) /\ StateMessage(KindOf(group), type) # NoMessage

\* What type of state fits which entities.
LEMMA TypesFit ==
  /\ \A g \in OfKind("switch") \cup OfKind("binary_sensor") : Fits(g, "Bool")
  /\ \A g \in OfKind("number") \cup OfKind("sensor") : Fits(g, "Float")
  /\ \A g \in OfKind("select") \cup OfKind("text_sensor") : Fits(g, "Text")
  /\ \A g \in OfKind("update") : Fits(g, "Update")
<1>1. NoMessage \notin {SwitchStateResponse, BinarySensorStateResponse, NumberStateResponse,
        SensorStateResponse, SelectStateResponse, TextSensorStateResponse, UpdateStateResponse}
  BY NoMessageAssumption DEF Messages, Responses
<1>2. /\ StateMessage("switch", "Bool") = SwitchStateResponse
      /\ StateMessage("binary_sensor", "Bool") = BinarySensorStateResponse
      /\ StateMessage("number", "Float") = NumberStateResponse
      /\ StateMessage("sensor", "Float") = SensorStateResponse
      /\ StateMessage("select", "Text") = SelectStateResponse
      /\ StateMessage("text_sensor", "Text") = TextSensorStateResponse
      /\ StateMessage("update", "Update") = UpdateStateResponse
  BY DEF StateMessage
<1>3. QED
  BY <1>1, <1>2, KindsOfGroups DEF Fits, HasState

\* Whatever is published fits the entity it is of.
LEMMA PublishedFit ==
  \A p \in BootPublished \cup OtherPublished : Fits(p.group, p.type)
<1>1. ASSUME NEW p, p.type = "Bool",
             p.group \in {"relay", "tripped", "safe_state", "power_on", "daily_capped", "buzzer", "schedule_loaded"}
      PROVE  Fits(p.group, p.type)
  BY <1>1, TypesFit DEF OfKind
<1>2. ASSUME NEW p, p.type = "Float",
             p.group \in {"max_on", "max_daily", "on_today", "total", "uptime", "schedule_rev",
                          "rain_hold_hours", "heap", "heap_min", "rssi"}
      PROVE  Fits(p.group, p.type)
  BY <1>2, TypesFit DEF OfKind
<1>3. ASSUME NEW p, p.type = "Text",
             p.group \in {"exclusive_set", "mode", "link", "local_time", "reset_reason", "last_crash",
                          "schedule_info", "rain_hold", "rtc", "ota_status"}
      PROVE  Fits(p.group, p.type)
  BY <1>3, TypesFit DEF OfKind
<1>4. ASSUME NEW p, p.type = "Update", p.group = "update" PROVE Fits(p.group, p.type)
  BY <1>4, TypesFit DEF OfKind
<1>5. ASSUME NEW p \in HeapPublished \cup SchedulePublished \cup RainHoldPublished
      PROVE  Fits(p.group, p.type)
  BY <1>1, <1>2, <1>3, <1>5 DEF HeapPublished, SchedulePublished, RainHoldPublished, Published
<1>6. ASSUME NEW p \in PublishAll PROVE Fits(p.group, p.type)
  BY <1>1, <1>2, <1>3, <1>5, <1>6 DEF PublishAll, Published
<1>7. ASSUME NEW p \in BootPublished PROVE Fits(p.group, p.type)
  BY <1>3, <1>4, <1>6, <1>7 DEF BootPublished, Published
<1>8. ASSUME NEW p \in OtherPublished PROVE Fits(p.group, p.type)
  BY <1>1, <1>2, <1>3, <1>4, <1>5, <1>8 DEF OtherPublished, Published
<1>9. QED
  BY <1>7, <1>8

\* Every entity with a state is published at boot, or when there is a signal.
LEMMA StatesPublished ==
  ASSUME NEW g \in Groups, HasState(KindOf(g))
  PROVE  \E p \in BootPublished \cup {Published("rssi", "Float")} : p.group = g
<1>1. \A x, t : Published(x, t).group = x
  BY DEF Published
<1>2. \A x \in {"relay", "tripped", "safe_state", "power_on", "daily_capped", "buzzer"} :
        Published(x, "Bool") \in PublishAll
  BY DEF PublishAll
<1>3. \A x \in {"max_on", "max_daily", "on_today", "total", "uptime"} : Published(x, "Float") \in PublishAll
  BY DEF PublishAll
<1>4. \A x \in {"exclusive_set", "mode", "link", "local_time", "reset_reason", "last_crash"} :
        Published(x, "Text") \in PublishAll
  BY DEF PublishAll
<1>5. /\ Published("rain_hold", "Text") \in PublishAll /\ Published("rain_hold_hours", "Float") \in PublishAll
      /\ Published("heap", "Float") \in PublishAll /\ Published("heap_min", "Float") \in PublishAll
      /\ Published("schedule_loaded", "Bool") \in PublishAll
      /\ Published("schedule_rev", "Float") \in PublishAll /\ Published("schedule_info", "Text") \in PublishAll
  BY DEF PublishAll, RainHoldPublished, HeapPublished, SchedulePublished
<1>6. /\ PublishAll \subseteq BootPublished /\ Published("update", "Update") \in BootPublished
      /\ Published("rtc", "Text") \in BootPublished /\ Published("ota_status", "Text") \in BootPublished
  BY DEF BootPublished
<1> HIDE DEF Published
<1>7. /\ \A x \in OfKind("switch") \cup OfKind("binary_sensor") :
           x \in {"relay", "tripped", "safe_state", "power_on", "daily_capped", "buzzer", "schedule_loaded"}
      /\ \A x \in OfKind("number") \cup OfKind("sensor") :
           x \in {"max_on", "max_daily", "on_today", "total", "uptime", "schedule_rev",
                  "rain_hold_hours", "heap", "heap_min", "rssi"}
      /\ \A x \in OfKind("select") \cup OfKind("text_sensor") :
           x \in {"exclusive_set", "mode", "link", "local_time", "reset_reason", "last_crash",
                  "schedule_info", "rain_hold", "rtc", "ota_status"}
      /\ OfKind("update") = {"update"}
  BY DEF OfKind
<1>8. KindOf(g) \in Kinds /\ KindOf(g) \notin {"button", "service"} /\ g \in OfKind(KindOf(g))
  BY KindsOfGroups DEF HasState
<1>9. CASE KindOf(g) \in {"switch", "binary_sensor"}
  <2>1. Published(g, "Bool") \in BootPublished
    BY <1>2, <1>5, <1>6, <1>7, <1>8, <1>9
  <2>2. QED
    BY <1>1, <2>1
<1>10. CASE KindOf(g) \in {"number", "sensor"}
  <2>1. Published(g, "Float") \in BootPublished \cup {Published("rssi", "Float")}
    BY <1>3, <1>5, <1>6, <1>7, <1>8, <1>10
  <2>2. QED
    BY <1>1, <2>1
<1>11. CASE KindOf(g) \in {"select", "text_sensor"}
  <2>1. Published(g, "Text") \in BootPublished
    BY <1>4, <1>5, <1>6, <1>7, <1>8, <1>11
  <2>2. QED
    BY <1>1, <2>1
<1>12. CASE KindOf(g) = "update"
  BY <1>1, <1>6, <1>7, <1>8, <1>12
<1>13. QED
  BY <1>8, <1>9, <1>10, <1>11, <1>12, ListedAsItIs

\* The first of the arms that takes the key of a group.
Takes(arms, g, i) == i \in DOMAIN arms /\ g \in arms[i].keys /\ \A j \in 1 .. i - 1 : g \notin arms[j].keys
Taken(arms, g) == arms[CHOOSE i \in DOMAIN arms : g \in arms[i].keys /\ \A j \in 1 .. i - 1 : g \notin arms[j].keys]

\* An arm that takes the key, and none before it does, is the one taken.
LEMMA FirstArm ==
  ASSUME NEW arms, NEW n \in Nat, DOMAIN arms = 1 .. n, NEW g, NEW k, Takes(arms, g, k)
  PROVE  Taken(arms, g) = arms[k]
<1> DEFINE First(i) == g \in arms[i].keys /\ \A j \in 1 .. i - 1 : g \notin arms[j].keys
<1>1. k \in 1 .. n /\ First(k)
  BY DEF Takes
<1>2. ASSUME NEW i \in 1 .. n, First(i) PROVE i = k
  <2>1. ~(i < k)
    BY <1>1, <1>2
  <2>2. ~(k < i)
    BY <1>1, <1>2
  <2>3. QED
    BY <1>1, <2>1, <2>2
<1> HIDE DEF First
<1>3. (CHOOSE i \in 1 .. n : First(i)) = k
  BY <1>1, <1>2
<1>4. QED
  BY <1>3 DEF Taken, First

\* The arms act on the entities of a kind and no others, and show what fits.
Serve(arms, kind, g) ==
  /\ Taken(arms, g).sets = g <=> g \in OfKind(kind)
  /\ Taken(arms, g).shows \subseteq BootPublished
  /\ g \in OfKind(kind) /\ kind \in {"switch", "number", "select"} => \E p \in Taken(arms, g).shows : p.group = g

\* The arms that only log set no entity.
LEMMA NothingIsNoGroup == "nothing" \notin Groups
<1>1. \A k \in Kinds : "nothing" \notin OfKind(k)
  BY ListedAsItIs DEF OfKind
<1>2. QED
  BY <1>1, KindsOfGroups

\* What the arms show is published at boot as well.
LEMMA ShownAtBoot ==
  /\ RainHoldPublished \subseteq BootPublished /\ SchedulePublished \subseteq BootPublished
  /\ \A g \in {"buzzer", "power_on", "safe_state", "relay", "daily_capped"} : Published(g, "Bool") \in BootPublished
  /\ \A g \in {"max_daily", "max_on"} : Published(g, "Float") \in BootPublished
  /\ \A g \in {"mode", "exclusive_set", "last_crash"} : Published(g, "Text") \in BootPublished
  BY DEF BootPublished, PublishAll

\* The arms of a switch command: buzzer, power-on behaviour and safe state by key, any other a relay.
LEMMA SwitchServed ==
  ASSUME NEW g \in Groups
  PROVE  Serve(SwitchArms, "switch", g)
<1>1. DOMAIN SwitchArms = 1 .. 4
  BY DEF SwitchArms
<1>2. /\ SwitchArms[1] = [keys |-> {"buzzer"}, sets |-> "buzzer", shows |-> {Published("buzzer", "Bool")}]
      /\ SwitchArms[2] = [keys |-> {"power_on"}, sets |-> "power_on", shows |-> {Published("power_on", "Bool")}]
      /\ SwitchArms[3] = [keys |-> {"safe_state"}, sets |-> "safe_state", shows |-> {Published("safe_state", "Bool")}]
      /\ SwitchArms[4] = [keys |-> Groups, sets |-> "relay", shows |-> {Published("relay", "Bool")}]
  BY DEF SwitchArms, Arm, LastArm
<1>3. /\ SwitchArms[1].keys = {"buzzer"} /\ SwitchArms[1].sets = "buzzer" /\ SwitchArms[1].shows = {Published("buzzer", "Bool")}
      /\ SwitchArms[2].keys = {"power_on"} /\ SwitchArms[2].sets = "power_on" /\ SwitchArms[2].shows = {Published("power_on", "Bool")}
      /\ SwitchArms[3].keys = {"safe_state"} /\ SwitchArms[3].sets = "safe_state" /\ SwitchArms[3].shows = {Published("safe_state", "Bool")}
      /\ SwitchArms[4].keys = Groups /\ SwitchArms[4].sets = "relay" /\ SwitchArms[4].shows = {Published("relay", "Bool")}
  BY <1>2
<1>4. CASE g = "buzzer"
  <2>1. Takes(SwitchArms, g, 1)
    BY <1>1, <1>3, <1>4 DEF Takes
  <2>2. Taken(SwitchArms, g) = SwitchArms[1]
    BY <1>1, <2>1, FirstArm
  <2>3. SwitchArms[1].sets = g <=> g \in OfKind("switch")
    BY <1>3, <1>4 DEF OfKind
  <2>4. SwitchArms[1].shows \subseteq BootPublished
    BY <1>3, ShownAtBoot
  <2>5. g \in OfKind("switch") => \E p \in SwitchArms[1].shows : p.group = g
    BY <1>3, <1>4 DEF OfKind, Published
  <2>6. QED
    BY <2>2, <2>3, <2>4, <2>5 DEF Serve
<1>5. CASE g = "power_on"
  <2>1. Takes(SwitchArms, g, 2)
    BY <1>1, <1>3, <1>5 DEF Takes
  <2>2. Taken(SwitchArms, g) = SwitchArms[2]
    BY <1>1, <2>1, FirstArm
  <2>3. SwitchArms[2].sets = g <=> g \in OfKind("switch")
    BY <1>3, <1>5 DEF OfKind
  <2>4. SwitchArms[2].shows \subseteq BootPublished
    BY <1>3, ShownAtBoot
  <2>5. g \in OfKind("switch") => \E p \in SwitchArms[2].shows : p.group = g
    BY <1>3, <1>5 DEF OfKind, Published
  <2>6. QED
    BY <2>2, <2>3, <2>4, <2>5 DEF Serve
<1>6. CASE g = "safe_state"
  <2>1. Takes(SwitchArms, g, 3)
    BY <1>1, <1>3, <1>6 DEF Takes
  <2>2. Taken(SwitchArms, g) = SwitchArms[3]
    BY <1>1, <2>1, FirstArm
  <2>3. SwitchArms[3].sets = g <=> g \in OfKind("switch")
    BY <1>3, <1>6 DEF OfKind
  <2>4. SwitchArms[3].shows \subseteq BootPublished
    BY <1>3, ShownAtBoot
  <2>5. g \in OfKind("switch") => \E p \in SwitchArms[3].shows : p.group = g
    BY <1>3, <1>6 DEF OfKind, Published
  <2>6. QED
    BY <2>2, <2>3, <2>4, <2>5 DEF Serve
<1>7. CASE g \notin {"buzzer", "power_on", "safe_state"}
  <2>1. Takes(SwitchArms, g, 4)
    BY <1>1, <1>3, <1>7 DEF Takes
  <2>2. Taken(SwitchArms, g) = SwitchArms[4]
    BY <1>1, <2>1, FirstArm
  <2>3. SwitchArms[4].sets = g <=> g \in OfKind("switch")
    BY <1>3, <1>7 DEF OfKind
  <2>4. SwitchArms[4].shows \subseteq BootPublished
    BY <1>3, ShownAtBoot
  <2>5. g \in OfKind("switch") => \E p \in SwitchArms[4].shows : p.group = g
    BY <1>3, <1>7 DEF OfKind, Published
  <2>6. QED
    BY <2>2, <2>3, <2>4, <2>5 DEF Serve
<1>8. QED
  BY <1>4, <1>5, <1>6, <1>7

\* The arms of a number command: rain hold hours and daily limit by key, any other a relay's limit.
LEMMA NumberServed ==
  ASSUME NEW g \in Groups
  PROVE  Serve(NumberArms, "number", g)
<1>1. DOMAIN NumberArms = 1 .. 3
  BY DEF NumberArms
<1>2. /\ NumberArms[1] = [keys |-> {"rain_hold_hours"}, sets |-> "rain_hold_hours", shows |-> RainHoldPublished]
      /\ NumberArms[2] = [keys |-> {"max_daily"}, sets |-> "max_daily", shows |-> {Published("max_daily", "Float"), Published("daily_capped", "Bool")}]
      /\ NumberArms[3] = [keys |-> Groups, sets |-> "max_on", shows |-> {Published("max_on", "Float")}]
  BY DEF NumberArms, Arm, LastArm
<1>3. /\ NumberArms[1].keys = {"rain_hold_hours"} /\ NumberArms[1].sets = "rain_hold_hours" /\ NumberArms[1].shows = RainHoldPublished
      /\ NumberArms[2].keys = {"max_daily"} /\ NumberArms[2].sets = "max_daily" /\ NumberArms[2].shows = {Published("max_daily", "Float"), Published("daily_capped", "Bool")}
      /\ NumberArms[3].keys = Groups /\ NumberArms[3].sets = "max_on" /\ NumberArms[3].shows = {Published("max_on", "Float")}
  BY <1>2
<1>4. CASE g = "rain_hold_hours"
  <2>1. Takes(NumberArms, g, 1)
    BY <1>1, <1>3, <1>4 DEF Takes
  <2>2. Taken(NumberArms, g) = NumberArms[1]
    BY <1>1, <2>1, FirstArm
  <2>3. NumberArms[1].sets = g <=> g \in OfKind("number")
    BY <1>3, <1>4 DEF OfKind
  <2>4. NumberArms[1].shows \subseteq BootPublished
    BY <1>3, ShownAtBoot
  <2>5. g \in OfKind("number") => \E p \in NumberArms[1].shows : p.group = g
    BY <1>3, <1>4 DEF OfKind, Published, RainHoldPublished
  <2>6. QED
    BY <2>2, <2>3, <2>4, <2>5 DEF Serve
<1>5. CASE g = "max_daily"
  <2>1. Takes(NumberArms, g, 2)
    BY <1>1, <1>3, <1>5 DEF Takes
  <2>2. Taken(NumberArms, g) = NumberArms[2]
    BY <1>1, <2>1, FirstArm
  <2>3. NumberArms[2].sets = g <=> g \in OfKind("number")
    BY <1>3, <1>5 DEF OfKind
  <2>4. NumberArms[2].shows \subseteq BootPublished
    BY <1>3, ShownAtBoot
  <2>5. g \in OfKind("number") => \E p \in NumberArms[2].shows : p.group = g
    BY <1>3, <1>5 DEF OfKind, Published
  <2>6. QED
    BY <2>2, <2>3, <2>4, <2>5 DEF Serve
<1>6. CASE g \notin {"rain_hold_hours", "max_daily"}
  <2>1. Takes(NumberArms, g, 3)
    BY <1>1, <1>3, <1>6 DEF Takes
  <2>2. Taken(NumberArms, g) = NumberArms[3]
    BY <1>1, <2>1, FirstArm
  <2>3. NumberArms[3].sets = g <=> g \in OfKind("number")
    BY <1>3, <1>6 DEF OfKind
  <2>4. NumberArms[3].shows \subseteq BootPublished
    BY <1>3, ShownAtBoot
  <2>5. g \in OfKind("number") => \E p \in NumberArms[3].shows : p.group = g
    BY <1>3, <1>6 DEF OfKind, Published
  <2>6. QED
    BY <2>2, <2>3, <2>4, <2>5 DEF Serve
<1>7. QED
  BY <1>4, <1>5, <1>6

\* The arms of a select command: mode and exclusive set by key, any other is only logged.
LEMMA SelectServed ==
  ASSUME NEW g \in Groups
  PROVE  Serve(SelectArms, "select", g)
<1>1. DOMAIN SelectArms = 1 .. 3
  BY DEF SelectArms
<1>2. /\ SelectArms[1] = [keys |-> {"mode"}, sets |-> "mode", shows |-> {Published("mode", "Text")}]
      /\ SelectArms[2] = [keys |-> {"exclusive_set"}, sets |-> "exclusive_set", shows |-> {Published("exclusive_set", "Text")}]
      /\ SelectArms[3] = [keys |-> Groups, sets |-> "nothing", shows |-> {}]
  BY DEF SelectArms, Arm, LastArm
<1>3. /\ SelectArms[1].keys = {"mode"} /\ SelectArms[1].sets = "mode" /\ SelectArms[1].shows = {Published("mode", "Text")}
      /\ SelectArms[2].keys = {"exclusive_set"} /\ SelectArms[2].sets = "exclusive_set" /\ SelectArms[2].shows = {Published("exclusive_set", "Text")}
      /\ SelectArms[3].keys = Groups /\ SelectArms[3].sets = "nothing" /\ SelectArms[3].shows = {}
  BY <1>2
<1>4. CASE g = "mode"
  <2>1. Takes(SelectArms, g, 1)
    BY <1>1, <1>3, <1>4 DEF Takes
  <2>2. Taken(SelectArms, g) = SelectArms[1]
    BY <1>1, <2>1, FirstArm
  <2>3. SelectArms[1].sets = g <=> g \in OfKind("select")
    BY <1>3, <1>4 DEF OfKind
  <2>4. SelectArms[1].shows \subseteq BootPublished
    BY <1>3, ShownAtBoot
  <2>5. g \in OfKind("select") => \E p \in SelectArms[1].shows : p.group = g
    BY <1>3, <1>4 DEF OfKind, Published
  <2>6. QED
    BY <2>2, <2>3, <2>4, <2>5 DEF Serve
<1>5. CASE g = "exclusive_set"
  <2>1. Takes(SelectArms, g, 2)
    BY <1>1, <1>3, <1>5 DEF Takes
  <2>2. Taken(SelectArms, g) = SelectArms[2]
    BY <1>1, <2>1, FirstArm
  <2>3. SelectArms[2].sets = g <=> g \in OfKind("select")
    BY <1>3, <1>5 DEF OfKind
  <2>4. SelectArms[2].shows \subseteq BootPublished
    BY <1>3, ShownAtBoot
  <2>5. g \in OfKind("select") => \E p \in SelectArms[2].shows : p.group = g
    BY <1>3, <1>5 DEF OfKind, Published
  <2>6. QED
    BY <2>2, <2>3, <2>4, <2>5 DEF Serve
<1>6. CASE g \notin {"mode", "exclusive_set"}
  <2>1. Takes(SelectArms, g, 3)
    BY <1>1, <1>3, <1>6 DEF Takes
  <2>2. Taken(SelectArms, g) = SelectArms[3]
    BY <1>1, <2>1, FirstArm
  <2>3. SelectArms[3].sets = g <=> g \in OfKind("select")
    BY <1>3, <1>6, NothingIsNoGroup DEF OfKind
  <2>4. SelectArms[3].shows \subseteq BootPublished
    BY <1>3, ShownAtBoot
  <2>5. g \in OfKind("select") => \E p \in SelectArms[3].shows : p.group = g
    BY <1>3, <1>6 DEF OfKind, Published
  <2>6. QED
    BY <2>2, <2>3, <2>4, <2>5 DEF Serve
<1>7. QED
  BY <1>4, <1>5, <1>6

\* The arms of a button command: all off, clear crash and restart by key, any other is only logged.
LEMMA ButtonServed ==
  ASSUME NEW g \in Groups
  PROVE  Serve(ButtonArms, "button", g)
<1>1. DOMAIN ButtonArms = 1 .. 4
  BY DEF ButtonArms
<1>2. /\ ButtonArms[1] = [keys |-> {"all_off"}, sets |-> "all_off", shows |-> {}]
      /\ ButtonArms[2] = [keys |-> {"clear_crash"}, sets |-> "clear_crash", shows |-> {Published("last_crash", "Text")}]
      /\ ButtonArms[3] = [keys |-> {"restart"}, sets |-> "restart", shows |-> {}]
      /\ ButtonArms[4] = [keys |-> Groups, sets |-> "nothing", shows |-> {}]
  BY DEF ButtonArms, Arm, LastArm
<1>3. /\ ButtonArms[1].keys = {"all_off"} /\ ButtonArms[1].sets = "all_off" /\ ButtonArms[1].shows = {}
      /\ ButtonArms[2].keys = {"clear_crash"} /\ ButtonArms[2].sets = "clear_crash" /\ ButtonArms[2].shows = {Published("last_crash", "Text")}
      /\ ButtonArms[3].keys = {"restart"} /\ ButtonArms[3].sets = "restart" /\ ButtonArms[3].shows = {}
      /\ ButtonArms[4].keys = Groups /\ ButtonArms[4].sets = "nothing" /\ ButtonArms[4].shows = {}
  BY <1>2
<1>4. CASE g = "all_off"
  <2>1. Takes(ButtonArms, g, 1)
    BY <1>1, <1>3, <1>4 DEF Takes
  <2>2. Taken(ButtonArms, g) = ButtonArms[1]
    BY <1>1, <2>1, FirstArm
  <2>3. ButtonArms[1].sets = g <=> g \in OfKind("button")
    BY <1>3, <1>4 DEF OfKind
  <2>4. ButtonArms[1].shows \subseteq BootPublished
    BY <1>3, ShownAtBoot
  <2>5. QED
    BY <2>2, <2>3, <2>4 DEF Serve
<1>5. CASE g = "clear_crash"
  <2>1. Takes(ButtonArms, g, 2)
    BY <1>1, <1>3, <1>5 DEF Takes
  <2>2. Taken(ButtonArms, g) = ButtonArms[2]
    BY <1>1, <2>1, FirstArm
  <2>3. ButtonArms[2].sets = g <=> g \in OfKind("button")
    BY <1>3, <1>5 DEF OfKind
  <2>4. ButtonArms[2].shows \subseteq BootPublished
    BY <1>3, ShownAtBoot
  <2>5. QED
    BY <2>2, <2>3, <2>4 DEF Serve
<1>6. CASE g = "restart"
  <2>1. Takes(ButtonArms, g, 3)
    BY <1>1, <1>3, <1>6 DEF Takes
  <2>2. Taken(ButtonArms, g) = ButtonArms[3]
    BY <1>1, <2>1, FirstArm
  <2>3. ButtonArms[3].sets = g <=> g \in OfKind("button")
    BY <1>3, <1>6 DEF OfKind
  <2>4. ButtonArms[3].shows \subseteq BootPublished
    BY <1>3, ShownAtBoot
  <2>5. QED
    BY <2>2, <2>3, <2>4 DEF Serve
<1>7. CASE g \notin {"all_off", "clear_crash", "restart"}
  <2>1. Takes(ButtonArms, g, 4)
    BY <1>1, <1>3, <1>7 DEF Takes
  <2>2. Taken(ButtonArms, g) = ButtonArms[4]
    BY <1>1, <2>1, FirstArm
  <2>3. ButtonArms[4].sets = g <=> g \in OfKind("button")
    BY <1>3, <1>7, NothingIsNoGroup DEF OfKind
  <2>4. ButtonArms[4].shows \subseteq BootPublished
    BY <1>3, ShownAtBoot
  <2>5. QED
    BY <2>2, <2>3, <2>4 DEF Serve
<1>8. QED
  BY <1>4, <1>5, <1>6, <1>7

\* The arms of an execute-service command, whose last arm only logs.
LEMMA ServiceServed ==
  ASSUME NEW g \in Groups
  PROVE  Serve(ServiceArms, "service", g)
<1>1. DOMAIN ServiceArms = 1 .. 5
  BY DEF ServiceArms
<1>2. /\ ServiceArms[1] = [keys |-> {"set_schedule"}, sets |-> "set_schedule", shows |-> SchedulePublished]
      /\ ServiceArms[2] = [keys |-> {"clear_schedule"}, sets |-> "clear_schedule", shows |-> SchedulePublished]
      /\ ServiceArms[3] = [keys |-> {"ota"}, sets |-> "ota", shows |-> {}]
      /\ ServiceArms[4] = [keys |-> {"debug_crash"}, sets |-> "debug_crash", shows |-> {}]
      /\ ServiceArms[5] = [keys |-> Groups, sets |-> "nothing", shows |-> {}]
  BY DEF ServiceArms, Arm, LastArm
<1>3. /\ ServiceArms[1].keys = {"set_schedule"} /\ ServiceArms[1].sets = "set_schedule" /\ ServiceArms[1].shows = SchedulePublished
      /\ ServiceArms[2].keys = {"clear_schedule"} /\ ServiceArms[2].sets = "clear_schedule" /\ ServiceArms[2].shows = SchedulePublished
      /\ ServiceArms[3].keys = {"ota"} /\ ServiceArms[3].sets = "ota" /\ ServiceArms[3].shows = {}
      /\ ServiceArms[4].keys = {"debug_crash"} /\ ServiceArms[4].sets = "debug_crash" /\ ServiceArms[4].shows = {}
      /\ ServiceArms[5].keys = Groups /\ ServiceArms[5].sets = "nothing" /\ ServiceArms[5].shows = {}
  BY <1>2
<1>4. CASE g = "set_schedule"
  <2>1. Takes(ServiceArms, g, 1)
    BY <1>1, <1>3, <1>4 DEF Takes
  <2>2. Taken(ServiceArms, g) = ServiceArms[1]
    BY <1>1, <2>1, FirstArm
  <2>3. ServiceArms[1].sets = g <=> g \in OfKind("service")
    BY <1>3, <1>4 DEF OfKind
  <2>4. ServiceArms[1].shows \subseteq BootPublished
    BY <1>3, ShownAtBoot
  <2>5. QED
    BY <2>2, <2>3, <2>4 DEF Serve
<1>5. CASE g = "clear_schedule"
  <2>1. Takes(ServiceArms, g, 2)
    BY <1>1, <1>3, <1>5 DEF Takes
  <2>2. Taken(ServiceArms, g) = ServiceArms[2]
    BY <1>1, <2>1, FirstArm
  <2>3. ServiceArms[2].sets = g <=> g \in OfKind("service")
    BY <1>3, <1>5 DEF OfKind
  <2>4. ServiceArms[2].shows \subseteq BootPublished
    BY <1>3, ShownAtBoot
  <2>5. QED
    BY <2>2, <2>3, <2>4 DEF Serve
<1>6. CASE g = "ota"
  <2>1. Takes(ServiceArms, g, 3)
    BY <1>1, <1>3, <1>6 DEF Takes
  <2>2. Taken(ServiceArms, g) = ServiceArms[3]
    BY <1>1, <2>1, FirstArm
  <2>3. ServiceArms[3].sets = g <=> g \in OfKind("service")
    BY <1>3, <1>6 DEF OfKind
  <2>4. ServiceArms[3].shows \subseteq BootPublished
    BY <1>3, ShownAtBoot
  <2>5. QED
    BY <2>2, <2>3, <2>4 DEF Serve
<1>7. CASE g = "debug_crash"
  <2>1. Takes(ServiceArms, g, 4)
    BY <1>1, <1>3, <1>7 DEF Takes
  <2>2. Taken(ServiceArms, g) = ServiceArms[4]
    BY <1>1, <2>1, FirstArm
  <2>3. ServiceArms[4].sets = g <=> g \in OfKind("service")
    BY <1>3, <1>7 DEF OfKind
  <2>4. ServiceArms[4].shows \subseteq BootPublished
    BY <1>3, ShownAtBoot
  <2>5. QED
    BY <2>2, <2>3, <2>4 DEF Serve
<1>8. CASE g \notin {"set_schedule", "clear_schedule", "ota", "debug_crash"}
  <2>1. Takes(ServiceArms, g, 5)
    BY <1>1, <1>3, <1>8 DEF Takes
  <2>2. Taken(ServiceArms, g) = ServiceArms[5]
    BY <1>1, <2>1, FirstArm
  <2>3. ServiceArms[5].sets = g <=> g \in OfKind("service")
    BY <1>3, <1>8, NothingIsNoGroup DEF OfKind
  <2>4. ServiceArms[5].shows \subseteq BootPublished
    BY <1>3, ShownAtBoot
  <2>5. QED
    BY <2>2, <2>3, <2>4 DEF Serve
<1>9. QED
  BY <1>4, <1>5, <1>6, <1>7, <1>8

\* The arms of an update command: the update by key, any other is only logged.
LEMMA UpdateServed ==
  ASSUME NEW g \in Groups
  PROVE  Serve(UpdateArms, "update", g)
<1>1. DOMAIN UpdateArms = 1 .. 2
  BY DEF UpdateArms
<1>2. /\ UpdateArms[1] = [keys |-> {"update"}, sets |-> "update", shows |-> {}]
      /\ UpdateArms[2] = [keys |-> Groups, sets |-> "nothing", shows |-> {}]
  BY DEF UpdateArms, Arm, LastArm
<1>3. /\ UpdateArms[1].keys = {"update"} /\ UpdateArms[1].sets = "update" /\ UpdateArms[1].shows = {}
      /\ UpdateArms[2].keys = Groups /\ UpdateArms[2].sets = "nothing" /\ UpdateArms[2].shows = {}
  BY <1>2
<1>4. CASE g = "update"
  <2>1. Takes(UpdateArms, g, 1)
    BY <1>1, <1>3, <1>4 DEF Takes
  <2>2. Taken(UpdateArms, g) = UpdateArms[1]
    BY <1>1, <2>1, FirstArm
  <2>3. UpdateArms[1].sets = g <=> g \in OfKind("update")
    BY <1>3, <1>4 DEF OfKind
  <2>4. UpdateArms[1].shows \subseteq BootPublished
    BY <1>3, ShownAtBoot
  <2>5. QED
    BY <2>2, <2>3, <2>4 DEF Serve
<1>5. CASE g \notin {"update"}
  <2>1. Takes(UpdateArms, g, 2)
    BY <1>1, <1>3, <1>5 DEF Takes
  <2>2. Taken(UpdateArms, g) = UpdateArms[2]
    BY <1>1, <2>1, FirstArm
  <2>3. UpdateArms[2].sets = g <=> g \in OfKind("update")
    BY <1>3, <1>5, NothingIsNoGroup DEF OfKind
  <2>4. UpdateArms[2].shows \subseteq BootPublished
    BY <1>3, ShownAtBoot
  <2>5. QED
    BY <2>2, <2>3, <2>4 DEF Serve
<1>6. QED
  BY <1>4, <1>5

\* The command of a kind of entities.
CommandFor(kind) ==
  CASE kind = "switch" -> "Switch" [] kind = "number" -> "Number" [] kind = "select" -> "Select"
    [] kind = "button" -> "Button" [] kind = "update" -> "Update" [] kind = "service" -> "Service"
    [] OTHER -> "no command"

\* A command acts on the entity of its key exactly when it is one for entities of its
\* kind, whatever arms come first, and what is published after it fits.
THEOREM CommandsServed ==
  ASSUME NEW g \in Groups, NEW ch, NEW id, CommandOf(id) # "none"
  PROVE  LET key == Key(g, ch)
         IN /\ Acts(id, key) <=> CommandOf(id) = CommandFor(KindOf(g))
            /\ \A p \in ArmFor(id, key).shows : Fits(p.group, p.type)
            /\ CommandOf(id) = CommandFor(KindOf(g)) /\ KindOf(g) \in {"switch", "number", "select"} =>
                 \E p \in ArmFor(id, key).shows : p.group = g
<1> DEFINE key == Key(g, ch)
           command == CommandOf(id)
           arm == Taken(ArmsOf(command), g)
<1>1. command \in {"Switch", "Number", "Select", "Button", "Service", "Update"}
  BY DEF CommandOf
<1>2. key[1] = g
  BY DEF Key
<1>3. ArmFor(id, key) = arm
  BY <1>2 DEF ArmFor, Taken
<1>4. KindOf(g) \in Kinds /\ g \in OfKind(KindOf(g)) /\ \A k \in Kinds : g \in OfKind(k) => k = KindOf(g)
  BY KindsOfGroups, ListedAsItIs
<1> HIDE DEF command, key, arm
<1>5. ASSUME NEW kind \in Kinds, NEW arms, Serve(arms, kind, g), ArmsOf(command) = arms,
             \A k \in Kinds : command = CommandFor(k) <=> k = kind
      PROVE  /\ arm.sets = g <=> command = CommandFor(KindOf(g))
             /\ \A p \in arm.shows : Fits(p.group, p.type)
             /\ command = CommandFor(KindOf(g)) /\ KindOf(g) \in {"switch", "number", "select"} =>
                  \E p \in arm.shows : p.group = g
  <2>1. arm = Taken(arms, g)
    BY <1>5 DEF arm
  <2>2. g \in OfKind(kind) <=> KindOf(g) = kind
    BY <1>4
  <2>3. command = CommandFor(KindOf(g)) <=> KindOf(g) = kind
    BY <1>4, <1>5
  <2>4. \A p \in arm.shows : Fits(p.group, p.type)
    BY <1>5, <2>1, PublishedFit DEF Serve
  <2>5. arm.sets = g <=> command = CommandFor(KindOf(g))
    BY <1>5, <2>1, <2>2, <2>3 DEF Serve
  <2>6. command = CommandFor(KindOf(g)) /\ KindOf(g) \in {"switch", "number", "select"} =>
          \E p \in arm.shows : p.group = g
    BY <1>5, <2>1, <2>2, <2>3 DEF Serve
  <2>7. QED
    BY <2>4, <2>5, <2>6
<1>6. Acts(id, key) <=> arm.sets = g
  BY <1>2, <1>3 DEF Acts
<1>7. /\ arm.sets = g <=> command = CommandFor(KindOf(g))
      /\ \A p \in arm.shows : Fits(p.group, p.type)
      /\ command = CommandFor(KindOf(g)) /\ KindOf(g) \in {"switch", "number", "select"} =>
           \E p \in arm.shows : p.group = g
  <2>1. CASE command = "Switch"
    <3>1. "switch" \in Kinds /\ \A k \in Kinds : command = CommandFor(k) <=> k = "switch"
      BY <2>1, ListedAsItIs DEF CommandFor
    <3>2. ArmsOf(command) = SwitchArms
      BY <2>1 DEF ArmsOf
    <3>3. QED
      BY <1>5, <3>1, <3>2, SwitchServed
  <2>2. CASE command = "Number"
    <3>1. "number" \in Kinds /\ \A k \in Kinds : command = CommandFor(k) <=> k = "number"
      BY <2>2, ListedAsItIs DEF CommandFor
    <3>2. ArmsOf(command) = NumberArms
      BY <2>2 DEF ArmsOf
    <3>3. QED
      BY <1>5, <3>1, <3>2, NumberServed
  <2>3. CASE command = "Select"
    <3>1. "select" \in Kinds /\ \A k \in Kinds : command = CommandFor(k) <=> k = "select"
      BY <2>3, ListedAsItIs DEF CommandFor
    <3>2. ArmsOf(command) = SelectArms
      BY <2>3 DEF ArmsOf
    <3>3. QED
      BY <1>5, <3>1, <3>2, SelectServed
  <2>4. CASE command = "Button"
    <3>1. "button" \in Kinds /\ \A k \in Kinds : command = CommandFor(k) <=> k = "button"
      BY <2>4, ListedAsItIs DEF CommandFor
    <3>2. ArmsOf(command) = ButtonArms
      BY <2>4 DEF ArmsOf
    <3>3. QED
      BY <1>5, <3>1, <3>2, ButtonServed
  <2>5. CASE command = "Service"
    <3>1. "service" \in Kinds /\ \A k \in Kinds : command = CommandFor(k) <=> k = "service"
      BY <2>5, ListedAsItIs DEF CommandFor
    <3>2. ArmsOf(command) = ServiceArms
      BY <2>5 DEF ArmsOf
    <3>3. QED
      BY <1>5, <3>1, <3>2, ServiceServed
  <2>6. CASE command = "Update"
    <3>1. "update" \in Kinds /\ \A k \in Kinds : command = CommandFor(k) <=> k = "update"
      BY <2>6, ListedAsItIs DEF CommandFor
    <3>2. ArmsOf(command) = UpdateArms
      BY <2>6 DEF ArmsOf
    <3>3. QED
      BY <1>5, <3>1, <3>2, UpdateServed
  <2>7. QED
    BY <1>1, <2>1, <2>2, <2>3, <2>4, <2>5, <2>6
<1>8. QED
  BY <1>3, <1>6, <1>7 DEF key, command

\* The messages that list an entity or command one say which by its key.
LEMMA MessagesKeyed ==
  /\ \A kind \in Kinds : "key" \in ListMessage[kind].fields
  /\ \A m \in Requests : CommandOf(m.id) # "none" => "key" \in m.fields
<1>1. /\ "key" \in ListMessage["switch"].fields /\ "key" \in ListMessage["number"].fields
      /\ "key" \in ListMessage["select"].fields /\ "key" \in ListMessage["binary_sensor"].fields
      /\ "key" \in ListMessage["sensor"].fields /\ "key" \in ListMessage["text_sensor"].fields
      /\ "key" \in ListMessage["button"].fields /\ "key" \in ListMessage["update"].fields
      /\ "key" \in ListMessage["service"].fields
  BY DEF ListMessage, Message, Named, WithIcon, ListEntitiesSwitchResponse, ListEntitiesNumberResponse,
     ListEntitiesSelectResponse, ListEntitiesBinarySensorResponse, ListEntitiesSensorResponse,
     ListEntitiesTextSensorResponse, ListEntitiesButtonResponse, ListEntitiesUpdateResponse,
     ListEntitiesServicesResponse
<1>2. /\ "key" \in SwitchCommandRequest.fields /\ "key" \in NumberCommandRequest.fields
      /\ "key" \in SelectCommandRequest.fields /\ "key" \in ButtonCommandRequest.fields
      /\ "key" \in UpdateCommandRequest.fields /\ "key" \in ExecuteServiceRequest.fields
  BY DEF Message, SwitchCommandRequest, NumberCommandRequest, SelectCommandRequest, ButtonCommandRequest,
     UpdateCommandRequest, ExecuteServiceRequest
<1>3. ASSUME NEW m \in Requests, CommandOf(m.id) # "none"
      PROVE  m \in {SwitchCommandRequest, NumberCommandRequest, SelectCommandRequest, ButtonCommandRequest,
                    UpdateCommandRequest, ExecuteServiceRequest}
  <2>1. m.id \in {33, 51, 54, 62, 118, 42}
    BY <1>3 DEF CommandOf, Message, SwitchCommandRequest, NumberCommandRequest, SelectCommandRequest,
       ButtonCommandRequest, UpdateCommandRequest, ExecuteServiceRequest
  <2>2. /\ HelloRequest.id = 1 /\ AuthenticationRequest.id = 3 /\ DisconnectRequest.id = 5
        /\ DisconnectResponse.id = 6 /\ PingRequest.id = 7 /\ PingResponse.id = 8
        /\ DeviceInfoRequest.id = 9 /\ DeviceCapabilitiesRequest.id = 149 /\ ListEntitiesRequest.id = 11
        /\ SubscribeStatesRequest.id = 20 /\ SubscribeLogsRequest.id = 28 /\ GetTimeRequest.id = 36
        /\ GetTimeResponse.id = 37
    BY DEF Message, HelloRequest, AuthenticationRequest, DisconnectRequest, DisconnectResponse, PingRequest,
       PingResponse, DeviceInfoRequest, DeviceCapabilitiesRequest, ListEntitiesRequest,
       SubscribeStatesRequest, SubscribeLogsRequest, GetTimeRequest, GetTimeResponse
  <2>3. QED
    BY <2>1, <2>2 DEF Requests
<1>4. QED
  BY <1>1, <1>2, <1>3, ListedAsItIs

\* Every entity works from Home Assistant, for every command that may come.
THEOREM EntitiesInvariant == Spec => []EntitiesServed
<1>1. InputInv => EntitiesServed
  <2> SUFFICES ASSUME InputInv, Is("command") PROVE EntitiesServed
    BY DEF EntitiesServed
  <2> DEFINE group == input.key[1]
             kind == KindOf(group)
             id == input.message.id
  <2>1. input \in MCCommands
    BY InputKinds DEF InputInv, Is
  <2>2. PICK g \in Groups, ch \in 0 .. 2 : input.key = Key(g, ch)
    BY <2>1 DEF MCCommands, Registry, Groups
  <2>3. group = g
    BY <2>2 DEF Key
  <2>4. {k \in Kinds : ListMessage[k].id = ListMessage[kind].id} = {kind}
    BY <2>3, KindsOfGroups, ListedAsItIs
  <2>5. HasState(kind) =>
          \E p \in BootPublished \cup {Published("rssi", "Float")} : p.group = group /\ Fits(p.group, p.type)
    <3>1. Fits("rssi", "Float")
      BY TypesFit DEF OfKind
    <3>2. \A p \in BootPublished \cup {Published("rssi", "Float")} : Fits(p.group, p.type)
      BY <3>1, PublishedFit DEF Published
    <3>3. QED
      BY <2>3, <3>2, StatesPublished
  <2>6. CommandOf(id) # "none" =>
          /\ Acts(id, input.key) <=> CommandOf(id) = CommandFor(kind)
          /\ \A p \in ArmFor(id, input.key).shows : Fits(p.group, p.type)
          /\ CommandOf(id) = CommandFor(kind) /\ kind \in {"switch", "number", "select"} =>
               \E p \in ArmFor(id, input.key).shows : p.group = group
    BY <2>2, <2>3, CommandsServed
  <2>7. /\ "key" \in ListMessage[kind].fields
        /\ CommandOf(id) # "none" => "key" \in input.message.fields
    BY <2>1, <2>3, KindsOfGroups, MessagesKeyed DEF MCCommands
  <2> HIDE DEF group, kind, id
  <2>8. QED
    BY <2>4, <2>5, <2>6, <2>7, PublishedFit, Zenon DEF EntitiesServed, Fits, CommandFor, group, kind, id
<1>2. QED
  BY <1>1, InputInvariant, PTL
=============================================================================
