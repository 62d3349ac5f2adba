------------------------------ MODULE Calendar ------------------------------
(***************************************************************************)
(* The wall clock in its two forms: the registers of the DS3231            *)
(* (core/src/rtc.rs, firmware/src/rtc.rs) and the local time of the        *)
(* schedule (firmware/src/clock.rs), with the calendar arithmetic between. *)
(*                                                                         *)
(* A Unix time is a day and a second of that day: TLC's integers have 32   *)
(* bits where the code's have 64.  Bytes are numbers from 0 to 255, a bit  *)
(* field is what division and remainder leave.                             *)
(***************************************************************************)
EXTENDS Integers, Sequences

NotATime == <<>>
Date(y, m, d) == <<y, m, d>>
Time(day, second) == <<day, second>>

\* 2024-01-01
MinValidDay == 19723

-----------------------------------------------------------------------------
(***************************************************************************)
(* rtc.rs                                                                  *)
(***************************************************************************)
Bcd(v) == 16 * (v \div 10) + (v % 10)

IsBcd(b) == b \div 16 <= 9 /\ b % 16 <= 9

Unbcd(b) == 10 * (b \div 16) + (b % 16)

\* Years begin in March, in eras of 400: the leap day is the last of its year.
DaysFromCivil(date) ==
  LET y == IF date[2] <= 2 THEN date[1] - 1 ELSE date[1]
      era == y \div 400
      yoe == y - era * 400
      mp == (date[2] + 9) % 12
      doy == (153 * mp + 2) \div 5 + date[3] - 1
  IN era * 146097 + yoe * 365 + yoe \div 4 - yoe \div 100 + doy - 719468

\* Mutant: the last day of an era becomes the first of a 401st year.
CivilFromDaysShort(days) ==
  LET z == days + 719468
      era == z \div 146097
      doe == z - era * 146097
      yoe == (doe - doe \div 1460 + doe \div 36524) \div 365
      doy == doe - (365 * yoe + yoe \div 4 - yoe \div 100)
      mp == (5 * doy + 2) \div 153
      m == IF mp < 10 THEN mp + 3 ELSE mp - 9
  IN Date(yoe + era * 400 + (IF m <= 2 THEN 1 ELSE 0), m, doy - (153 * mp + 2) \div 5 + 1)

CivilFromDays(days) ==
  LET z == days + 719468
      era == z \div 146097
      doe == z - era * 146097
      yoe == (doe - doe \div 1460 + doe \div 36524 - doe \div 146096) \div 365
      doy == doe - (365 * yoe + yoe \div 4 - yoe \div 100)
      mp == (5 * doy + 2) \div 153
      m == IF mp < 10 THEN mp + 3 ELSE mp - 9
  IN Date(yoe + era * 400 + (IF m <= 2 THEN 1 ELSE 0), m, doy - (153 * mp + 2) \div 5 + 1)

\* Registers 0 to 6: seconds, minutes, hours, weekday, date, month and century, year.
Encode(t) ==
  LET date == CivilFromDays(t[1])
  IN << Bcd(t[2] % 60), Bcd((t[2] \div 60) % 60), Bcd(t[2] \div 3600), ((t[1] + 3) % 7) + 1,
        Bcd(date[3]), Bcd(date[2]) + (IF date[1] >= 2100 THEN 128 ELSE 0), Bcd(date[1] % 100) >>

\* The hours register: bit 6 is the 12-hour mode, there bit 5 is PM.
TwelveHours(b) == (b \div 64) % 2 = 1
HourBits(b) == b % (IF TwelveHours(b) THEN 32 ELSE 64)
HourIsValid(b) == IsBcd(HourBits(b)) /\ Unbcd(HourBits(b)) \in (IF TwelveHours(b) THEN 1 .. 12 ELSE 0 .. 23)

Hour(b) ==
  IF TwelveHours(b) THEN (Unbcd(HourBits(b)) % 12) + 12 * ((b \div 32) % 2) ELSE Unbcd(HourBits(b))

\* Dates like 31 February would roll over silently.
DateIsReal(date) ==
  /\ date[2] \in 1 .. 12 /\ date[3] \in 1 .. 31
  /\ CivilFromDays(DaysFromCivil(date)) = date

DecodedDate(r) ==
  Date(2000 + Unbcd(r[7]) + 100 * (r[6] \div 128), Unbcd(r[6] % 32), Unbcd(r[5] % 64))

Decode(r) ==
  LET bcd == \A b \in {r[1] % 128, r[2] % 128, r[5] % 64, r[6] % 32, r[7]} : IsBcd(b)
      date == DecodedDate(r)
  IN IF /\ bcd /\ HourIsValid(r[3])
        /\ Unbcd(r[1] % 128) <= 59 /\ Unbcd(r[2] % 128) <= 59
        /\ DateIsReal(date)
        /\ DaysFromCivil(date) >= MinValidDay
     THEN Time(DaysFromCivil(date),
               3600 * Hour(r[3]) + 60 * Unbcd(r[2] % 128) + Unbcd(r[1] % 128))
     ELSE NotATime

-----------------------------------------------------------------------------
(***************************************************************************)
(* clock.rs, for a clock that shows local time already: the position the   *)
(* schedule is asked for, and the key of the day its counters belong to.   *)
(***************************************************************************)
TmYday(date) == DaysFromCivil(date) - DaysFromCivil(Date(date[1], 1, 1))
TmWday(day) == (day + 4) % 7

FromTmWday(wday) == IF wday = 0 THEN 6 ELSE wday - 1

LocalTime(t) ==
  LET date == CivilFromDays(t[1])
  IN [weekday |-> FromTmWday(TmWday(t[1])), minute |-> t[2] \div 60,
      day |-> date[1] * 366 + TmYday(date) + 1]

-----------------------------------------------------------------------------
(***************************************************************************)
(* The reference: the calendar counted day by day.                         *)
(***************************************************************************)
IsLeap(y) == y % 4 = 0 /\ (y % 100 # 0 \/ y % 400 = 0)

MonthLength(y, m) == CASE m = 2 -> IF IsLeap(y) THEN 29 ELSE 28
                       [] m \in {4, 6, 9, 11} -> 30
                       [] m \notin {2, 4, 6, 9, 11} -> 31

DayAfter(date) ==
  CASE date[3] < MonthLength(date[1], date[2]) -> Date(date[1], date[2], date[3] + 1)
    [] date[3] = MonthLength(date[1], date[2]) /\ date[2] < 12 -> Date(date[1], date[2] + 1, 1)
    [] date[3] = MonthLength(date[1], date[2]) /\ date[2] = 12 -> Date(date[1] + 1, 1, 1)

\* The day after this one has the next number and weekday, and a greater key.
DayCounted(date) ==
  LET day == DaysFromCivil(date)
      here == LocalTime(Time(day, 0))
      next == LocalTime(Time(day + 1, 0))
  IN /\ DaysFromCivil(DayAfter(date)) = day + 1
     /\ CivilFromDays(day) = date
     /\ here.day < next.day
     /\ next.weekday = (here.weekday + 1) % 7

\* What the board writes to the chip on this day it reads back at the next boot.
ReadBack(date, second) ==
  LET t == Time(DaysFromCivil(date), second) IN Decode(Encode(t)) = t

\* The chip shows this date and hour, in one of its hour modes.
Registers(date, hour, twelve, pm) ==
  << 0, 0, Bcd(hour) + (IF twelve THEN 64 ELSE 0) + (IF twelve /\ pm THEN 32 ELSE 0), 1,
     Bcd(date[3]), Bcd(date[2]), Bcd(date[1] % 100) >>

Shown(date, hour, twelve, pm) ==
  IF /\ date[1] >= 2024 /\ date[2] \in 1 .. 12 /\ date[3] \in 1 .. MonthLength(date[1], date[2])
     /\ hour \in (IF twelve THEN 1 .. 12 ELSE 0 .. 23)
  THEN Time(DaysFromCivil(date),
            3600 * (IF twelve /\ hour = 12 THEN 0 ELSE hour) + (IF twelve /\ pm THEN 43200 ELSE 0))
  ELSE NotATime
=============================================================================
