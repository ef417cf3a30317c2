------------------------------ MODULE Calendar ------------------------------
(***************************************************************************)
(* The date arithmetic behind recurring invoices: advance, add_months and  *)
(* last_day_of_month of src/modules/recurring_invoice/mod.rs, with the     *)
(* chrono operations they call (external).  A date is a day: the time of   *)
(* day of a start date is carried along unchanged.                         *)
(***************************************************************************)
EXTENDS Integers, Sequences

Frequency == {"weekly", "monthly", "quarterly", "yearly"}

(* A day of a year and month; it may be one the month does not have.       *)
Day(y, m, d) == [year |-> y, month |-> m, day |-> d]

Date == [year : Nat, month : 1..12, day : 1..31]

LeapYear(y) == (y % 4 = 0 /\ y % 100 # 0) \/ y % 400 = 0

(* last_day_of_month: the day before the first of the next month.          *)
LastDayOfMonth(y, m) ==
  IF m = 2 THEN IF LeapYear(y) THEN 29 ELSE 28
  ELSE IF m \in {4, 6, 9, 11} THEN 30 ELSE 31

IsDate(x) == x \in Date /\ x.day <= LastDayOfMonth(x.year, x.month)

(* Days since the beginning of the year 0, from the days before each month *)
(* of a year that is not a leap year.                                      *)
DaysBefore == <<0, 31, 59, 90, 120, 151, 181, 212, 243, 273, 304, 334>>

DayNumber(x) ==
  365 * x.year + (x.year \div 4) - (x.year \div 100) + (x.year \div 400)
    + DaysBefore[x.month] + x.day
    - (IF LeapYear(x.year) /\ x.month <= 2 THEN 1 ELSE 0)

Before(x, y) ==
  \/ x.year < y.year
  \/ x.year = y.year /\ x.month < y.month
  \/ x.year = y.year /\ x.month = y.month /\ x.day < y.day

-----------------------------------------------------------------------------
(* DateTime + Duration::days(7): at most one month further.                *)
AddWeek(x) ==
  LET last == LastDayOfMonth(x.year, x.month)
  IN  IF x.day + 7 <= last THEN [x EXCEPT !.day = @ + 7]
      ELSE IF x.month < 12 THEN Day(x.year, x.month + 1, x.day + 7 - last)
                           ELSE Day(x.year + 1, 1, x.day + 7 - last)

(* with_year, with_month and with_day each give None for a day the month   *)
(* does not have, and then the date is returned as it came.                *)
AddMonths(x, months) ==
  LET month == ((x.month + months - 1) % 12) + 1
      year == x.year + ((x.month + months - 1) \div 12)
      last == LastDayOfMonth(year, month)
      withYear == [x EXCEPT !.year = year]
      withMonth == [withYear EXCEPT !.month = month]
  IN  IF IsDate(withYear) /\ IsDate(withMonth)
      THEN [withMonth EXCEPT !.day = IF x.day < last THEN x.day ELSE last]
      ELSE x

Advance(x, frequency) ==
  CASE frequency = "weekly"    -> AddWeek(x)
    [] frequency = "monthly"   -> AddMonths(x, 1)
    [] frequency = "quarterly" -> AddMonths(x, 3)
    [] frequency = "yearly"    -> AddMonths(x, 12)

-----------------------------------------------------------------------------
(* What the comments promise: the n-th date after x at that frequency, the *)
(* day clamped to the length of its month.                                 *)
Months(frequency) ==
  CASE frequency = "monthly" -> 1 [] frequency = "quarterly" -> 3
    [] frequency = "yearly" -> 12

OnCadence(x, from, frequency) ==
  IF frequency = "weekly"
  THEN /\ DayNumber(x) >= DayNumber(from)
       /\ (DayNumber(x) - DayNumber(from)) % 7 = 0
  ELSE LET apart == 12 * (x.year - from.year) + x.month - from.month
           last == LastDayOfMonth(x.year, x.month)
       IN  /\ apart >= 0
           /\ apart % Months(frequency) = 0
           /\ x.day = IF from.day < last THEN from.day ELSE last
=============================================================================
