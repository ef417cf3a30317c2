-------------------------- MODULE RecurringProofs --------------------------
(***************************************************************************)
(* Theorems about Recurring, for any templates, jobs, frequencies offered, *)
(* start and end dates, days and bounds.  Three layers: the arithmetic of  *)
(* the calendar (WeekLater, MonthsLater), the loop of compute_next_run_at  *)
(* as a recursion over its rounds (LoopExists, NextRunIsSteady), and the   *)
(* rows that handlers and jobs write (Writes, Proceeds), on which the      *)
(* invariance of the schedule and the silence of a cancelled template      *)
(* rest.  At the end, when the search for the next run ends.               *)
(***************************************************************************)
EXTENDS Recurring, FiniteSetTheorems, WellFoundedInduction, TLAPS

(* The days before a month are those of the months before.                 *)
LEMMA MonthLengths ==
  /\ \A m \in 1..12 : DaysBefore[m] \in Nat
  /\ DaysBefore[1] = 0 /\ DaysBefore[2] = 31 /\ DaysBefore[3] = 59
  /\ DaysBefore[12] = 334
  /\ \A m \in 3..11 : DaysBefore[m + 1] =
                        DaysBefore[m] + IF m \in {4, 6, 9, 11} THEN 30 ELSE 31
<1>1. \A m \in 1..12 : m \in {1, 2, 3, 4, 5, 6, 7, 8, 9, 10, 11, 12}
  OBVIOUS
<1>2. /\ DaysBefore[1] = 0 /\ DaysBefore[2] = 31 /\ DaysBefore[3] = 59
      /\ DaysBefore[4] = 90 /\ DaysBefore[5] = 120 /\ DaysBefore[6] = 151
      /\ DaysBefore[7] = 181 /\ DaysBefore[8] = 212 /\ DaysBefore[9] = 243
      /\ DaysBefore[10] = 273 /\ DaysBefore[11] = 304 /\ DaysBefore[12] = 334
  BY DEF DaysBefore
<1>3. QED
  BY <1>1, <1>2

(* A leap day more in the years that end with one.                         *)
LEMMA YearEnds ==
  ASSUME NEW y \in Nat
  PROVE  (y + 1) \div 4 - (y + 1) \div 100 + (y + 1) \div 400
           = y \div 4 - y \div 100 + y \div 400 + IF LeapYear(y + 1) THEN 1 ELSE 0
<1>1. (y + 1) \div 4 = y \div 4 + IF (y + 1) % 4 = 0 THEN 1 ELSE 0
  OBVIOUS
<1>2. (y + 1) \div 100 = y \div 100 + IF (y + 1) % 100 = 0 THEN 1 ELSE 0
  OBVIOUS
<1>3. (y + 1) \div 400 = y \div 400 + IF (y + 1) % 400 = 0 THEN 1 ELSE 0
  OBVIOUS
<1>4. /\ (y + 1) % 100 = 0 => (y + 1) % 4 = 0
      /\ (y + 1) % 400 = 0 => (y + 1) % 100 = 0
  OBVIOUS
<1>5. /\ y \div 4 \in Nat /\ y \div 100 \in Nat /\ y \div 400 \in Nat
      /\ (y + 1) \div 4 \in Nat /\ (y + 1) \div 100 \in Nat /\ (y + 1) \div 400 \in Nat
  OBVIOUS
<1>6. QED
  BY <1>1, <1>2, <1>3, <1>4, <1>5 DEF LeapYear

(* A week later is seven days later, over the ends of months and years.    *)
LEMMA WeekLater ==
  ASSUME NEW x, IsDate(x)
  PROVE  IsDate(AddWeek(x)) /\ DayNumber(AddWeek(x)) = DayNumber(x) + 7
<1>1. PICK y \in Nat, m \in 1..12, d \in 1..31 : x = Day(y, m, d)
  <2>1. x \in [year : Nat, month : 1..12, day : 1..31]
    BY DEF IsDate, Date
  <2>2. x = [year |-> x.year, month |-> x.month, day |-> x.day]
    BY <2>1
  <2>3. QED
    BY <2>1, <2>2 DEF Day
<1>2. PICK last \in 28..31 : last = LastDayOfMonth(y, m)
  BY DEF LastDayOfMonth
<1>3. d <= last /\ x.year = y /\ x.month = m /\ x.day = d
  BY <1>1, <1>2 DEF IsDate, Day
<1>4. CASE d + 7 <= last
  <2>1. AddWeek(x) = Day(y, m, d + 7)
    BY <1>1, <1>2, <1>3, <1>4 DEF AddWeek, Day
  <2>2. Day(y, m, d + 7) \in Date
    BY <1>4 DEF Day, Date
  <2>3. QED
    BY <1>1, <1>2, <1>3, <1>4, <2>1, <2>2, MonthLengths DEF IsDate, Day, DayNumber
<1>5. CASE d + 7 > last /\ m < 12
  <2>1. PICK e \in 1..7 : e = d + 7 - last
    BY <1>2, <1>3, <1>5
  <2>2. AddWeek(x) = Day(y, m + 1, e)
    BY <1>1, <1>2, <1>3, <1>5, <2>1 DEF AddWeek, Day
  <2>3. IsDate(AddWeek(x))
    BY <1>5, <2>2 DEF IsDate, Date, Day, LastDayOfMonth
  <2>4. /\ DaysBefore[m] \in Nat /\ DaysBefore[m + 1] \in Nat
        /\ DaysBefore[m + 1] - (IF LeapYear(y) /\ m + 1 <= 2 THEN 1 ELSE 0)
             = DaysBefore[m] - (IF LeapYear(y) /\ m <= 2 THEN 1 ELSE 0) + last
    <3>1. CASE m = 1
      BY <1>2, <3>1, MonthLengths DEF LastDayOfMonth
    <3>2. CASE m = 2
      BY <1>2, <3>2, MonthLengths DEF LastDayOfMonth
    <3>3. CASE m \in 3..11
      BY <1>2, <3>3, MonthLengths DEF LastDayOfMonth
    <3>4. QED
      BY <1>5, <3>1, <3>2, <3>3
  <2>5. PICK z \in Int : z = 365 * y + (y \div 4) - (y \div 100) + (y \div 400)
    OBVIOUS
  <2>6. ASSUME NEW a \in 1..12, NEW b \in Nat
        PROVE  DayNumber(Day(y, a, b)) =
                 z + DaysBefore[a] + b - (IF LeapYear(y) /\ a <= 2 THEN 1 ELSE 0)
    <3>1. Day(y, a, b).year = y /\ Day(y, a, b).month = a /\ Day(y, a, b).day = b
      BY DEF Day
    <3>2. QED
      BY <2>5, <3>1, MonthLengths DEF DayNumber
  <2>7. /\ DayNumber(x) = z + DaysBefore[m] + d
                            - (IF LeapYear(y) /\ m <= 2 THEN 1 ELSE 0)
        /\ DayNumber(AddWeek(x)) = z + DaysBefore[m + 1] + e
                            - (IF LeapYear(y) /\ m + 1 <= 2 THEN 1 ELSE 0)
    BY <1>1, <1>5, <2>2, <2>6
  <2>8. QED
    BY <1>2, <2>1, <2>3, <2>4, <2>7
<1>6. CASE d + 7 > last /\ m = 12
  <2>1. last = 31
    BY <1>2, <1>6 DEF LastDayOfMonth
  <2>2. PICK e \in 1..7 : e = d + 7 - 31
    BY <1>3, <1>6, <2>1
  <2>3. AddWeek(x) = Day(y + 1, 1, e)
    BY <1>1, <1>2, <1>3, <1>6, <2>1, <2>2 DEF AddWeek, Day
  <2>4. IsDate(AddWeek(x))
    BY <2>3 DEF IsDate, Date, Day, LastDayOfMonth
  <2>5. DayNumber(Day(y, 12, d)) = 365 * y + (y \div 4) - (y \div 100) + (y \div 400)
                                     + 334 + d
    BY MonthLengths DEF DayNumber, Day
  <2>6. QED
    BY <1>1, <1>6, <2>2, <2>3, <2>4, <2>5, MonthLengths, YearEnds DEF DayNumber, Day
<1>7. QED
  BY <1>4, <1>5, <1>6

(* An offset of months keeps the day of the month, or it changes nothing.  *)
LEMMA MonthsLater ==
  ASSUME NEW x, IsDate(x), NEW k \in {1, 3, 12}
  PROVE  LET z == AddMonths(x, k) IN
         /\ IsDate(z) /\ z.day = x.day
         /\ \/ z = x
            \/ 12 * z.year + z.month = 12 * x.year + x.month + k
<1>1. PICK y \in Nat, m \in 1..12, d \in 1..31 : x = Day(y, m, d)
  <2>1. x \in [year : Nat, month : 1..12, day : 1..31]
    BY DEF IsDate, Date
  <2>2. x = [year |-> x.year, month |-> x.month, day |-> x.day]
    BY <2>1
  <2>3. QED
    BY <2>1, <2>2 DEF Day
<1>2. PICK n \in 1..12 : n = ((m + k - 1) % 12) + 1
  OBVIOUS
<1>3. PICK c \in Nat : c = y + ((m + k - 1) \div 12) /\ 12 * c + n = 12 * y + m + k
  BY <1>2
<1>4. x.year = y /\ x.month = m /\ x.day = d
  BY <1>1 DEF Day
<1>5. PICK last \in 28..31 : last = LastDayOfMonth(c, n)
  BY DEF LastDayOfMonth
<1>6. /\ [x EXCEPT !.year = c] = Day(c, m, d)
      /\ [Day(c, m, d) EXCEPT !.month = n] = Day(c, n, d)
  BY <1>1 DEF Day
<1>7. AddMonths(x, k) =
        IF IsDate(Day(c, m, d)) /\ IsDate(Day(c, n, d))
        THEN [Day(c, n, d) EXCEPT !.day = IF d < last THEN d ELSE last] ELSE x
  <2>1. /\ n = ((x.month + k - 1) % 12) + 1
        /\ c = x.year + ((x.month + k - 1) \div 12)
    BY <1>2, <1>3, <1>4
  <2>2. PICK v, w : v = [x EXCEPT !.year = c] /\ w = [v EXCEPT !.month = n]
    OBVIOUS
  <2>3. AddMonths(x, k) =
          IF IsDate(v) /\ IsDate(w)
          THEN [w EXCEPT !.day = IF x.day < last THEN x.day ELSE last] ELSE x
    BY <1>5, <2>1, <2>2, Zenon DEF AddMonths
  <2>4. QED
    BY <1>4, <1>6, <2>2, <2>3
<1>8. IsDate(Day(c, n, d)) => d <= last
  BY <1>5 DEF IsDate, Day
<1>9. d <= last => [Day(c, n, d) EXCEPT !.day = IF d < last THEN d ELSE last] = Day(c, n, d)
  BY <1>5 DEF Day
<1>10. \/ AddMonths(x, k) = Day(c, n, d) /\ IsDate(Day(c, n, d))
       \/ AddMonths(x, k) = x
  BY <1>7, <1>8, <1>9
<1>11. QED
  BY <1>1, <1>3, <1>4, <1>10 DEF Day

-----------------------------------------------------------------------------
(* The dates that the search for the next run goes through: one the        *)
(* calendar has, on the cadence and, except for weeks, on the day of the   *)
(* month it began with.                                                    *)
Steady(x, from, f) ==
  /\ IsDate(x)
  /\ OnCadence(x, from, f)
  /\ f # "weekly" => x.day = from.day

LEMMA DateShape ==
  ASSUME NEW x, IsDate(x)
  PROVE  /\ x.year \in Nat /\ x.month \in 1..12 /\ x.day \in 1..31
         /\ x.day <= LastDayOfMonth(x.year, x.month)
         /\ LastDayOfMonth(x.year, x.month) \in 28..31
         /\ DayNumber(x) \in Int
<1>1. x \in [year : Nat, month : 1..12, day : 1..31]
  BY DEF IsDate, Date
<1>2. PICK y \in Nat, m \in 1..12, d \in 1..31 : x.year = y /\ x.month = m /\ x.day = d
  BY <1>1
<1>3. LastDayOfMonth(y, m) \in 28..31
  BY DEF LastDayOfMonth
<1>4. PICK b \in Int : b = DaysBefore[m]
  BY MonthLengths
<1>5. PICK a \in Int : a = IF LeapYear(y) /\ m <= 2 THEN 1 ELSE 0
  OBVIOUS
<1>6. DayNumber(x) = 365 * y + (y \div 4) - (y \div 100) + (y \div 400) + b + d - a
  BY <1>2, <1>4, <1>5 DEF DayNumber
<1>7. DayNumber(x) \in Int
  BY <1>6
<1>8. QED
  BY <1>2, <1>3, <1>7 DEF IsDate

LEMMA SteadyFromStart ==
  ASSUME NEW from, IsDate(from), NEW f \in Frequency
  PROVE  Steady(from, from, f)
<1>1. CASE f = "weekly"
  BY <1>1, DateShape DEF Steady, OnCadence
<1>2. CASE f # "weekly"
  <2>1. Months(f) \in {1, 3, 12}
    BY <1>2 DEF Months, Frequency
  <2>2. PICK last \in Int : last = LastDayOfMonth(from.year, from.month) /\ from.day <= last
    BY DateShape
  <2>3. PICK apart \in Int :
          apart = 12 * (from.year - from.year) + from.month - from.month /\ apart = 0
    BY DateShape
  <2>4. apart % Months(f) = 0
    BY <2>1, <2>3
  <2>5. OnCadence(from, from, f)
    BY <1>2, <2>2, <2>3, <2>4, DateShape DEF OnCadence
  <2>6. QED
    BY <2>5 DEF Steady
<1>3. QED
  BY <1>1, <1>2

LEMMA SteadyAdvance ==
  ASSUME NEW from, IsDate(from), NEW f \in Frequency,
         NEW x, Steady(x, from, f)
  PROVE  Steady(Advance(x, f), from, f)
<1>1. CASE f = "weekly"
  <2>1. PICK z : z = AddWeek(x)
    OBVIOUS
  <2>2. IsDate(z) /\ DayNumber(z) = DayNumber(x) + 7
    BY <2>1, WeekLater DEF Steady
  <2>3. PICK a, b \in Int : /\ DayNumber(x) = a /\ DayNumber(from) = b
                            /\ DayNumber(z) = a + 7
    BY <2>2, DateShape DEF Steady
  <2>4. a >= b /\ (a - b) % 7 = 0
    BY <1>1, <2>3 DEF Steady, OnCadence
  <2>5. a + 7 >= b /\ ((a + 7) - b) % 7 = 0
    BY <2>4
  <2>6. Advance(x, f) = z
    BY <1>1, <2>1 DEF Advance
  <2>7. QED
    BY <1>1, <2>2, <2>3, <2>5, <2>6 DEF Steady, OnCadence
<1>2. CASE f # "weekly"
  <2>1. PICK k \in {1, 3, 12} : k = Months(f) /\ Advance(x, f) = AddMonths(x, k)
    BY <1>2 DEF Months, Frequency, Advance
  <2>2. PICK z : z = AddMonths(x, k)
    OBVIOUS
  <2>3. /\ IsDate(z) /\ z.day = x.day
        /\ z = x \/ 12 * z.year + z.month = 12 * x.year + x.month + k
    BY <2>2, MonthsLater DEF Steady
  <2>4. CASE z = x
    BY <2>1, <2>2, <2>4
  <2>5. CASE 12 * z.year + z.month = 12 * x.year + x.month + k
    <3>0. ASSUME NEW w, IsDate(w)
          PROVE  \E b, e \in Int : w.year = b /\ w.month = e
      BY <3>0, DateShape
    <3>1. PICK y, m, yf, mf, yz, mz \in Int :
            /\ x.year = y /\ x.month = m /\ from.year = yf /\ from.month = mf
            /\ z.year = yz /\ z.month = mz
      <4>1. IsDate(x)
        BY DEF Steady
      <4>2. QED
        BY <2>3, <3>0, <4>1
    <3>2. PICK a, c \in Int : /\ a = 12 * (y - yf) + m - mf
                              /\ c = 12 * (yz - yf) + mz - mf /\ c = a + k
      BY <2>5, <3>1
    <3>3. a >= 0 /\ a % k = 0
      BY <1>2, <2>1, <3>1, <3>2 DEF Steady, OnCadence
    <3>4. c >= 0 /\ c % k = 0
      BY <3>2, <3>3
    <3>5. z.day = from.day /\ z.day <= LastDayOfMonth(z.year, z.month)
      BY <1>2, <2>3, DateShape DEF Steady
    <3>6. PICK last \in Int : last = LastDayOfMonth(z.year, z.month) /\ from.day <= last
      BY <2>3, <3>5, DateShape
    <3>7. z.day = IF from.day < last THEN from.day ELSE last
      BY <3>5, <3>6, DateShape
    <3>8. OnCadence(z, from, f)
      BY <1>2, <2>1, <3>1, <3>2, <3>4, <3>6, <3>7 DEF OnCadence
    <3>9. QED
      BY <2>1, <2>2, <2>3, <3>5, <3>8 DEF Steady
  <2>6. QED
    BY <2>3, <2>4, <2>5
<1>3. QED
  BY <1>1, <1>2

-----------------------------------------------------------------------------
(* Induction over the natural numbers, as the absence of a least exception. *)
LEMMA NatSetInduction ==
  ASSUME NEW S, 0 \in S, \A n \in Nat : n \in S => n + 1 \in S
  PROVE  Nat \subseteq S
<1> DEFINE T == Nat \ S
<1> DEFINE R == OpToRel(<, Nat)
<1>1. IsWellFoundedOn(R, Nat)
  BY NatLessThanWellFounded, Zenon
<1>2. \A x, y \in Nat : x < y => <<x, y>> \in R
  BY DEF OpToRel
<1>3. SUFFICES ASSUME T # {} PROVE FALSE
  OBVIOUS
<1> HIDE DEF R
<1>4. PICK x \in T : \A y \in T : ~ (<<y, x>> \in R)
  <2> T \subseteq Nat
    OBVIOUS
  <2> HIDE DEF T
  <2> QED
    BY <1>1, <1>3, WFMin, Zenon
<1>5. x # 0 /\ x - 1 \in Nat /\ (x - 1) + 1 = x
  OBVIOUS
<1>6. x - 1 \in T
  BY <1>5
<1>7. x \in Nat /\ x - 1 < x
  BY <1>5
<1>8. <<x - 1, x>> \in R
  BY <1>2, <1>5, <1>7
<1>9. <<x - 1, x>> \notin R
  BY <1>4, <1>6
<1> QED
  BY <1>8, <1>9

(* The loop of compute_next_run_at: what a round does, and the dates it    *)
(* comes to from round to round.                                           *)
Round(f) == [x \in Date |-> IF Before(now, x) THEN x ELSE Advance(x, f)]

Loop(from, f, g) ==
  g = [n \in 0..LoopBound |-> IF n = 0 THEN from ELSE Round(f)[g[n - 1]]]

LEMMA NextRunIs ==
  ASSUME NEW from, NEW f
  PROVE  NextRun(from, f) = (CHOOSE g : Loop(from, f, g))[LoopBound]
  BY Zenon DEF NextRun, Loop, Round

LEMMA RoundIsSteady ==
  ASSUME NEW from, IsDate(from), NEW f \in Frequency, NEW x, Steady(x, from, f)
  PROVE  Steady(Round(f)[x], from, f)
<1>1. x \in Date
  BY DEF Steady, IsDate
<1>2. Round(f)[x] = x \/ Round(f)[x] = Advance(x, f)
  BY <1>1 DEF Round
<1>3. QED
  BY <1>2, SteadyAdvance

(* The recursion has a solution: one for the rounds up to k extends to     *)
(* round k + 1.                                                            *)
LEMMA LoopExists ==
  ASSUME NEW from, NEW f
  PROVE  \E g : Loop(from, f, g)
<1> USE RecurringAssumption DEF RecurringAssumption
<1> DEFINE R == Round(f)
<1> DEFINE Fits(g, k) == \A n \in 0..LoopBound :
                           n <= k => g[n] = IF n = 0 THEN from ELSE R[g[n - 1]]
<1> DEFINE IsFun(g) == g = [n \in 0..LoopBound |-> g[n]]
<1> DEFINE S == {k \in Nat : \E g : IsFun(g) /\ Fits(g, k)}
<1> HIDE DEF R
<1>1. 0 \in S
  <2> DEFINE g == [n \in 0..LoopBound |-> from]
  <2>1. IsFun(g) /\ Fits(g, 0)
    OBVIOUS
  <2> HIDE DEF g
  <2>2. QED
    BY <2>1
<1>2. ASSUME NEW k \in Nat, k \in S PROVE k + 1 \in S
  <2>1. PICK g : IsFun(g) /\ Fits(g, k)
    BY <1>2
  <2> DEFINE h == [n \in 0..LoopBound |-> IF n <= k THEN g[n] ELSE R[g[k]]]
  <2>2. ASSUME NEW n \in 0..LoopBound, n <= k + 1
        PROVE  h[n] = IF n = 0 THEN from ELSE R[h[n - 1]]
    <3>1. CASE n = 0
      <4>1. 0 <= k /\ 0 \in 0..LoopBound
        OBVIOUS
      <4>2. h[0] = g[0] /\ g[0] = from
        BY <2>1, <4>1
      <4>3. QED
        BY <3>1, <4>2
    <3>2. CASE n # 0 /\ n <= k
      <4>1. n - 1 \in 0..LoopBound /\ n - 1 <= k
        BY <3>2
      <4>2. h[n] = g[n] /\ h[n - 1] = g[n - 1]
        BY <3>2, <4>1
      <4>3. g[n] = R[g[n - 1]]
        BY <2>1, <3>2
      <4>4. QED
        BY <3>2, <4>2, <4>3
    <3>3. CASE n = k + 1
      <4>1. n - 1 = k /\ k \in 0..LoopBound /\ n # 0 /\ ~ (n <= k)
        BY <3>3
      <4>2. h[n] = R[g[k]] /\ h[n - 1] = g[k]
        BY <4>1
      <4>3. QED
        BY <4>1, <4>2
    <3>4. QED
      BY <2>2, <3>1, <3>2, <3>3
  <2>3. IsFun(h)
    OBVIOUS
  <2>4. IsFun(h) /\ Fits(h, k + 1)
    BY <2>2, <2>3
  <2> HIDE DEF h
  <2>5. \E e : IsFun(e) /\ Fits(e, k + 1)
    BY <2>4, Zenon
  <2>6. k + 1 \in Nat
    OBVIOUS
  <2>7. QED
    BY <2>5, <2>6, Zenon
<1>3. LoopBound \in S
  <2> HIDE DEF S
  <2>1. Nat \subseteq S
    BY <1>1, <1>2, NatSetInduction
  <2>2. QED
    BY <2>1
<1>4. PICK g : IsFun(g) /\ Fits(g, LoopBound)
  BY <1>3
<1>5. \A n \in 0..LoopBound : g[n] = IF n = 0 THEN from ELSE R[g[n - 1]]
  <2>1. \A n \in 0..LoopBound : n <= LoopBound
    OBVIOUS
  <2>2. QED
    BY <1>4, <2>1, Zenon
<1>6. g = [n \in 0..LoopBound |-> IF n = 0 THEN from ELSE R[g[n - 1]]]
  BY <1>4, <1>5
<1>7. Loop(from, f, g)
  BY <1>6 DEF Loop, R
<1>8. QED
  BY <1>7

(* Whenever the search stops, it stops on a date of the cadence.           *)
LEMMA NextRunIsSteady ==
  ASSUME NEW from, IsDate(from), NEW f \in Frequency
  PROVE  Steady(NextRun(from, f), from, f)
<1> USE RecurringAssumption DEF RecurringAssumption
<1> DEFINE g == CHOOSE h : Loop(from, f, h)
<1>1. Loop(from, f, g)
  BY LoopExists
<1>2. NextRun(from, f) = g[LoopBound]
  BY NextRunIs
<1> HIDE DEF g
<1>3. \A n \in 0..LoopBound : g[n] = IF n = 0 THEN from ELSE Round(f)[g[n - 1]]
  BY <1>1 DEF Loop
<1> DEFINE S == {k \in Nat : k <= LoopBound => Steady(g[k], from, f)}
<1>4. 0 \in S
  BY <1>3, SteadyFromStart
<1>5. ASSUME NEW k \in Nat, k \in S PROVE k + 1 \in S
  <2>1. SUFFICES ASSUME k + 1 <= LoopBound PROVE Steady(g[k + 1], from, f)
    OBVIOUS
  <2>2. Steady(g[k], from, f)
    BY <1>5, <2>1
  <2>3. k + 1 \in 0..LoopBound /\ k + 1 # 0 /\ (k + 1) - 1 = k
    BY <2>1
  <2>4. g[k + 1] = Round(f)[g[k]]
    BY <1>3, <2>3
  <2>5. QED
    BY <2>2, <2>4, RoundIsSteady
<1>6. LoopBound \in S
  <2> HIDE DEF S
  <2>1. Nat \subseteq S
    BY <1>4, <1>5, NatSetInduction
  <2>2. QED
    BY <2>1
<1>7. QED
  BY <1>2, <1>6

-----------------------------------------------------------------------------
TemplateRow == [status : TemplateStatus, frequency : Frequency, start : Start,
                end : End \cup {None}, next : Date \cup {None}]

JobRow == [pc : JobPC, tpl : Template, attempt : 1..MaxAttempts,
           frequency : Frequency, end : End \cup {None}, n : 0..MaxNumber + 1]

(* What a write may put into the column next_run_at.                       *)
Dated(x) == x = None \/ IsDate(x)

LEMMA SearchFindsDate ==
  ASSUME NEW from, IsDate(from), NEW f \in Frequency
  PROVE  /\ IsDate(NextRun(from, f)) /\ NextRun(from, f) \in Date
         /\ NextRun(from, f) # None
         /\ OnCadence(NextRun(from, f), from, f)
  BY NextRunIsSteady, RecurringAssumption DEF RecurringAssumption, Steady, IsDate

LEMMA StartsAreDates == \A x \in Start : IsDate(x)
  BY RecurringAssumption DEF RecurringAssumption

LEMMA NoJobTyped == NoJob \in JobRow /\ NoJob.pc = "free"
<1>1. (CHOOSE t \in Template : TRUE) \in Template
  BY RecurringAssumption DEF RecurringAssumption
<1>2. QED
  BY <1>1, RecurringAssumption
  DEF RecurringAssumption, NoJob, JobRow, JobPC, Frequency

LEMMA NextNumberTyped ==
  NextNumber \in 1..MaxNumber + 1
<1>1. PICK U : U = {n \in Number : number[n] # "free"}
  OBVIOUS
<1>2. U \subseteq 1..MaxNumber
  BY <1>1 DEF Number
<1>3. PICK V : V = 1..MaxNumber
  OBVIOUS
<1>4. IsFiniteSet(V) /\ Cardinality(V) = MaxNumber
  BY <1>3, FS_Interval, RecurringAssumption DEF RecurringAssumption
<1>5. /\ Cardinality(U) \in Nat /\ Cardinality(U) <= MaxNumber
  BY <1>2, <1>3, <1>4, FS_Subset, FS_CardinalityType
<1>6. QED
  BY <1>1, <1>5, RecurringAssumption DEF RecurringAssumption, NextNumber

(* One job is rewritten, or one template.                                  *)
LEMMA JobTyped ==
  ASSUME NEW j \in Job, NEW r \in JobRow, job \in [Job -> JobRow]
  PROVE  [job EXCEPT ![j] = r] \in [Job -> JobRow]
  OBVIOUS

TemplatesOK(T) ==
  /\ T \in [Template -> TemplateRow]
  /\ \A t \in Template : Dated(T[t].next)

LEMMA TemplatesTyped ==
  ASSUME NEW t \in Template, NEW r \in TemplateRow, Dated(r.next),
         TemplatesOK(template)
  PROVE  TemplatesOK([template EXCEPT ![t] = r])
  BY DEF TemplatesOK

LEMMA TypesByRow ==
  RecurringTypeOK <=>
    /\ now \in Instant
    /\ TemplatesOK(template)
    /\ job \in [Job -> JobRow]
    /\ number \in [Number -> {"free", "user"} \cup Template]
  BY DEF RecurringTypeOK, TemplatesOK, TemplateRow, JobRow, Dated

LEMMA TypesByRowPrimed ==
  RecurringTypeOK' <=>
    /\ now' \in Instant
    /\ TemplatesOK(template')
    /\ job' \in [Job -> JobRow]
    /\ number' \in [Number -> {"free", "user"} \cup Template]
  BY DEF RecurringTypeOK, TemplatesOK, TemplateRow, JobRow, Dated

LEMMA RecurringInitTypes == Init => RecurringTypeOK /\ ScheduleIsKept
<1> SUFFICES ASSUME Init PROVE RecurringTypeOK /\ ScheduleIsKept
  OBVIOUS
<1>1. now \in Instant
  BY DEF Init
<1>2. PICK s \in Start : s = CHOOSE x \in Start : TRUE
  BY RecurringAssumption DEF RecurringAssumption
<1>3. PICK r : r = [status |-> "absent", frequency |-> "weekly", start |-> s,
                    end |-> None, next |-> None]
  OBVIOUS
<1>4. r \in TemplateRow /\ r.next = None /\ r.status = "absent"
  BY <1>3 DEF TemplateRow, TemplateStatus, Frequency
<1>5. template = [t \in Template |-> r]
  BY <1>2, <1>3 DEF Init
<1>6. TemplatesOK(template)
  BY <1>4, <1>5 DEF TemplatesOK, Dated
<1>7. job \in [Job -> JobRow]
  BY NoJobTyped DEF Init
<1>8. number \in [Number -> {"free", "user"} \cup Template]
  BY DEF Init
<1>9. ScheduleIsKept
  BY <1>4, <1>5 DEF ScheduleIsKept
<1>10. QED
  BY <1>1, <1>6, <1>7, <1>8, <1>9, TypesByRow

-----------------------------------------------------------------------------
(* What a write to a template is: a row of the right types whose next run  *)
(* is on the cadence of its start date and there unless the template is    *)
(* over.                                                                   *)
Kept(r) ==
  /\ r.status \in {"active", "paused"} => r.next # None
  /\ r.next # None => \E f \in Frequency : OnCadence(r.next, r.start, f)

Writes(t, r) ==
  /\ template' = [template EXCEPT ![t] = r]
  /\ r \in TemplateRow /\ Dated(r.next) /\ Kept(r)
  /\ template[t].status = "cancelled" => r.status = "cancelled"

LEMMA WritesKeep ==
  ASSUME TemplatesOK(template), ScheduleIsKept,
         NEW t \in Template, NEW r, Writes(t, r)
  PROVE  TemplatesOK(template') /\ ScheduleIsKept'
<1>1. TemplatesOK(template')
  BY TemplatesTyped DEF Writes
<1>2. \A u \in Template : Kept(template[u])
  BY DEF ScheduleIsKept, Kept
<1>3. \A u \in Template : Kept(template'[u])
  BY <1>2 DEF Writes, TemplatesOK
<1>4. QED
  BY <1>1, <1>3 DEF ScheduleIsKept, Kept

(* The row of a template, its parts typed.                                 *)
LEMMA RowOf ==
  ASSUME TemplatesOK(template), ScheduleIsKept, NEW t \in Template
  PROVE  /\ template[t] \in TemplateRow /\ Dated(template[t].next)
         /\ Kept(template[t]) /\ template[t].start \in Start
         /\ IsDate(template[t].start) /\ template[t].frequency \in Frequency
         /\ template[t].end \in End \cup {None}
         /\ template[t].next \in Date \cup {None}
         /\ template[t].status \in TemplateStatus
  BY StartsAreDates DEF TemplatesOK, TemplateRow, ScheduleIsKept, Kept

LEMMA CreateWrites ==
  ASSUME TemplatesOK(template), ScheduleIsKept,
         NEW t \in Template, CreateTemplate(t)
  PROVE  \E r : Writes(t, r)
<1>1. PICK f \in Offered, x \in Start, e \in End \cup {None} :
        template' = [template EXCEPT
                       ![t] = [status |-> "active", frequency |-> f,
                               start |-> x, end |-> e, next |-> NextRun(x, f)]]
  BY DEF CreateTemplate
<1>2. f \in Frequency /\ IsDate(x)
  BY StartsAreDates, RecurringAssumption DEF RecurringAssumption
<1>3. PICK z : z = NextRun(x, f)
  OBVIOUS
<1>4. IsDate(z) /\ z \in Date /\ z # None /\ OnCadence(z, x, f)
  BY <1>2, <1>3, SearchFindsDate
<1>5. PICK r : r = [status |-> "active", frequency |-> f, start |-> x, end |-> e,
                    next |-> z]
  OBVIOUS
<1>6. r \in TemplateRow /\ r.next = z /\ r.start = x /\ r.status = "active"
  BY <1>2, <1>4, <1>5 DEF TemplateRow, TemplateStatus
<1>7. Kept(r) /\ Dated(r.next)
  BY <1>2, <1>4, <1>6 DEF Kept, Dated
<1>8. template[t].status # "cancelled"
  BY DEF CreateTemplate
<1>9. QED
  BY <1>1, <1>3, <1>5, <1>6, <1>7, <1>8 DEF Writes

LEMMA UpdateWrites ==
  ASSUME TemplatesOK(template), ScheduleIsKept,
         NEW t \in Template, UpdateTemplate(t)
  PROVE  \E r : Writes(t, r)
<1>1. PICK f \in Offered \cup {template[t].frequency},
           e \in End \cup {template[t].end} :
        template' = [template EXCEPT
                       ![t].frequency = f, ![t].end = e,
                       ![t].next = IF f # template[t].frequency
                                   THEN NextRun(template[t].start, f) ELSE @]
  BY DEF UpdateTemplate
<1>2. f \in Frequency /\ e \in End \cup {None}
  BY RowOf, RecurringAssumption DEF RecurringAssumption
<1>3. PICK z : z = NextRun(template[t].start, f)
  OBVIOUS
<1>4. IsDate(z) /\ z \in Date /\ z # None /\ OnCadence(z, template[t].start, f)
  BY <1>2, <1>3, RowOf, SearchFindsDate
<1>5. PICK w : w = IF f # template[t].frequency THEN z ELSE template[t].next
  OBVIOUS
<1>6. PICK r : r = [template[t] EXCEPT !.frequency = f, !.end = e, !.next = w]
  OBVIOUS
<1>7. template' = [template EXCEPT ![t] = r]
  BY <1>1, <1>3, <1>5, <1>6, RowOf DEF TemplatesOK, TemplateRow
<1>8. /\ r \in TemplateRow /\ r.next = w /\ r.start = template[t].start
      /\ r.status = template[t].status
  BY <1>2, <1>4, <1>5, <1>6, RowOf DEF TemplateRow
<1>9. Kept(r) /\ Dated(r.next)
  BY <1>2, <1>4, <1>5, <1>8, RowOf DEF Kept, Dated
<1>10. QED
  BY <1>7, <1>8, <1>9 DEF Writes

LEMMA PauseWrites ==
  ASSUME TemplatesOK(template), ScheduleIsKept,
         NEW t \in Template, Pause(t)
  PROVE  \E r : Writes(t, r)
<1>1. PICK r : r = [template[t] EXCEPT !.status = "paused"]
  OBVIOUS
<1>2. template' = [template EXCEPT ![t] = r] /\ template[t].status = "active"
  BY <1>1 DEF Pause, TemplatesOK
<1>3. /\ r \in TemplateRow /\ r.next = template[t].next
      /\ r.start = template[t].start /\ r.status = "paused"
  BY <1>1, RowOf DEF TemplateRow, TemplateStatus
<1>4. QED
  BY <1>2, <1>3, RowOf DEF Writes, Kept

LEMMA ResumeWrites ==
  ASSUME TemplatesOK(template), ScheduleIsKept,
         NEW t \in Template, Resume(t)
  PROVE  \E r : Writes(t, r)
<1>1. PICK z : z = NextRun(template[t].start, template[t].frequency)
  OBVIOUS
<1>2. /\ IsDate(z) /\ z \in Date /\ z # None
      /\ OnCadence(z, template[t].start, template[t].frequency)
  BY <1>1, RowOf, SearchFindsDate
<1>3. PICK r : r = [template[t] EXCEPT !.status = "active", !.next = z]
  OBVIOUS
<1>4. template' = [template EXCEPT ![t] = r] /\ template[t].status = "paused"
  BY <1>1, <1>3 DEF Resume, TemplatesOK
<1>5. /\ r \in TemplateRow /\ r.next = z
      /\ r.start = template[t].start /\ r.status = "active"
  BY <1>2, <1>3, RowOf DEF TemplateRow, TemplateStatus
<1>6. Kept(r) /\ Dated(r.next)
  BY <1>2, <1>5, RowOf DEF Kept, Dated
<1>7. QED
  BY <1>4, <1>5, <1>6 DEF Writes

(* Cancelled by the user or, its end date past, by a job.                  *)
LEMMA CancelWrites ==
  ASSUME TemplatesOK(template), ScheduleIsKept, NEW t \in Template,
         template' = [template EXCEPT ![t].status = "cancelled", ![t].next = None]
  PROVE  \E r : Writes(t, r)
<1>1. PICK r : r = [template[t] EXCEPT !.status = "cancelled", !.next = None]
  OBVIOUS
<1>2. template' = [template EXCEPT ![t] = r]
  BY <1>1 DEF TemplatesOK
<1>3. r \in TemplateRow /\ r.next = None /\ r.status = "cancelled"
  BY <1>1, RowOf DEF TemplateRow, TemplateStatus
<1>4. QED
  BY <1>2, <1>3 DEF Writes, Kept, Dated

LEMMA AdvanceWrites ==
  ASSUME TemplatesOK(template), ScheduleIsKept, job \in [Job -> JobRow],
         NEW j \in Job, AdvanceSchedule(j)
  PROVE  \E r : Writes(job[j].tpl, r)
<1>1. PICK t \in Template, f \in Frequency : t = job[j].tpl /\ f = job[j].frequency
  BY DEF JobRow
<1>2. PICK z : z = NextRun(template[t].start, f)
  OBVIOUS
<1>3. /\ IsDate(z) /\ z \in Date /\ z # None /\ OnCadence(z, template[t].start, f)
  BY <1>2, RowOf, SearchFindsDate
<1>4. PICK r : r = [template[t] EXCEPT !.next = z]
  OBVIOUS
<1>5. template' = [template EXCEPT ![t] = r]
  BY <1>1, <1>2, <1>4 DEF AdvanceSchedule, TemplatesOK
<1>6. /\ r \in TemplateRow /\ r.next = z
      /\ r.start = template[t].start /\ r.status = template[t].status
  BY <1>3, <1>4, RowOf DEF TemplateRow
<1>7. Kept(r) /\ Dated(r.next)
  BY <1>3, <1>6 DEF Kept, Dated
<1>8. QED
  BY <1>1, <1>5, <1>6, <1>7 DEF Writes

-----------------------------------------------------------------------------
(* Every step of a job leaves it, and only it, rewritten.                  *)
Reworks(j, r) == r \in JobRow /\ job' = [job EXCEPT ![j] = r]

LEMMA JobOf ==
  ASSUME job \in [Job -> JobRow], NEW j \in Job
  PROVE  /\ job[j] \in JobRow /\ job[j].tpl \in Template /\ job[j].pc \in JobPC
         /\ job[j].attempt \in 1..MaxAttempts /\ job[j].frequency \in Frequency
         /\ job[j].end \in End \cup {None} /\ job[j].n \in 0..MaxNumber + 1
  BY DEF JobRow

LEMMA FreshTyped ==
  ASSUME NEW t \in Template, NEW pc \in JobPC
  PROVE  [NoJob EXCEPT !.pc = pc, !.tpl = t] \in JobRow
  BY NoJobTyped DEF JobRow

LEMMA ScanReworks ==
  ASSUME job \in [Job -> JobRow], NEW t \in Template, NEW j \in Job, Scan(t, j)
  PROVE  \E r : Reworks(j, r) /\ r.tpl = t /\ r.pc = "queued"
<1>1. PICK r : r = [NoJob EXCEPT !.pc = "queued", !.tpl = t]
  OBVIOUS
<1>2. r \in JobRow
  BY <1>1, FreshTyped DEF JobPC
<1>3. job' = [job EXCEPT ![j] = r]
  BY <1>1 DEF Scan
<1>4. r.tpl = t /\ r.pc = "queued"
  BY <1>1, NoJobTyped DEF JobRow
<1>5. QED
  BY <1>2, <1>3, <1>4 DEF Reworks

(* Afterwards it is free or queued, or it has read its template, before    *)
(* this step or in it and then as an active one.                           *)
Proceeds(j, r) ==
  /\ Reworks(j, r)
  /\ \/ r.pc \in {"free", "queued"}
     \/ /\ r.tpl = job[j].tpl
        /\ job[j].pc = "queued" => template[job[j].tpl].status = "active"
        /\ job[j].pc # "free"

LEMMA JobStepReworks ==
  ASSUME TemplatesOK(template), job \in [Job -> JobRow],
         NEW j \in Job, JobStep(j)
  PROVE  \E r : Proceeds(j, r)
<1>0. ASSUME job' = [job EXCEPT ![j] = NoJob] PROVE \E r : Proceeds(j, r)
  BY <1>0, NoJobTyped DEF Reworks, Proceeds
<1>1. CASE Load(j)
  <2>1. CASE template[job[j].tpl].status = "active"
    <3>1. PICK f \in Frequency, e \in End \cup {None} :
            f = template[job[j].tpl].frequency /\ e = template[job[j].tpl].end
      BY JobOf DEF TemplatesOK, TemplateRow
    <3>2. PICK r : r = [job[j] EXCEPT !.pc = "loaded", !.frequency = f, !.end = e]
      OBVIOUS
    <3>3. job' = [job EXCEPT ![j] = r]
      BY <1>1, <2>1, <3>1, <3>2 DEF Load
    <3>4. r \in JobRow /\ r.tpl = job[j].tpl
      BY <3>1, <3>2, JobOf DEF JobRow, JobPC
    <3>5. job[j].pc # "free"
      BY <1>1 DEF Load
    <3>6. QED
      BY <2>1, <3>3, <3>4, <3>5 DEF Reworks, Proceeds
  <2>2. CASE template[job[j].tpl].status # "active"
    BY <1>0, <1>1, <2>2 DEF Load
  <2>3. QED
    BY <2>1, <2>2
<1>2. CASE Expire(j)
  BY <1>0, <1>2 DEF Expire
<1>3. CASE CountNumbers(j)
  <2>1. PICK k \in 0..MaxNumber + 1 : k = NextNumber
    BY NextNumberTyped
  <2>2. PICK r : r = [job[j] EXCEPT !.pc = "numbered", !.end = None, !.n = k]
    OBVIOUS
  <2>3. job' = [job EXCEPT ![j] = r]
    BY <1>3, <2>1, <2>2 DEF CountNumbers
  <2>4. r \in JobRow /\ r.tpl = job[j].tpl
    BY <2>1, <2>2, JobOf DEF JobRow, JobPC
  <2>5. job[j].pc = "loaded"
    BY <1>3 DEF CountNumbers
  <2>6. QED
    BY <2>3, <2>4, <2>5 DEF Reworks, Proceeds
<1>4. CASE InsertInvoice(j)
  <2>1. PICK r : r = [job[j] EXCEPT !.pc = "made", !.n = 0]
    OBVIOUS
  <2>2. job' = [job EXCEPT ![j] = r] /\ job[j].pc = "numbered"
    BY <1>4, <2>1 DEF InsertInvoice
  <2>3. 0 \in 0..MaxNumber + 1
    BY RecurringAssumption DEF RecurringAssumption
  <2>4. r \in JobRow /\ r.tpl = job[j].tpl
    BY <2>1, <2>3, JobOf DEF JobRow, JobPC
  <2>5. QED
    BY <2>2, <2>4 DEF Reworks, Proceeds
<1>5. CASE AdvanceSchedule(j)
  <2>1. PICK t \in Template : t = job[j].tpl
    BY JobOf
  <2>2. PICK r : r = [NoJob EXCEPT !.pc = "advanced", !.tpl = t]
    OBVIOUS
  <2>3. r \in JobRow
    BY <2>2, FreshTyped DEF JobPC
  <2>4. r.tpl = job[j].tpl
    BY <2>1, <2>2, NoJobTyped DEF JobRow
  <2>5. job' = [job EXCEPT ![j] = r] /\ job[j].pc = "made"
    BY <1>5, <2>1, <2>2 DEF AdvanceSchedule
  <2>6. QED
    BY <2>3, <2>4, <2>5 DEF Reworks, Proceeds
<1>6. CASE FinishJob(j)
  BY <1>0, <1>6 DEF FinishJob
<1>7. CASE FailJob(j)
  <2>1. CASE job[j].attempt < MaxAttempts
    <3>1. PICK t \in Template, a \in 1..MaxAttempts : t = job[j].tpl /\ a = job[j].attempt + 1
      BY <2>1, JobOf, RecurringAssumption DEF RecurringAssumption
    <3>2. PICK r : r = [NoJob EXCEPT !.pc = "queued", !.tpl = t, !.attempt = a]
      OBVIOUS
    <3>3. job' = [job EXCEPT ![j] = r]
      BY <1>7, <2>1, <3>1, <3>2 DEF FailJob
    <3>4. r \in JobRow /\ r.pc = "queued"
      BY <3>1, <3>2, NoJobTyped DEF JobRow, JobPC
    <3>5. QED
      BY <3>3, <3>4 DEF Reworks, Proceeds
  <2>2. CASE ~ (job[j].attempt < MaxAttempts)
    BY <1>0, <1>7, <2>2 DEF FailJob
  <2>3. QED
    BY <2>1, <2>2
<1>8. CASE LoseJob(j)
  BY <1>0, <1>8 DEF LoseJob
<1>9. QED
  BY <1>1, <1>2, <1>3, <1>4, <1>5, <1>6, <1>7, <1>8 DEF JobStep

-----------------------------------------------------------------------------
RecurringInv == RecurringTypeOK /\ ScheduleIsKept

LEMMA JobKeeps ==
  ASSUME job \in [Job -> JobRow], NEW j \in Job, NEW r, Reworks(j, r)
  PROVE  job' \in [Job -> JobRow]
  BY JobTyped DEF Reworks

(* A step of the templates' handlers, of a user or of time.                *)
LEMMA TemplateStep ==
  ASSUME TemplatesOK(template), ScheduleIsKept, NEW t \in Template,
         \/ CreateTemplate(t) \/ UpdateTemplate(t) \/ Pause(t)
         \/ Resume(t) \/ CancelTemplate(t)
  PROVE  (\E r : Writes(t, r)) /\ UNCHANGED <<now, job, number>>
<1>1. CASE CreateTemplate(t)
  BY <1>1, CreateWrites DEF CreateTemplate
<1>2. CASE UpdateTemplate(t)
  BY <1>2, UpdateWrites DEF UpdateTemplate
<1>3. CASE Pause(t)
  BY <1>3, PauseWrites DEF Pause
<1>4. CASE Resume(t)
  BY <1>4, ResumeWrites DEF Resume
<1>5. CASE CancelTemplate(t)
  BY <1>5, CancelWrites DEF CancelTemplate
<1>6. QED
  BY <1>1, <1>2, <1>3, <1>4, <1>5

(* A job that touches a template is past reading it and does not revive it. *)
LEMMA JobTouchesTemplate ==
  ASSUME TemplatesOK(template), ScheduleIsKept, job \in [Job -> JobRow],
         NEW j \in Job, JobStep(j)
  PROVE  /\ now' = now
         /\ \/ template' = template
            \/ \E r : Writes(job[j].tpl, r)
         /\ \/ number' = number
            \/ /\ InsertInvoice(j)
               /\ number' = [number EXCEPT ![job[j].n] = job[j].tpl]
<1>1. CASE Load(j)
  BY <1>1 DEF Load
<1>2. CASE Expire(j)
  BY <1>2, CancelWrites, JobOf DEF Expire
<1>3. CASE CountNumbers(j)
  BY <1>3 DEF CountNumbers
<1>4. CASE InsertInvoice(j)
  BY <1>4 DEF InsertInvoice
<1>5. CASE AdvanceSchedule(j)
  BY <1>5, AdvanceWrites DEF AdvanceSchedule
<1>6. CASE FinishJob(j)
  BY <1>6 DEF FinishJob
<1>7. CASE FailJob(j)
  BY <1>7 DEF FailJob
<1>8. CASE LoseJob(j)
  BY <1>8 DEF LoseJob
<1>9. QED
  BY <1>1, <1>2, <1>3, <1>4, <1>5, <1>6, <1>7, <1>8 DEF JobStep

LEMMA RecurringStep == RecurringInv /\ [Next]_vars => RecurringInv'
<1> SUFFICES ASSUME RecurringInv, [Next]_vars PROVE RecurringInv'
  OBVIOUS
<1>1. /\ now \in Instant /\ TemplatesOK(template) /\ job \in [Job -> JobRow]
      /\ number \in [Number -> {"free", "user"} \cup Template]
      /\ ScheduleIsKept
  BY TypesByRow DEF RecurringInv
<1>2. SUFFICES /\ now' \in Instant /\ TemplatesOK(template') /\ job' \in [Job -> JobRow]
               /\ number' \in [Number -> {"free", "user"} \cup Template]
               /\ ScheduleIsKept'
  BY TypesByRowPrimed DEF RecurringInv
<1>3. ASSUME template' = template PROVE TemplatesOK(template') /\ ScheduleIsKept'
  BY <1>1, <1>3 DEF ScheduleIsKept
<1>4. CASE TimePasses
  BY <1>1, <1>3, <1>4 DEF TimePasses
<1>5. ASSUME NEW t \in Template,
             \/ CreateTemplate(t) \/ UpdateTemplate(t) \/ Pause(t)
             \/ Resume(t) \/ CancelTemplate(t)
      PROVE  /\ now' \in Instant /\ TemplatesOK(template') /\ job' \in [Job -> JobRow]
             /\ number' \in [Number -> {"free", "user"} \cup Template]
             /\ ScheduleIsKept'
  <2>1. (\E r : Writes(t, r)) /\ UNCHANGED <<now, job, number>>
    BY <1>1, <1>5, TemplateStep
  <2>2. TemplatesOK(template') /\ ScheduleIsKept'
    BY <1>1, <2>1, WritesKeep
  <2>3. QED
    BY <1>1, <2>1, <2>2
<1>6. ASSUME NEW t \in Template, NEW j \in Job, Scan(t, j)
      PROVE  /\ now' \in Instant /\ TemplatesOK(template') /\ job' \in [Job -> JobRow]
             /\ number' \in [Number -> {"free", "user"} \cup Template]
             /\ ScheduleIsKept'
  <2>1. job' \in [Job -> JobRow]
    BY <1>1, <1>6, ScanReworks, JobKeeps
  <2>2. UNCHANGED <<now, template, number>>
    BY <1>6 DEF Scan
  <2>3. QED
    BY <1>1, <1>3, <2>1, <2>2
<1>7. ASSUME NEW n \in Number, TakeNumber(n)
      PROVE  /\ now' \in Instant /\ TemplatesOK(template') /\ job' \in [Job -> JobRow]
             /\ number' \in [Number -> {"free", "user"} \cup Template]
             /\ ScheduleIsKept'
  BY <1>1, <1>3, <1>7 DEF TakeNumber
<1>8. ASSUME NEW j \in Job, JobStep(j)
      PROVE  /\ now' \in Instant /\ TemplatesOK(template') /\ job' \in [Job -> JobRow]
             /\ number' \in [Number -> {"free", "user"} \cup Template]
             /\ ScheduleIsKept'
  <2>1. job' \in [Job -> JobRow]
    BY <1>1, <1>8, JobStepReworks, JobKeeps DEF Proceeds
  <2>2. /\ now' = now
        /\ template' = template \/ \E r : Writes(job[j].tpl, r)
        /\ number' = number \/ number' = [number EXCEPT ![job[j].n] = job[j].tpl]
    BY <1>1, <1>8, JobTouchesTemplate
  <2>3. TemplatesOK(template') /\ ScheduleIsKept'
    BY <1>1, <1>3, <2>2, JobOf, WritesKeep
  <2>4. number' \in [Number -> {"free", "user"} \cup Template]
    BY <1>1, <2>2, JobOf
  <2>5. QED
    BY <1>1, <2>1, <2>2, <2>3, <2>4
<1>9. CASE UNCHANGED vars
  BY <1>1, <1>3, <1>9 DEF vars
<1>10. QED
  BY <1>4, <1>5, <1>6, <1>7, <1>8, <1>9 DEF Next

THEOREM RecurringInvariance == Spec => []RecurringInv
<1>1. Init => RecurringInv
  BY RecurringInitTypes DEF RecurringInv
<1>2. QED
  BY <1>1, RecurringStep, PTL DEF Spec

(* The types of templates, jobs and numbers: a next run is a date the      *)
(* calendar has, whatever the frequencies, start dates and days.           *)
THEOREM RecurringTypeCorrect == Spec => []RecurringTypeOK
  BY RecurringInvariance, PTL DEF RecurringInv

(* A template that is not cancelled always has a next run, and a next run  *)
(* is always a date of the cadence of the start date, whatever handlers    *)
(* and overlapping, failing jobs have written it.                          *)
THEOREM ScheduleKept == Spec => []ScheduleIsKept
  BY RecurringInvariance, PTL DEF RecurringInv

-----------------------------------------------------------------------------
(* No step bills for a quiet template or lets it speak again.              *)
LEMMA QuietStep ==
  ASSUME RecurringInv, [Next]_vars, NEW t \in Template, Quiet(t)
  PROVE  Quiet(t)' /\ \A n \in Number : number'[n] = t => number[n] = t
<1>1. /\ TemplatesOK(template) /\ job \in [Job -> JobRow]
      /\ number \in [Number -> {"free", "user"} \cup Template]
      /\ ScheduleIsKept
  BY TypesByRow DEF RecurringInv
<1>2. /\ template[t].status = "cancelled"
      /\ \A j \in Job : job[j].tpl = t => job[j].pc \in {"free", "queued"}
  BY DEF Quiet
<1>3. t # "free" /\ t # "user"
  BY RecurringAssumption DEF RecurringAssumption
<1>4. ASSUME NEW u \in Template, NEW r, Writes(u, r)
      PROVE  template'[t].status = "cancelled"
  BY <1>1, <1>2, <1>4 DEF Writes, TemplatesOK
<1>5. ASSUME NEW j \in Job, NEW r, Reworks(j, r),
             r.tpl = t => r.pc \in {"free", "queued"}
      PROVE  \A k \in Job : job'[k].tpl = t => job'[k].pc \in {"free", "queued"}
  BY <1>1, <1>2, <1>5 DEF Reworks
<1>6. SUFFICES /\ template'[t].status = "cancelled"
               /\ \A k \in Job : job'[k].tpl = t => job'[k].pc \in {"free", "queued"}
               /\ \A n \in Number : number'[n] = t => number[n] = t
  BY DEF Quiet
<1>7. CASE TimePasses
  BY <1>2, <1>7 DEF TimePasses
<1>8. ASSUME NEW u \in Template,
             \/ CreateTemplate(u) \/ UpdateTemplate(u) \/ Pause(u)
             \/ Resume(u) \/ CancelTemplate(u)
      PROVE  /\ template'[t].status = "cancelled"
             /\ job' = job /\ number' = number
  BY <1>1, <1>4, <1>8, TemplateStep
<1>9. ASSUME NEW u \in Template, NEW j \in Job, Scan(u, j)
      PROVE  /\ \A k \in Job : job'[k].tpl = t => job'[k].pc \in {"free", "queued"}
             /\ template' = template /\ number' = number
  <2>1. PICK r : Reworks(j, r) /\ r.tpl = u /\ r.pc = "queued"
    BY <1>1, <1>9, ScanReworks
  <2>2. QED
    BY <1>5, <1>9, <2>1 DEF Scan
<1>10. ASSUME NEW n \in Number, TakeNumber(n)
       PROVE  /\ template' = template /\ job' = job
              /\ \A k \in Number : number'[k] = t => number[k] = t
  BY <1>1, <1>3, <1>10 DEF TakeNumber
<1>11. ASSUME NEW j \in Job, JobStep(j)
       PROVE  /\ template'[t].status = "cancelled"
              /\ \A k \in Job : job'[k].tpl = t => job'[k].pc \in {"free", "queued"}
              /\ \A n \in Number : number'[n] = t => number[n] = t
  <2>1. PICK r : Proceeds(j, r)
    BY <1>1, <1>11, JobStepReworks
  <2>2. r.tpl = t => r.pc \in {"free", "queued"}
    <3>1. SUFFICES ASSUME r.tpl = t, r.pc \notin {"free", "queued"} PROVE FALSE
      OBVIOUS
    <3>2. /\ job[j].tpl = t /\ job[j].pc # "free"
          /\ job[j].pc = "queued" => template[t].status = "active"
      BY <2>1, <3>1 DEF Proceeds
    <3>3. QED
      BY <1>2, <3>2
  <2>3. \A k \in Job : job'[k].tpl = t => job'[k].pc \in {"free", "queued"}
    BY <1>5, <2>1, <2>2 DEF Proceeds
  <2>4. /\ template' = template \/ \E s : Writes(job[j].tpl, s)
        /\ \/ number' = number
           \/ /\ InsertInvoice(j)
              /\ number' = [number EXCEPT ![job[j].n] = job[j].tpl]
    BY <1>1, <1>11, JobTouchesTemplate
  <2>5. template'[t].status = "cancelled"
    BY <1>1, <1>2, <1>4, <2>4, JobOf
  <2>6. ASSUME InsertInvoice(j) PROVE job[j].tpl # t
    BY <1>2, <2>6 DEF InsertInvoice
  <2>7. \A n \in Number : number'[n] = t => number[n] = t
    BY <1>1, <2>4, <2>6
  <2>8. QED
    BY <2>3, <2>5, <2>7
<1>12. CASE UNCHANGED vars
  BY <1>2, <1>12 DEF vars
<1>13. QED
  BY <1>2, <1>7, <1>8, <1>9, <1>10, <1>11, <1>12 DEF Next

(* Once a template is cancelled and the jobs that had read it before are   *)
(* over, neither a queued job, nor a retry, nor a handler ever makes       *)
(* another invoice for it.                                                 *)
THEOREM CancelledQuiet == Spec => CancelledGoesQuiet
<1>1. RecurringInv /\ [Next]_vars =>
        [\A t \in Template : Quiet(t) =>
           Quiet(t)' /\ \A n \in Number : number'[n] = t => number[n] = t]_vars
  BY QuietStep
<1>2. QED
  BY <1>1, RecurringInvariance, PTL DEF Spec, CancelledGoesQuiet
-----------------------------------------------------------------------------
(* When the search ends.  Dates in the order of Before, as numbers, as if  *)
(* all months had 31 days: a round that is not stuck comes 7 further.      *)
Rank(x) == 372 * x.year + 31 * x.month + x.day

(* On these days no month is too short for add_months.                     *)
InEveryMonth(x, f) == f = "weekly" \/ x.day <= 28

LEMMA RankOrders ==
  ASSUME NEW x, IsDate(x), NEW y, IsDate(y)
  PROVE  /\ Rank(x) \in Nat /\ Rank(y) \in Nat
         /\ Before(x, y) <=> Rank(x) < Rank(y)
<1>1. ASSUME NEW w, IsDate(w)
      PROVE  \E a \in Nat, m \in 1..12, d \in 1..31 :
               w.year = a /\ w.month = m /\ w.day = d
  BY <1>1 DEF IsDate, Date
<1>2. PICK a \in Nat, m \in 1..12, d \in 1..31 : x.year = a /\ x.month = m /\ x.day = d
  BY <1>1
<1>3. PICK b \in Nat, n \in 1..12, e \in 1..31 : y.year = b /\ y.month = n /\ y.day = e
  BY <1>1
<1>4. /\ Rank(x) = 372 * a + 31 * m + d /\ Rank(y) = 372 * b + 31 * n + e
      /\ Before(x, y) <=> \/ a < b
                          \/ a = b /\ m < n
                          \/ a = b /\ m = n /\ d < e
  BY <1>2, <1>3 DEF Rank, Before
<1>5. QED
  BY <1>4

LEMMA WeekIsLater ==
  ASSUME NEW x, IsDate(x)
  PROVE  Rank(AddWeek(x)) >= Rank(x) + 7
<1>1. PICK a \in Nat, m \in 1..12, d \in 1..31 : x.year = a /\ x.month = m /\ x.day = d
  BY DEF IsDate, Date
<1>2. PICK last \in 28..31 : last = LastDayOfMonth(a, m) /\ d <= last
  BY <1>1 DEF IsDate, LastDayOfMonth
<1>3. PICK z : z = AddWeek(x)
  OBVIOUS
<1>4. CASE d + 7 <= last
  <2>1. z = [x EXCEPT !.day = d + 7]
    BY <1>1, <1>2, <1>3, <1>4 DEF AddWeek
  <2>2. z.year = a /\ z.month = m /\ z.day = d + 7
    BY <1>1, <2>1 DEF IsDate, Date
  <2>3. QED
    BY <1>1, <1>3, <2>2 DEF Rank
<1>5. CASE d + 7 > last
  <2>1. PICK e \in Int : e = d + 7 - last /\ e >= 1 /\ e <= 7
    BY <1>2, <1>5
  <2>2. z = IF m < 12 THEN Day(a, m + 1, e) ELSE Day(a + 1, 1, e)
    BY <1>1, <1>2, <1>3, <1>5, <2>1 DEF AddWeek
  <2>3. CASE m < 12
    BY <1>1, <1>2, <1>3, <2>1, <2>2, <2>3 DEF Rank, Day
  <2>4. CASE ~ (m < 12)
    BY <1>1, <1>2, <1>3, <2>1, <2>2, <2>4 DEF Rank, Day
  <2>5. QED
    BY <2>3, <2>4
<1>6. QED
  BY <1>2, <1>4, <1>5

LEMMA MonthsAreLater ==
  ASSUME NEW x, IsDate(x), x.day <= 28, NEW k \in {1, 3, 12}
  PROVE  Rank(AddMonths(x, k)) >= Rank(x) + 7
<1>1. PICK a \in Nat, m \in 1..12, d \in 1..28 : x.year = a /\ x.month = m /\ x.day = d
  BY DEF IsDate, Date
<1>2. PICK n \in 1..12 : n = ((m + k - 1) % 12) + 1
  OBVIOUS
<1>3. PICK c \in Nat : c = a + ((m + k - 1) \div 12) /\ 12 * c + n = 12 * a + m + k
  BY <1>2
<1>4. PICK last \in 28..31 : last = LastDayOfMonth(c, n)
  BY DEF LastDayOfMonth
<1>5. PICK v, w : v = [x EXCEPT !.year = c] /\ w = [v EXCEPT !.month = n]
  OBVIOUS
<1>6. /\ v \in Date /\ v.year = c /\ v.month = m /\ v.day = d
      /\ w \in Date /\ w.year = c /\ w.month = n /\ w.day = d
  BY <1>1, <1>5 DEF IsDate, Date
<1>7. IsDate(v) /\ IsDate(w)
  BY <1>1, <1>6 DEF IsDate, LastDayOfMonth
<1>8. AddMonths(x, k) =
        IF IsDate(v) /\ IsDate(w)
        THEN [w EXCEPT !.day = IF x.day < last THEN x.day ELSE last] ELSE x
  <2>1. /\ n = ((x.month + k - 1) % 12) + 1
        /\ c = x.year + ((x.month + k - 1) \div 12)
    BY <1>1, <1>2, <1>3
  <2>2. QED
    BY <1>4, <1>5, <2>1, Zenon DEF AddMonths
<1>9. PICK z : z = AddMonths(x, k)
  OBVIOUS
<1>10. z = [w EXCEPT !.day = d]
  BY <1>1, <1>4, <1>7, <1>8, <1>9
<1>11. z.year = c /\ z.month = n /\ z.day = d
  BY <1>6, <1>10 DEF Date
<1>12. Rank(z) = 372 * c + 31 * n + d /\ Rank(x) = 372 * a + 31 * m + d
  BY <1>1, <1>11 DEF Rank
<1>13. QED
  BY <1>3, <1>9, <1>12

LEMMA AdvanceIsLater ==
  ASSUME NEW from, IsDate(from), NEW f \in Frequency, InEveryMonth(from, f),
         NEW x, Steady(x, from, f)
  PROVE  Rank(Advance(x, f)) >= Rank(x) + 7
<1>1. CASE f = "weekly"
  BY <1>1, WeekIsLater DEF Advance, Steady
<1>2. CASE f # "weekly"
  <2>1. PICK k \in {1, 3, 12} : Advance(x, f) = AddMonths(x, k)
    BY <1>2 DEF Frequency, Advance
  <2>2. IsDate(x) /\ x.day <= 28
    BY <1>2 DEF Steady, InEveryMonth
  <2>3. QED
    BY <2>1, <2>2, MonthsAreLater
<1>3. QED
  BY <1>1, <1>2

(* The search for the next run ends, and its result is past, for every     *)
(* weekly template and every start up to the 28th of a month, however far  *)
(* back that is: a week for every round is enough.  The run month_end      *)
(* shows a start for which it does not.                                    *)
THEOREM SearchTerminates ==
  ASSUME IsDate(now), NEW from, IsDate(from), NEW f \in Frequency,
         InEveryMonth(from, f), 7 * LoopBound > Rank(now) - Rank(from)
  PROVE  Ends(from, f)
<1> USE RecurringAssumption DEF RecurringAssumption
<1> DEFINE g == CHOOSE h : Loop(from, f, h)
<1>1. Loop(from, f, g)
  BY LoopExists
<1>2. NextRun(from, f) = g[LoopBound]
  BY NextRunIs
<1> HIDE DEF g
<1>3. \A n \in 0..LoopBound : g[n] = IF n = 0 THEN from ELSE Round(f)[g[n - 1]]
  BY <1>1 DEF Loop
<1> DEFINE Ahead(n) == Before(now, g[n]) \/ Rank(g[n]) >= Rank(from) + 7 * n
<1> DEFINE S == {k \in Nat : k <= LoopBound => Steady(g[k], from, f) /\ Ahead(k)}
<1>4. 0 \in S
  BY <1>3, SteadyFromStart, RankOrders
<1>5. ASSUME NEW k \in Nat, k \in S PROVE k + 1 \in S
  <2>1. SUFFICES ASSUME k + 1 <= LoopBound
                 PROVE  Steady(g[k + 1], from, f) /\ Ahead(k + 1)
    OBVIOUS
  <2>2. Steady(g[k], from, f) /\ Ahead(k)
    BY <1>5, <2>1
  <2>3. k + 1 \in 0..LoopBound /\ k + 1 # 0 /\ (k + 1) - 1 = k
    BY <2>1
  <2>4. g[k + 1] = Round(f)[g[k]]
    BY <1>3, <2>3
  <2>5. Steady(g[k + 1], from, f)
    BY <2>2, <2>4, RoundIsSteady
  <2>6. g[k + 1] = IF Before(now, g[k]) THEN g[k] ELSE Advance(g[k], f)
    BY <2>2, <2>4 DEF Round, Steady, IsDate
  <2>7. CASE Before(now, g[k])
    BY <2>5, <2>6, <2>7
  <2>8. CASE ~Before(now, g[k])
    <3>1. PICK a, b, c \in Int : /\ a = Rank(from) /\ b = Rank(g[k])
                                 /\ c = Rank(g[k + 1])
      BY <2>2, <2>5, RankOrders DEF Steady
    <3>2. b >= a + 7 * k
      BY <2>2, <2>8, <3>1
    <3>3. c >= b + 7
      BY <2>2, <2>6, <2>8, <3>1, AdvanceIsLater
    <3>4. QED
      BY <2>5, <3>1, <3>2, <3>3
  <2>9. QED
    BY <2>7, <2>8
<1>6. LoopBound \in S
  <2> HIDE DEF S
  <2>1. Nat \subseteq S
    BY <1>4, <1>5, NatSetInduction
  <2>2. QED
    BY <2>1
<1>7. IsDate(g[LoopBound]) /\ Ahead(LoopBound)
  BY <1>6 DEF Steady
<1>8. Before(now, g[LoopBound])
  <2>1. PICK a, b, c \in Int : /\ a = Rank(from) /\ b = Rank(now)
                               /\ c = Rank(g[LoopBound])
    BY <1>7, RankOrders
  <2>2. b < c <=> Before(now, g[LoopBound])
    BY <1>7, <2>1, RankOrders
  <2>3. CASE c >= a + 7 * LoopBound
    BY <2>1, <2>2, <2>3
  <2>4. QED
    BY <1>7, <2>1, <2>3
<1>9. QED
  BY <1>2, <1>8 DEF Ends

(* So it ends for every template there ever is, if users only choose such  *)
(* starts: the one weakness of compute_next_run_at is the end of a month.  *)
THEOREM SearchesEnd ==
  ASSUME \A x \in Start : x.day <= 28,
         \A x \in Start, y \in Instant : 7 * LoopBound > Rank(y) - Rank(x)
  PROVE  Spec => []SearchEnds
<1>1. RecurringInv => SearchEnds
  <2> SUFFICES ASSUME RecurringInv, NEW t \in Template
               PROVE  Ends(template[t].start, template[t].frequency)
    BY DEF SearchEnds
  <2>1. now \in Instant /\ template[t].start \in Start /\ template[t].frequency \in Frequency
    BY DEF RecurringInv, RecurringTypeOK
  <2>2. IsDate(now) /\ IsDate(template[t].start)
    BY <2>1, RecurringAssumption DEF RecurringAssumption
  <2>3. InEveryMonth(template[t].start, template[t].frequency)
    BY <2>1 DEF InEveryMonth
  <2>4. 7 * LoopBound > Rank(now) - Rank(template[t].start)
    BY <2>1
  <2>5. QED
    BY <2>1, <2>2, <2>3, <2>4, SearchTerminates
<1>2. QED
  BY <1>1, RecurringInvariance, PTL
-----------------------------------------------------------------------------
(* When it does not.  What a round cannot leave, the search does not leave.*)
LEMMA SearchStays ==
  ASSUME NEW from, NEW f, NEW S, from \in S, \A x \in S : Round(f)[x] \in S
  PROVE  NextRun(from, f) \in S
<1> USE RecurringAssumption DEF RecurringAssumption
<1> DEFINE g == CHOOSE h : Loop(from, f, h)
<1>1. Loop(from, f, g)
  BY LoopExists
<1>2. NextRun(from, f) = g[LoopBound]
  BY NextRunIs
<1> HIDE DEF g
<1>3. \A n \in 0..LoopBound : g[n] = IF n = 0 THEN from ELSE Round(f)[g[n - 1]]
  BY <1>1 DEF Loop
<1> DEFINE T == {k \in Nat : k <= LoopBound => g[k] \in S}
<1>4. 0 \in T
  BY <1>3
<1>5. ASSUME NEW k \in Nat, k \in T PROVE k + 1 \in T
  <2>1. SUFFICES ASSUME k + 1 <= LoopBound PROVE g[k + 1] \in S
    OBVIOUS
  <2>2. g[k] \in S
    BY <1>5, <2>1
  <2>3. k + 1 \in 0..LoopBound /\ k + 1 # 0 /\ (k + 1) - 1 = k
    BY <2>1
  <2>4. g[k + 1] = Round(f)[g[k]]
    BY <1>3, <2>3
  <2>5. QED
    BY <2>2, <2>4
<1>6. LoopBound \in T
  <2> HIDE DEF T
  <2>1. Nat \subseteq T
    BY <1>4, <1>5, NatSetInduction
  <2>2. QED
    BY <2>1
<1>7. QED
  BY <1>2, <1>6

(* Months counted through the years. *)
MonthNumber(x) == 12 * x.year + x.month

LEMMA DateParts ==
  ASSUME NEW x, IsDate(x)
  PROVE  /\ x \in Date /\ x.year \in Nat /\ x.month \in 1..12 /\ x.day \in 1..31
         /\ MonthNumber(x) \in Nat
  BY DEF IsDate, Date, MonthNumber

LEMMA LaterMonthIsAfter ==
  ASSUME NEW x, IsDate(x), IsDate(now), MonthNumber(x) < MonthNumber(now)
  PROVE  ~Before(now, x)
<1>1. /\ x.year \in Nat /\ x.month \in 1..12
      /\ now.year \in Nat /\ now.month \in 1..12
  BY DateParts
<1>2. QED
  BY <1>1 DEF MonthNumber, Before

LEMMA MonthAfter ==
  ASSUME NEW x, IsDate(x), NEW y, IsDate(y), MonthNumber(y) = MonthNumber(x) + 1
  PROVE  y.month = IF x.month = 12 THEN 1 ELSE x.month + 1
<1>1. PICK a \in Nat, m \in 1..12 : a = x.year /\ m = x.month
  BY DateParts
<1>2. PICK b \in Nat, n \in 1..12 : b = y.year /\ n = y.month
  BY DateParts
<1>3. 12 * b + n = 12 * a + m + 1
  BY <1>1, <1>2 DEF MonthNumber
<1>4. QED
  BY <1>1, <1>2, <1>3

(* No three months in a row have 31 days. *)
LEMMA LongMonths ==
  ASSUME NEW x, IsDate(x), x.day = 31, NEW y, IsDate(y), y.day = 31,
         NEW z, IsDate(z), z.day = 31,
         MonthNumber(y) = MonthNumber(x) + 1, MonthNumber(z) = MonthNumber(x) + 2
  PROVE  FALSE
<1>1. ASSUME NEW w, IsDate(w), w.day = 31
      PROVE  w.month \in 1..12 \ {2, 4, 6, 9, 11}
  <2>1. 31 <= LastDayOfMonth(w.year, w.month) /\ w.month \in 1..12
    BY <1>1, DateParts DEF IsDate
  <2>2. QED
    BY <2>1 DEF LastDayOfMonth
<1>2. /\ x.month \in 1..12 \ {2, 4, 6, 9, 11}
      /\ y.month \in 1..12 \ {2, 4, 6, 9, 11}
      /\ z.month \in 1..12 \ {2, 4, 6, 9, 11}
  BY <1>1
<1>3. y.month = IF x.month = 12 THEN 1 ELSE x.month + 1
  BY MonthAfter
<1>4. z.month = IF y.month = 12 THEN 1 ELSE y.month + 1
  <2>1. MonthNumber(z) = MonthNumber(y) + 1
    BY DateParts
  <2>2. QED
    BY <2>1, MonthAfter
<1>5. QED
  BY <1>2, <1>3, <1>4

LEMMA MonthEndStalls ==
  ASSUME IsDate(now), NEW from, IsDate(from), from.day = 31,
         MonthNumber(now) >= MonthNumber(from) + 2
  PROVE  ~Ends(from, "monthly")
<1> DEFINE S == {x \in Date : /\ IsDate(x) /\ x.day = 31
                              /\ MonthNumber(x) \in {MonthNumber(from), MonthNumber(from) + 1}}
<1>1. from \in S
  BY DateParts
<1>2. ASSUME NEW x \in S PROVE ~Before(now, x)
  <2>1. MonthNumber(x) < MonthNumber(now)
    BY DateParts
  <2>2. QED
    BY <2>1, LaterMonthIsAfter
<1>3. ASSUME NEW x \in S PROVE Round("monthly")[x] \in S
  <2>1. PICK z : z = AddMonths(x, 1)
    OBVIOUS
  <2>2. Round("monthly")[x] = z
    BY <1>2, <2>1 DEF Round, Advance
  <2>3. /\ IsDate(z) /\ z.day = 31
        /\ z = x \/ MonthNumber(z) = MonthNumber(x) + 1
    BY <2>1, MonthsLater DEF MonthNumber
  <2>4. CASE z = x
    BY <2>2, <2>4
  <2>5. CASE MonthNumber(z) = MonthNumber(x) + 1
    <3>1. MonthNumber(x) = MonthNumber(from)
      <4>1. SUFFICES ASSUME MonthNumber(x) = MonthNumber(from) + 1 PROVE FALSE
        OBVIOUS
      <4>2. MonthNumber(z) = MonthNumber(from) + 2
        BY <2>5, <4>1, DateParts
      <4>3. QED
        BY <2>3, <4>1, <4>2, LongMonths
    <3>2. QED
      BY <2>2, <2>3, <2>5, <3>1, DateParts
  <2>6. QED
    BY <2>3, <2>4, <2>5
<1>4. NextRun(from, "monthly") \in S
  <2> HIDE DEF S
  <2>1. QED
    BY <1>1, <1>3, SearchStays
<1>5. QED
  BY <1>2, <1>4 DEF Ends

LEMMA LeapDayStalls ==
  ASSUME IsDate(now), NEW from, IsDate(from), from.month = 2, from.day = 29,
         ~Before(now, from)
  PROVE  ~Ends(from, "yearly")
<1>1. PICK z : z = AddMonths(from, 12)
  OBVIOUS
<1>2. z = from
  <2>1. SUFFICES ASSUME z # from PROVE FALSE
    OBVIOUS
  <2>2. IsDate(z) /\ z.day = 29 /\ 12 * z.year + z.month = 12 * from.year + 2 + 12
    BY <1>1, <2>1, MonthsLater
  <2>3. PICK y \in Nat : y = from.year
    BY DateParts
  <2>4. z.year = y + 1 /\ z.month = 2
    <3>1. PICK b \in Nat, n \in 1..12 : b = z.year /\ n = z.month
      BY <2>2, DateParts
    <3>2. 12 * b + n = 12 * y + 14
      BY <2>2, <2>3, <3>1
    <3>3. QED
      BY <3>1, <3>2
  <2>5. LeapYear(y) /\ LeapYear(y + 1)
    BY <2>2, <2>3, <2>4 DEF IsDate, LastDayOfMonth
  <2>6. y % 4 = 0 /\ (y + 1) % 4 = 0
    <3>1. ASSUME NEW a \in Nat, LeapYear(a) PROVE a % 4 = 0
      BY <3>1 DEF LeapYear
    <3>2. QED
      BY <2>5, <3>1
  <2>7. QED
    BY <2>6
<1>3. Round("yearly")[from] = from
  BY <1>1, <1>2, DateParts DEF Round, Advance
<1>4. NextRun(from, "yearly") \in {from}
  BY <1>3, SearchStays
<1>5. QED
  BY <1>4 DEF Ends

(* The finding of the run month_end, however long the loop is left to run: *)
(* compute_next_run_at never returns for a monthly template that starts on *)
(* the 31st once two months have begun since, nor for a yearly one that    *)
(* starts on February 29 from that day on.                                 *)
THEOREM SearchStalls ==
  ASSUME IsDate(now), NEW from, IsDate(from), NEW f \in Frequency,
         \/ f = "monthly" /\ from.day = 31 /\ MonthNumber(now) >= MonthNumber(from) + 2
         \/ f = "yearly" /\ from.month = 2 /\ from.day = 29 /\ ~Before(now, from)
  PROVE  ~Ends(from, f)
  BY MonthEndStalls, LeapDayStalls
=============================================================================
