-------------------------------- MODULE BankDays --------------------------------
(***************************************************************************)
(* Business days for settlement lag (packages/recon/okwan_recon/           *)
(* calendar.py): the Federal Reserve's calendar, computed, and the count   *)
(* of the days from a batch to its deposit.  A date is its ordinal, day 1  *)
(* being 1 January of year 1, a Monday.                                    *)
(***************************************************************************)
EXTENDS Absent, Integers, FiniteSets

CONSTANTS
  Starts,   \* <<year, month, day>> a batch may close on
  Reach,    \* how many days later, or earlier, its deposit may be posted
  Offsets   \* hours a merchant's clock is ahead of UTC

ASSUME BankDaysAssumption ==
  /\ Starts \subseteq (Nat \ {0}) \X (1..12) \X (1..31)
  /\ Reach \subseteq Int /\ Offsets \subseteq Int

VARIABLES start, end, day, count, counted

dayVars == <<start, end, day, count, counted>>

-----------------------------------------------------------------------------
(* Dates.                                                                    *)

Leap(y) == y % 4 = 0 /\ (y % 100 # 0 \/ y % 400 = 0)
MonthDays(y, m) ==
  CASE m = 2 -> IF Leap(y) THEN 29 ELSE 28
    [] m \in {4, 6, 9, 11} -> 30
    [] OTHER -> 31

BeforeMonth(y, m) ==
  <<0, 31, 59, 90, 120, 151, 181, 212, 243, 273, 304, 334>>[m]
    + (IF m > 2 /\ Leap(y) THEN 1 ELSE 0)

Date(y, m, d) ==
  (365 * (y - 1)) + ((y - 1) \div 4) - ((y - 1) \div 100) + ((y - 1) \div 400)
    + BeforeMonth(y, m) + d

\* Monday is 0.
Weekday(d) == (d + 6) % 7

InYear(d, y) == d \in Date(y, 1, 1)..Date(y, 12, 31)
YearsNear(d) == (((d - 1) \div 366) + 1)..(((d - 1) \div 365) + 1)
YearOf(d)    == CHOOSE y \in YearsNear(d) : InYear(d, y)

\* A bare date is that day; a moment, in hours, is the day it is at the merchant's.
AsDate(value, offset) ==
  IF value.bare THEN value.at ELSE (value.at + offset) \div 24

-----------------------------------------------------------------------------
(* Holidays.                                                                 *)

NthWeekday(y, m, weekday, n) ==
  IF n > 0
  THEN LET first == Date(y, m, 1)
       IN  first + ((weekday - Weekday(first)) % 7) + (7 * (n - 1))
  ELSE LET last == Date(IF m = 12 THEN y + 1 ELSE y, (m % 12) + 1, 1) - 1
       IN  last - ((Weekday(last) - weekday) % 7)

\* Mutant: a Saturday's holiday is kept on the Friday.
ObservedFriday(d) ==
  CASE Weekday(d) = 6 -> {d + 1}
    [] Weekday(d) = 5 -> {d - 1}
    [] OTHER -> {d}

\* Sunday moves to Monday; Saturday is not observed on a weekday.
Observed(d) ==
  CASE Weekday(d) = 6 -> {d + 1}
    [] Weekday(d) = 5 -> {}
    [] OTHER -> {d}

UsBankHolidays(y) ==
  LET fixed == {Date(y, 1, 1), Date(y, 7, 4), Date(y, 11, 11), Date(y, 12, 25)}
                 \cup (IF y >= 2022 THEN {Date(y, 6, 19)} ELSE {})
  IN  (UNION {Observed(d) : d \in fixed})
        \cup {NthWeekday(y, 1, 0, 3), NthWeekday(y, 2, 0, 3), NthWeekday(y, 5, 0, -1),
              NthWeekday(y, 9, 0, 1), NthWeekday(y, 10, 0, 2), NthWeekday(y, 11, 3, 4)}

IsBusinessDay(d) == Weekday(d) < 5 /\ d \notin UsBankHolidays(YearOf(d))

-----------------------------------------------------------------------------
(* business_days_after.                                                      *)

\* A batch is dated by its day, a deposit by a day or by a moment: here, one
\* late on that day by the merchant's clock.
CountInit ==
  \E s \in Starts, n \in Reach, offset \in Offsets, bare \in BOOLEAN :
    LET from == Date(s[1], s[2], s[3])
    IN  /\ start = AsDate([bare |-> TRUE, at |-> from], offset)
        /\ end = AsDate([bare |-> bare,
                         at |-> IF bare THEN from + n ELSE 24 * (from + n) + 21 - offset], offset)
        /\ day = start
        /\ count = 0
        /\ counted = FALSE

Precede ==
  /\ ~counted /\ end < start
  /\ count' = None
  /\ counted' = TRUE
  /\ UNCHANGED <<start, end, day>>

CountDay ==
  /\ start <= end /\ day < end
  /\ day' = day + 1
  /\ count' = count + (IF IsBusinessDay(day') THEN 1 ELSE 0)
  /\ UNCHANGED <<start, end, counted>>

CountEnds ==
  /\ ~counted /\ start <= end /\ day = end
  /\ counted' = TRUE
  /\ UNCHANGED <<start, end, day, count>>

CountNext == Precede \/ CountDay \/ CountEnds

CountSpec == CountInit /\ [][CountNext]_dayVars

-----------------------------------------------------------------------------
\* The Fed's calendar in its own words, by looking through the days of a month.
DaysOf(y, m) == {d \in Date(y, m, 1)..(Date(y, m, 1) + 30) : d < Date(y, m, 1) + MonthDays(y, m)}
EarlierAlike(y, m, d) == {e \in DaysOf(y, m) : e < d /\ Weekday(e) = Weekday(d)}
LaterAlike(y, m, d) == {e \in DaysOf(y, m) : e > d /\ Weekday(e) = Weekday(d)}

Feast(y, d) ==
  \/ d \in {Date(y, 1, 1), Date(y, 7, 4), Date(y, 11, 11), Date(y, 12, 25)}
  \/ y >= 2022 /\ d = Date(y, 6, 19)
Moving(y, d) ==
  \/ \E m \in {1, 2} : d \in DaysOf(y, m) /\ Weekday(d) = 0 /\ Cardinality(EarlierAlike(y, m, d)) = 2
  \/ d \in DaysOf(y, 5) /\ Weekday(d) = 0 /\ LaterAlike(y, 5, d) = {}
  \/ d \in DaysOf(y, 9) /\ Weekday(d) = 0 /\ EarlierAlike(y, 9, d) = {}
  \/ d \in DaysOf(y, 10) /\ Weekday(d) = 0 /\ Cardinality(EarlierAlike(y, 10, d)) = 1
  \/ d \in DaysOf(y, 11) /\ Weekday(d) = 3 /\ Cardinality(EarlierAlike(y, 11, d)) = 3

\* Banks are shut at weekends, on a holiday, and on a Monday after a Sunday's.
Shut(d) ==
  \E y \in YearsNear(d) :
    /\ InYear(d, y)
    /\ \/ Weekday(d) >= 5
       \/ Feast(y, d) \/ Moving(y, d)
       \/ Weekday(d) = 0 /\ Feast(y, d - 1)

\* T+n is n days the banks were open after the batch closed, the deposit's day
\* included, over long weekends and year ends; and settlement runs one way.
CountIsBankDays ==
  counted => count = IF end < start THEN None
                     ELSE Cardinality({d \in (start + 1)..end : ~Shut(d)})
================================================================================
