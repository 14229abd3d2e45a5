--------------------------- MODULE AnalyticsPeriods ---------------------------
(***************************************************************************)
(* The calendar period that an analytics event belongs to: getPeriodStart, *)
(* getPeriodEnd and getBucketForDate of the analytics service, on the UTC  *)
(* dates of JavaScript.                                                    *)
(*                                                                         *)
(* An instant is a number of ticks since the first of January 1970, with   *)
(* TicksPerDay ticks in a day (86 400 000 in the code); a day is counted   *)
(* from the same date, and the months of a year are 0 to 11.               *)
(*                                                                         *)
(* Source: microservice/analytics/analytics.service.ts                     *)
(***************************************************************************)
EXTENDS Integers

CONSTANTS TicksPerDay, LastYear   \* bounds: the length of a day, the last year

ASSUME CalendarAssumption == TicksPerDay \in Nat \ {0} /\ LastYear \in Nat

ANALYTICS_PERIODS == <<"daily", "weekly", "monthly", "yearly", "lifetime">>
Period == {"daily", "weekly", "monthly", "yearly", "lifetime"}

-----------------------------------------------------------------------------
(* The Date of JavaScript.                                                 *)

LeapYear(y) == y % 4 = 0 /\ (y % 100 # 0 \/ y % 400 = 0)

\* The days of a common year before month m.
Elapsed == [m \in 0 .. 11 |->
  <<0, 31, 59, 90, 120, 151, 181, 212, 243, 273, 304, 334>>[m + 1]]

YearBegins(y) ==
  365 * (y - 1970) + ((y - 1) \div 4 - 492) - ((y - 1) \div 100 - 19)
    + ((y - 1) \div 400 - 4)

MonthBegins(y, m) ==
  YearBegins(y) + Elapsed[m] + (IF m > 1 /\ LeapYear(y) THEN 1 ELSE 0)

\* Date.UTC(y, m, d), which takes any month and carries it over to the year.
UTC(y, m, d) == MonthBegins(y + m \div 12, m % 12) + d - 1

getUTCFullYear(day) ==
  CHOOSE y \in 1970 .. LastYear : YearBegins(y) <= day /\ day < YearBegins(y + 1)

getUTCMonth(day) ==
  LET y == getUTCFullYear(day)
  IN  CHOOSE m \in 0 .. 11 : UTC(y, m, 1) <= day /\ day < UTC(y, m + 1, 1)

\* 0 is Sunday; the first of January 1970 was a Thursday.
getUTCDay(day) == (day + 4) % 7

-----------------------------------------------------------------------------
(* The bucket of an instant.                                               *)

DaysSinceSunday(day) == getUTCDay(day)
DaysSinceMonday(day) == IF getUTCDay(day) = 0 THEN 6 ELSE getUTCDay(day) - 1

getPeriodStart(day, period) ==
  CASE period = "daily"   -> day
    [] period = "weekly"  -> day - DaysSinceMonday(day)
    [] period = "monthly" -> UTC(getUTCFullYear(day), getUTCMonth(day), 1)
    [] period = "yearly"  -> UTC(getUTCFullYear(day), 0, 1)

\* The day on which the next period starts.
getPeriodEnd(start, period) ==
  CASE period = "daily"   -> start + 1
    [] period = "weekly"  -> start + 7
    [] period = "monthly" -> UTC(getUTCFullYear(start), getUTCMonth(start) + 1, 1)
    [] period = "yearly"  -> UTC(getUTCFullYear(start) + 1, 0, 1)

getBucketForDate(t, period) ==
  IF period = "lifetime"
  THEN [period |-> period, from |-> 0, to |-> UTC(LastYear + 1, 0, 1) * TicksPerDay - 1]
  ELSE LET start == getPeriodStart(t \div TicksPerDay, period)
       IN  [period |-> period, from |-> start * TicksPerDay,
            to |-> getPeriodEnd(start, period) * TicksPerDay - 1]

-----------------------------------------------------------------------------
(* What the periods are, without a calendar computation: two instants are  *)
(* in one period if no boundary of its kind lies between them.             *)

Boundary(day, period) ==
  CASE period = "daily"    -> TRUE
    [] period = "weekly"   -> getUTCDay(day) = 1
    [] period = "monthly"  -> \E y \in 1970 .. LastYear, m \in 0 .. 11 : day = MonthBegins(y, m)
    [] period = "yearly"   -> \E y \in 1970 .. LastYear : day = YearBegins(y)
    [] period = "lifetime" -> FALSE

SamePeriod(t, u, period) ==
  LET a == t \div TicksPerDay
      b == u \div TicksPerDay
  IN  \A day \in (a + 1 .. b) \cup (b + 1 .. a) : ~Boundary(day, period)
=============================================================================
