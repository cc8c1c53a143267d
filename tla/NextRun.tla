------------------------------ MODULE NextRun ------------------------------
(***************************************************************************)
(* The date arithmetic of schedules: add_months and add_years of           *)
(* django_q/utils.py and Schedule.calculate_next_run of models.py.  A time *)
(* is the number of minutes in UTC since FirstYear began; a month is       *)
(* counted from the same moment, so that month + 1 is the next one.        *)
(***************************************************************************)
EXTENDS Integers, FiniteSetsExt

CONSTANTS FirstYear, LastYear,  \* bound: the calendar's years
          Base,                 \* the offset of TIME_ZONE from UTC, in minutes
          Summer                \* <<from, to>>: when daylight saving adds an hour

ASSUME YearsAssumption == FirstYear \in Nat /\ LastYear \in Nat /\ FirstYear <= LastYear
ASSUME BaseAssumption == Base \in Int /\ Summer \subseteq Int \X Int

DAY == 24 * 60
None == "none"

Leap(y) == y % 4 = 0 /\ (y % 100 # 0 \/ y % 400 = 0)

\* calendar.monthrange(year, month)[1]
monthrange(k) == LET y == FirstYear + k \div 12
                     m == (k % 12) + 1
                 IN CASE m = 2 -> IF Leap(y) THEN 29 ELSE 28
                      [] m \in {4, 6, 9, 11} -> 30
                      [] OTHER -> 31

\* The days before month k.
Before[k \in Nat] == IF k = 0 THEN 0 ELSE Before[k - 1] + monthrange(k - 1)

Months == 0..(12 * (LastYear - FirstYear + 1) - 1)

datetime(month, day, minute) == (Before[month] + day - 1) * DAY + minute

date(t) == LET k == CHOOSE k \in Months : Before[k] <= t \div DAY /\ t \div DAY < Before[k + 1]
           IN [month |-> k, day |-> t \div DAY - Before[k] + 1, minute |-> t % DAY]

\* The minutes that the zone's clock adds to UTC.
offset(t) == Base + (IF \E i \in Summer : i[1] <= t /\ t < i[2] THEN 60 ELSE 0)

localtime(t) == t + offset(t)

\* The minutes of the local day that daylight saving leaves out or has twice.
ChangeHour == {(i[1] + Base + n) % DAY : i \in Summer, n \in 0..59}

\* Faulty variant: the last day of every month is the 28th.
AddMonths28(t, n) == LET d == date(t)
                     IN datetime(d.month + n, Min({d.day, 28}), d.minute)

add_months(t, n) == LET d == date(t)
                    IN datetime(d.month + n, Min({d.day, monthrange(d.month + n)}), d.minute)

\* replace(year) fails for February 29 only; then as many days are added as lie
\* between the two March firsts.
add_years(t, n) == LET d == date(t)
                       k == d.month + 12 * n
                   IN IF d.day <= monthrange(k) THEN datetime(k, d.day, d.minute)
                      ELSE t + (Before[k + 1] - Before[d.month + 1]) * DAY

-----------------------------------------------------------------------------
\* croniter(cron, t).get_next() for an expression that names a minute of the day.
croniter(cron, t) == LET wait == (cron - localtime(t)) % DAY
                         u == t + (IF wait = 0 THEN DAY ELSE wait)
                     IN u - (localtime(u) - localtime(t) - (u - t))

\* minutes or 1
MinutesOf(s) == IF s.minutes = 0 THEN 1 ELSE s.minutes

add(s, t) == CASE s.type = "MINUTES" -> MinutesOf(s)
               [] s.type = "HOURLY" -> 60
               [] s.type = "DAILY" -> DAY
               [] s.type = "WEEKLY" -> 7 * DAY
               [] s.type = "BIWEEKLY" -> 14 * DAY
               [] s.type = "MONTHLY" -> add_months(t, 1) - t
               [] s.type = "BIMONTHLY" -> add_months(t, 2) - t
               [] s.type = "QUARTERLY" -> add_months(t, 3) - t
               [] s.type = "YEARLY" -> add_years(t, 1) - t

\* Faulty variant: the difference is added, not subtracted.
CorrectedTwice(t, u) == u + (localtime(u) - localtime(t)) - (u - t)

\* The daylight saving difference between t and u is taken off again.
Corrected(t, u) == u - ((localtime(u) - localtime(t)) - (u - t))

calculate_next_run(s, t, now) ==
  CASE s.type = "CRON" -> croniter(s.cron, now)
    [] s.type \in {"MINUTES", "HOURLY", "YEARLY"} -> t + add(s, t)
    [] OTHER -> Corrected(t, t + add(s, t))
=============================================================================
