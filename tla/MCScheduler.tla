---------------------------- MODULE MCScheduler ----------------------------
(* Two sentinels of the default cluster and one of another, in London's time *)
(* of 2024 and 2025; schedules that begin around month ends, leap days and   *)
(* changes of daylight saving.                                               *)
EXTENDS Scheduler

CONSTANTS any, other, a1, a2, b1, default, second

Symmetry == Permutations({a1, a2})

Clusters == a1 :> default @@ a2 :> default @@ b1 :> second

\* From the last Sunday in March to the last in October, at one o'clock.
London == {<<datetime(2, 31, 60), datetime(9, 27, 60)>>, <<datetime(14, 30, 60), datetime(21, 26, 60)>>}

Row(type, start) == [type |-> type, minutes |-> 20000, cron |-> 400, next_run |-> start, repeats |-> -1,
                     cluster |-> None, option |-> None, args_ok |-> TRUE]

Noon == DAY \div 2
MonthEnd == datetime(0, 31, Noon)
LeapDay == datetime(1, 29, Noon)
SpringChange == datetime(2, 30, Noon)
SpringNight == datetime(2, 30, 90)
Autumn == datetime(9, 26, Noon)
LateNovember == datetime(10, 30, Noon)

Rows == [s \in Schedules |->
  CASE s = any -> {Row(t, MonthEnd) : t \in {"MONTHLY", "BIMONTHLY", "CRON"}}
                  \cup {Row(t, SpringChange) : t \in {"MINUTES", "HOURLY", "DAILY", "WEEKLY", "BIWEEKLY"}}
                  \cup {Row("DAILY", SpringNight), Row("QUARTERLY", LateNovember),
                        Row("YEARLY", LeapDay), Row("WEEKLY", Autumn)}
    [] s = other -> {[Row("WEEKLY", LeapDay) EXCEPT !.repeats = 1, !.cluster = second],
                     [Row("ONCE", LeapDay) EXCEPT !.repeats = 1],
                     [Row("ONCE", MonthEnd) EXCEPT !.option = second],
                     [Row("MINUTES", MonthEnd) EXCEPT !.repeats = 2],
                     [Row("DAILY", SpringChange) EXCEPT !.args_ok = FALSE, !.repeats = -2]}]
=============================================================================
