----------------------------- MODULE Scheduler -----------------------------
(***************************************************************************)
(* The scheduler (django_q/scheduler.py): a sentinel's pass over the       *)
(* Schedule rows that are due, in one transaction that holds their row     *)
(* locks.  Each due row becomes a package and gets its next run.  The      *)
(* packages are part of the transaction only if the broker keeps them in   *)
(* the same database; otherwise they stay when the pass is rolled back.    *)
(***************************************************************************)
EXTENDS NextRun, Sequences, SequencesExt, FiniteSets

CONSTANTS Schedules,
          Sentinels,  \* the sentinels that run the scheduler
          NameOf,     \* NameOf[c]: Conf.CLUSTER_NAME
          PREFIX,     \* Conf.PREFIX, the default cluster's name
          Templates,  \* Templates[s]: the rows s may be created as
          MaxFires,   \* bound: how often a schedule fires
          MaxFaults,  \* bound: failures of the broker and deaths
          MaxMissed   \* bound: the slots the clock passes in one step

ASSUME BoundsAssumption == MaxFires \in Nat /\ MaxFaults \in Nat /\ MaxMissed \in Nat

ScheduleRow == [type : {"ONCE", "MINUTES", "HOURLY", "DAILY", "WEEKLY", "BIWEEKLY", "MONTHLY",
                        "BIMONTHLY", "QUARTERLY", "YEARLY", "CRON"},
                minutes : Nat, cron : 0..(DAY - 1), next_run : Nat, repeats : Int,
                cluster : {None} \cup {NameOf[c] : c \in Sentinels},
                option : {None} \cup {NameOf[c] : c \in Sentinels}, args_ok : BOOLEAN]

\* A CRON schedule names a minute that every day has once (see croniter).
ASSUME TemplatesAssumption ==
  \A s \in Schedules : \A r \in Templates[s] :
    r \in ScheduleRow /\ (r.type = "CRON" => r.cron \notin ChangeHour)

VARIABLES CATCH_UP, \* Conf.CATCH_UP
          sameDB,   \* whether the packages are rows in the schedules' database
          now,
          rows,     \* the committed Schedule rows, by name
          tx,       \* tx[c]: c's transaction
          made,     \* history: the rows as they were created
          fired,    \* history: fired[s], what was enqueued for s, in order
          faults

vars == <<CATCH_UP, sameDB, now, rows, tx, made, fired, faults>>

\* A transaction: the rows it has read and not handled yet, those saved and
\* deleted, and what was enqueued in it.
Idle == [todo |-> <<>>, saved |-> <<>>, deleted |-> {}, out |-> <<>>]

Locked(c) == DOMAIN tx[c].todo \cup DOMAIN tx[c].saved \cup tx[c].deleted

Init == /\ CATCH_UP \in BOOLEAN /\ sameDB \in BOOLEAN
        /\ now = 0
        /\ rows = <<>> /\ made = <<>>
        /\ tx = [c \in Sentinels |-> Idle]
        /\ fired = [s \in Schedules |-> <<>>]
        /\ faults = 0

-----------------------------------------------------------------------------
With(f, s, r) == [x \in DOMAIN f \cup {s} |-> IF x = s THEN r ELSE f[x]]

\* Saving a new CRON row sets its next_run.
save(r) == IF r.type = "CRON" THEN [r EXCEPT !.next_run = calculate_next_run(r, 0, now)] ELSE r

\* schedule(): no row has the name yet.
\* Bound: rows are made before the clock moves.
schedule(s) ==
  /\ s \notin DOMAIN made /\ now = 0
  /\ \E r \in Templates[s] : rows' = With(rows, s, save(r)) /\ made' = With(made, s, save(r))
  /\ UNCHANGED <<CATCH_UP, sameDB, now, tx, fired, faults>>

\* Only the default cluster handles rows that name no cluster.
Mine(c, r) == r.cluster = NameOf[c] \/ (r.cluster = None /\ NameOf[c] = PREFIX)

Due(c) == {s \in DOMAIN rows : /\ rows[s].repeats # 0
                               /\ rows[s].next_run < now
                               /\ Mine(c, rows[s])}

\* Faulty variant: a SELECT that takes no locks.
UnlockedPlain(S) == TRUE

\* select_for_update waits until no other transaction has locked the rows.
Unlocked(S) == \A d \in Sentinels : Locked(d) \cap S = {}

Begin(c) ==
  /\ tx[c] = Idle
  /\ Due(c) # {} /\ Unlocked(Due(c))
  /\ \A s \in Due(c) : Len(fired[s]) < MaxFires
  /\ tx' = [tx EXCEPT ![c].todo = [s \in Due(c) |-> rows[s]]]
  /\ UNCHANGED <<CATCH_UP, sameDB, now, rows, made, fired, faults>>

\* Faulty variant: one step from the slot that fired, caught up or not.
NextSlotOnce(r) == calculate_next_run(r, r.next_run, now)

\* The loop over calculate_next_run.
NextSlot(r) ==
  LET step[t \in 0..now] == LET u == calculate_next_run(r, t, now)
                            IN IF CATCH_UP \/ u > now THEN u ELSE step[u]
  IN step[r.next_run]

\* Faulty variant: the last repeat is not counted down.
CountedAboveOne(n) == IF n < -1 THEN -1 ELSE IF n > 1 THEN n - 1 ELSE n

Counted(n) == IF n < -1 THEN -1 ELSE IF n > 0 THEN n - 1 ELSE n

Handled(r) == IF r.type = "ONCE" THEN [r EXCEPT !.repeats = 0]
              ELSE [r EXCEPT !.next_run = NextSlot(r), !.repeats = Counted(@)]

\* The cluster option of the package: the row's, else that of its q_options,
\* else the broker of this scheduler.
Target(c, r) == IF r.cluster # None THEN r.cluster
                ELSE IF r.option # None THEN r.option ELSE NameOf[c]

\* kwargs that do not parse are dropped, args that do not parse raise.
Raises(r) == ~r.args_ok

Package(c, r) == [slot |-> r.next_run, at |-> now, queue |-> Target(c, r)]

Fires(f, q) == [s \in Schedules |-> IF s \in DOMAIN q THEN Append(f[s], q[s]) ELSE f[s]]

\* The rows come in the order of their next run.
First(c) == {s \in DOMAIN tx[c].todo : \A x \in DOMAIN tx[c].todo :
                                          tx[c].todo[s].next_run <= tx[c].todo[x].next_run}

\* One turn of the loop, for the row that is due first.
Turn(c, s) ==
  LET r == tx[c].todo[s]
      p == Package(c, r)
  IN /\ s \in First(c)
     /\ ~Raises(r)
     /\ tx' = [tx EXCEPT ![c].todo = [x \in DOMAIN @ \ {s} |-> @[x]],
                         ![c].out = IF sameDB THEN With(@, s, p) ELSE @,
                         ![c].deleted = IF r.type = "ONCE" /\ r.repeats < 0 THEN @ \cup {s} ELSE @,
                         ![c].saved = IF r.type = "ONCE" /\ r.repeats < 0 THEN @
                                      ELSE With(@, s, Handled(r))]
     /\ fired' = IF sameDB THEN fired ELSE Fires(fired, With(<<>>, s, p))
     /\ UNCHANGED <<CATCH_UP, sameDB, now, rows, made, faults>>

Commit(c) ==
  /\ tx[c] # Idle /\ tx[c].todo = <<>>
  /\ rows' = [s \in (DOMAIN rows \ tx[c].deleted) \cup DOMAIN tx[c].saved |->
                IF s \in DOMAIN tx[c].saved THEN tx[c].saved[s] ELSE rows[s]]
  /\ fired' = Fires(fired, tx[c].out)
  /\ tx' = [tx EXCEPT ![c] = Idle]
  /\ UNCHANGED <<CATCH_UP, sameDB, now, made, faults>>

\* Faulty variant: what has been saved so far stays, as without a transaction.
RestoredSaved(c) == [s \in DOMAIN rows |->
                       IF s \in DOMAIN tx[c].saved THEN tx[c].saved[s] ELSE rows[s]]

Restored(c) == rows

\* args that literal_eval rejects, a broker that fails or the sentinel's death
\* ends the pass: the database forgets it.
Rollback(c) ==
  /\ tx[c] # Idle
  /\ \/ faults' = faults + 1 /\ faults < MaxFaults
     \/ faults' = faults /\ \E s \in First(c) : Raises(tx[c].todo[s])
  /\ rows' = Restored(c)
  /\ tx' = [tx EXCEPT ![c] = Idle]
  /\ UNCHANGED <<CATCH_UP, sameDB, now, made, fired>>

\* Bound: the clock stays inside the calendar, a month before its end.
Horizon == Before[12 * (LastYear - FirstYear + 1) - 1] * DAY

\* The clock goes to just after a row's next run, or misses some of its slots.
Wait ==
  \E s \in DOMAIN rows :
    LET slot[n \in 0..MaxMissed] ==
          IF n = 0 \/ rows[s].type = "ONCE" THEN rows[s].next_run
          ELSE calculate_next_run(rows[s], slot[n - 1], slot[n - 1])
    IN /\ rows[s].repeats # 0 /\ Len(fired[s]) < MaxFires
       /\ \E n \in 0..MaxMissed : now < slot[n] + 1 /\ now' = slot[n] + 1
       /\ now' \in 0..(Horizon - 1)
       /\ UNCHANGED <<CATCH_UP, sameDB, rows, tx, made, fired, faults>>

Next == \/ Wait
        \/ \E s \in Schedules : schedule(s)
        \/ \E c \in Sentinels : \/ Begin(c) \/ Commit(c) \/ Rollback(c)
                                \/ \E s \in Schedules : Turn(c, s)

Spec == Init /\ [][Next]_vars

-----------------------------------------------------------------------------
TypeOK == /\ CATCH_UP \in BOOLEAN /\ sameDB \in BOOLEAN
          /\ now \in Nat /\ faults \in 0..MaxFaults
          /\ DOMAIN rows \subseteq DOMAIN made /\ DOMAIN made \subseteq Schedules
          /\ \A s \in DOMAIN rows : rows[s] \in ScheduleRow
          /\ \A c \in Sentinels : /\ Locked(c) \subseteq DOMAIN rows
                                  /\ DOMAIN tx[c].todo \cap DOMAIN tx[c].saved = {}
          /\ \A s \in Schedules : Len(fired[s]) <= MaxFires

Slots(s) == {fired[s][i].slot : i \in DOMAIN fired[s]}

\* If the broker's packages are in the transaction a slot fires at most once,
\* however many sentinels of the cluster make passes and fail in them.
SlotsOnce == sameDB => \A s \in Schedules : Cardinality(Slots(s)) = Len(fired[s])

\* While it catches up, the scheduler fires the slots in their order and leaves
\* none out, whatever passes fail ("play catch up and execute all the missed
\* time slots", docs/configure.md:184).  CRON slots are counted from now.
NoSlotSkipped ==
  CATCH_UP => \A s \in DOMAIN made :
    LET r == made[s]
        from(t) == {t, calculate_next_run(r, t, now)}
        f == fired[s]
    IN r.type \notin {"ONCE", "CRON"} =>
         /\ f # <<>> => f[1].slot = r.next_run
         /\ \A i \in 1..(Len(f) - 1) : f[i + 1].slot \in from(f[i].slot)
         /\ s \in DOMAIN rows =>
              rows[s].next_run \in IF f = <<>> THEN {r.next_run} ELSE from(Last(f).slot)

\* Without catching up, slots that were missed are dropped: what fires next lies
\* after the moment at which the last one fired (docs/schedules.md:66).
NoBacklog ==
  ~CATCH_UP => \A s \in Schedules : \A i \in 1..(Len(fired[s]) - 1) :
    fired[s][i + 1].slot # fired[s][i].slot => fired[s][i + 1].slot > fired[s][i].at

\* n repeats are n slots; what a failed pass has enqueued elsewhere is one slot
\* ahead of the count.  A schedule that repeats for ever does so.
RepeatsExact ==
  \A s \in DOMAIN rows :
    LET used == made[s].repeats - rows[s].repeats
        d == Cardinality(Slots(s))
    IN made[s].type # "ONCE" =>
         IF made[s].repeats < 0 THEN rows[s].repeats \in {made[s].repeats, -1}
         ELSE used <= d /\ d <= used + 1 /\ (sameDB => d = used)

\* The steps from one slot to the next one that fired, where none is missed.
Steps(s) == IF CATCH_UP THEN {<<fired[s][i].slot, fired[s][i + 1].slot>> :
                                i \in 1..(Len(fired[s]) - 1)} ELSE {}

\* From a day to a quarter, schedules keep their time of day on the local clock
\* over changes of daylight saving, outside the hour that changes.
WallClockKept ==
  \A s \in DOMAIN made : made[s].type \in {"DAILY", "WEEKLY", "BIWEEKLY", "MONTHLY", "BIMONTHLY", "QUARTERLY"} =>
    \A p \in Steps(s) : (localtime(p[1]) % DAY) \notin ChangeHour =>
                          localtime(p[1]) % DAY = localtime(p[2]) % DAY

\* The day of the month is kept, or the month it leads to is shorter.
SameDay(d, e) == e.day = d.day \/ (e.day < d.day /\ e.day = monthrange(e.month))

\* Monthly to yearly schedules run on the day of the last run, or the last day of
\* a month that is too short (docs/schedules.md:180-183): yearly ones on that day in
\* UTC, the others on the local day, if it is the UTC day and not the changing hour.
OnItsDay ==
  LET span == [MONTHLY |-> 1, BIMONTHLY |-> 2, QUARTERLY |-> 3]
  IN \A s \in DOMAIN made : \A p \in Steps(s) :
       LET d == date(p[1])
           e == date(IF made[s].type = "YEARLY" THEN p[2] ELSE localtime(p[2]))
       IN p[1] # p[2] =>
            /\ made[s].type = "YEARLY" => e.month = d.month + 12 /\ SameDay(d, e)
            /\ (/\ made[s].type \in DOMAIN span
                /\ localtime(p[1]) \div DAY = p[1] \div DAY
                /\ localtime(p[1]) % DAY \notin ChangeHour)
                 => e.month = d.month + span[made[s].type] /\ SameDay(d, e)
=============================================================================
