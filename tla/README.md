# A TLA+ verification project for django-q2

This directory specifies the task queue in `src/django_q` in TLA+, checks the
specification with TLC on small instances and proves its most important
properties with TLAPS for all values of the constants. File and line numbers
refer to the sources at this commit.

## 1. The system

A Django process calls `async_task`, which signs a *package* and hands it to a
*broker*. On the other side one or more *clusters* run. A cluster is a tree of
processes started by `qcluster`: the **sentinel** spawns a **pusher**, a pool of
**workers** and a **monitor** and guards them.

    async_task -> broker -> pusher -> task queue -> workers -> result queue -> monitor -> Task table
                    ^                  (bounded)                (unbounded)      |
                    +------------------ acknowledge / fail ----------------------+

| Component | State | Operations | Talks to | What is hard | What makes it correct |
|---|---|---|---|---|---|
| ORM broker (`brokers/orm.py`) | rows of OrmQ with a lock time | enqueue, dequeue (SELECT, then one conditional UPDATE a row), delete, purge | pusher, monitor, `async_task` | clusters interleave between SELECT and UPDATE; leases expire | no package under two live leases; gone means gone |
| Mongo, SQS, IronMQ, Redis brokers | the service's queue | the same | the same | Redis keeps no receipts | the same, Redis excepted |
| Pusher (`pusher.py`) | the batch claimed, the package in hand | dequeue, unpack, reject, label the attempt, put | broker, Task table, task queue, stop event | blocks on a full queue; dies in mid-batch; label goes stale | nothing is lost, nothing is rejected but bad signatures |
| Worker (`worker.py`, `timeout.py`) | the task in hand, a shared timer | take, execute, report, time out, recycle | both queues, the guard by the timer | death, timeout, races on the timer | reports what happened, once |
| Monitor (`monitor.py`) | the result in hand | save_task, save_cached, chain progress, acknowledge | Task table, cache, broker | death between save and acknowledge; two monitors on one row | acknowledged only when concluded; a success is final; attempts are counted |
| Sentinel (`cluster.py`) | pool, timers, events | spawn, guard, reincarnate, stop | all processes, scheduler | deaths, timeouts, poison pills, full queues | every process is replaced; stop ends, with the queues empty |
| Cluster (`cluster.py`) | start and stop event, the sentinel | start, stop, signal handler | sentinel | a sentinel that dies early; signals during start | states follow starting, running, stopping, stopped |
| Scheduler (`scheduler.py`) | Schedule rows | one pass in a transaction | broker, Task table | a failure rolls back the pass but not the broker | each slot fires once, repeats are counted |
| Schedule dates (`models.py`, `utils.py`) | none | calculate_next_run, add_months, add_years | scheduler | month ends, leap years, DST | the next run is later, and on the right day |
| Cached results (`monitor.py`, `tasks.py`) | cache keys, group lists | save_cached, collate, getters | cache | read, change, write by several monitors; redelivery | an iterable is collated with all its results, if its members come one by one |
| Chains (`tasks.py`, `monitor.py`) | the rest of the chain in the package | async_chain | broker | redelivery, unsaved successes | each link follows its predecessor's success |
| Statistics (`status.py`, `brokers/__init__.py`) | the key list and one entry a cluster | set_stat, get_stats | cache | lost updates | a live cluster is listed |
| Queues (`queues.py`) | a size counter beside the queue | put, get, qsize | all | counter and queue are not atomic | the counter agrees when nothing is under way |
| Signing, signals, admin, terminal monitors, names, migrations | - | - | - | - | not modelled: no protocol of their own |

`PROJECT.json` lists every component with its status, and every hazard with the
line where it bites and the properties that would catch it going wrong.

## 2. Plan, and where it stands

1. `LeaseBroker` (abstract), `OrmBroker` (implements it), `Pipeline` (broker,
   pushers, queues, workers, monitors, Task table, with deaths, expired leases
   and database errors). **Done.**
2. `WorkerTimer`, the timer shared by worker and guard, and `Sentinel`: guard
   loop, reincarnation, stop procedure with poison pills. **Done.**
3. `Results` (pruning at SAVE_LIMIT, cached tasks and groups, iterables, chains)
   and `TaskApi` (the program that runs them and asks for results). **Done.**
4. `NextRun` (date arithmetic) and `Scheduler` (one pass, its transaction,
   catch-up, repeats). **Done.**
5. `RemoteBrokers` (Mongo, SQS, IronMQ, Redis) and `Status` (start, stop and
   signals, statistics, queue counters). **Done.**
6. Proofs of the brokers' contract, of `Pipeline`'s safety, of `Sentinel`'s stop
   procedure, of the worker's timer, of `Status`' counters and lifecycle, of the
   `Scheduler`'s slots and dates, and of `Results` and `TaskApi`: every safety
   property that a run checks is a theorem. **Done** (section 5).

Left: the synchronous path of `async_task`; `delete_cached` and `queue_size`; the
reports that Stat makes of single processes; and the time-out of cached results.

Composition:

    LeaseBroker <= OrmBroker, RemoteBrokers     (<= : is implemented by)
    Pipeline  EXTENDS LeaseBroker
    Scheduler EXTENDS NextRun
    TaskApi   EXTENDS Results

`Results` looks into the monitor's part of `Pipeline`; `Sentinel` abstracts from the
timer that `WorkerTimer` details, and `Status` from the guard loop that `Sentinel`
details. The order was that of what the program is for: first that no task is lost
or concluded without cause, then that the processes are kept alive and stopped, then
what is stored, then what is scheduled and shown.

## 3. Modules

### LeaseBroker
What every receipt-keeping broker promises: `lease[p]` is `"new"`, `"free"`, the
cluster that leases `p`, or `"gone"`. `Enqueue`, `Claim`, `Expire` and `Remove`
are the only steps. In particular a lease passes from one cluster to another
only by way of `"free"`, and what is gone stays gone.

### OrmBroker
`table` and `lock` are the OrmQ rows; `used` the primary keys handed out, which
the database does not reuse; `seen[c]` the rows of c's last SELECT that await
their UPDATE; `got[c]` the `task_list` under construction; `held[c]` what the
pusher, workers and monitor of c can still acknowledge. `Select` may return any
BULK dequeueable rows because the query has no order. `Update` is the
conditional UPDATE on `id` and `lock`. `Tick` is the clock: all hosts are
assumed to agree on it. `holder` is a history variable for the refinement.

### Pipeline
The composition. It extends `LeaseBroker` and uses its operators as conjuncts.
One action per step that other processes can see: a claim, the unpacking of a
package (with the attempt label read from the Task table), the put, the take,
the end of an execution, the put of the result, and in the monitor the read of
the row, its write, and each acknowledgement. `returned`, `raised`, `delivered`
and `unrecorded` are history variables. `PatientRetry` states whether RETRY is
as `docs/configure.md` demands: longer than any package is in hand.

### WorkerTimer
One worker slot and the guard. `timer` is `timer.value`; `reg` is what the
worker has read for `timer.value += 3`, which is a read and a write, each
taking the timer's lock, between which the guard may come. The guard's check
and the worker's last section hold the lock throughout; the guard's check is
therefore one action (`Replace`, `Terminate`, `Watch`), while the worker's
section is three (`Lock`, `PutResult`, `Release`), since it can die within.
`outbox` counts results handed to the queue's feeder thread, which writes them
later (`Flush`). `Tick` is the clock, in ticks of which 1 is the guard's
shortest cycle.

### Sentinel
The guard loop, one action per check, the pool's iteration one process at a
time, with the effect that removing a process while iterating skips the next
one (in the guard loop and again in `stop`). Then the stop procedure: event to
the pusher, wait, pills, wait, pill to the monitor, wait. Pusher, workers and
monitor are reduced to where they are and what they do to the two queues.
Process ids are reused (`Procs` has one more than the pool); a replaced worker's
process ends in the same step. A hung worker's timer comes to 0 in some pass
(`TimerExpires`), which `WorkerTimer` justifies. `counter` is the guard loop's
variable that also decides whether the loop may end.

### RemoteBrokers
The four brokers that keep their queue in a service, in one module since they
differ in a few operators; `kind` is what `get_broker` has chosen. MongoDB's
dequeue finds and locks one document in a single operation; SQS and IronMQ lease a
batch, of 10 at most in SQS. `lock[p]` is when p was handed out; a receipt is a
package with that time, and one that has run out still deletes the document in
MongoDB, while SQS and IronMQ may refuse it. Redis pops: what a cluster has when it
dies is gone. All four implement `LeaseBroker`; for
Redis a pop is a claim and a removal at once.

### NextRun and Scheduler
`NextRun` is arithmetic only: `add_months`, `add_years`, `calculate_next_run` with
the correction for daylight saving, on minutes since the first of a year. The
croniter library is external and modelled for an expression that names a minute of
the day. `Scheduler` has the Schedule rows, a transaction for each sentinel (what it
has read and locked, saved, deleted and enqueued) and the clock. `fired` records each
package with its slot. Whether the packages are part of the transaction (`sameDB`) is
chosen at the start, and so is CATCH_UP. A pass may fail at any row: it is rolled back,
and packages put with another broker stay.

### Results and TaskApi
`Results` is `save_task` and `save_cached`, one query or cache call after another, for
several monitors: prune, look, create or save; extend the key list, collate, delete;
then the next link of a chain, which the code enqueues before it saves a row
(and, when cached, before it sets the entry). A package is delivered once, and again
at the cost of a fault. A result is the list of the packages whose return values it is made of,
so that a collation that lacks a member shows. `TaskApi` is the caller: an AsyncTask,
Iter or Chain object, `append`, `run`, and the questions `result`, `fetch`,
`result_group`, `fetch_group` with the polling they do, including `async_iter` that
writes into the options of its caller, and `delete_group`.

### Status
`Cluster.start` and `stop` with the two events and the signal handler, which may run
in the middle of `start`; `Stat.save` and `get_all` over the key list in the cache,
which everyone reads, changes and writes without a lock, or over Redis, which needs
no list; `reader` is a pass of qmonitor; and the task queue with the counter that
`put` and `get` change after the fact, from which a cluster's status is told. Sudden
deaths of sentinels and of processes that have not counted yet.

## 4. Runs

All constants are in the `.cfg` files. A pass run checks all its properties in
one exploration; a run that expects a violation checks one, and is recorded as
a finding in `PROJECT.json` with the line of the documentation it contradicts.

| Run | Question | Answer |
|---|---|---|
| `MCOrmBroker` | Do SELECT and conditional UPDATE implement exclusive leases? | Yes, also across deaths, purges and late acknowledgements. |
| `MCRemoteBrokers` | Do the other brokers? And do they lose anything? | Yes; only Redis does, what was handed out. |
| `MCPipelineRace` | Two clusters, RETRY too short: what holds even then? | Nothing leaves the broker without cause or is given up early, no attempt is invented. |
| `MCPipelineShared` | Two clusters, RETRY long enough: is the Task table right? | Yes: one copy of a package at a time, successes stay, removals are accounted for, failures are limited. |
| `MCPipelineLive` | Is every package settled in the end? | Yes, with limited attempts. |
| `MCWorkerTimer` | Is a worker terminated exactly when it is overdue? | Yes, when CYCLE divides the timeouts. |
| `MCSentinel` | Is everyone replaced, and does a calm stop end with empty queues? | Yes. |
| `MCScheduler` | Does each slot fire once, in order, at the right time of the right day? | Yes if the packages are in the transaction; otherwise slots repeat, but none is skipped. |
| `MCResults` | What do two monitors keep true of groups, iterables, chains and SAVE_LIMIT? | Collations have the right length, links keep in step, the limit is exceeded by at most one row for each further monitor. |
| `MCTaskApi` | Does a program get the results of its last run, all of them, and some day? | Of the last run and all of them, yes. Some day, if it looks where they are stored for good and no two monitors are at an iterable's key list at once; otherwise an iterable may never be collated. |
| `MCIterable` | Does a collation have every member? | No: one that failed and was repeated is counted twice and takes another's place. |
| `MCStatus` | Are live clusters listed, dead ones forgotten, idle ones idle; do start and stop return? | Yes, eventually, although the list has no lock; but a start whose sentinel dies before it is ready waits until someone kills it. |

Type invariants are stated in every module with state; for `OrmBroker`,
`RemoteBrokers`, `WorkerTimer`, `Sentinel`, `Pipeline`, `Scheduler`, `Results` and
`TaskApi` they are proved, that of `Pipeline` is also run. That of `Status` was checked
with the constants of the run and is in no `.cfg`. `PillsLast` of `Sentinel` and
`StoppedIsDead` of `Status` are proved for all constants and not run either.

### Bounds, and why they are enough

- Two clusters are what a race needs: every hazard listed is between two actors
  on one row. `MCOrmBroker` and `MCRemoteBrokers` have two packages so that a batch
  can be claimed in part by each; `MaxTime` lets a lease run out and be taken again.
- `MaxDeliveries` and `MaxFaults` bound how often a lease is given and how often
  something dies. Two faults are a death after save followed by another one;
  `MAX_ATTEMPTS` is 2 or 3: 2 is the least value at which "one too early" and "one
  too late" differ. Where a bound stops a behaviour, the properties are such that
  more of the same adds no new state of the row they speak of.
- `QUEUE_LIMIT` is 1 or 2, so that the pusher meets a full queue.
- `WorkerTimer`: a timeout of 2 and none at all, a buffer of 3, `SLACK` below
  the buffer (the worker reports within the buffer, which is what it is for),
  recycling at 2, two deaths.
- `Sentinel`: two workers are the least for which an iteration can skip one,
  three packages the least that exceed the queue. `SCHEDULE_AFTER` stands for
  the 30 seconds and CYCLE for the guard's sleep; only their ratio matters.
- `Scheduler`: two sentinels of one cluster race for a row and a third belongs to
  another; schedules are created before the clock moves, start around a month's end,
  a leap day and London's changes of 2024 and 2025, and fire `MaxFires` = 3 times;
  the clock passes up to `MaxMissed` = 1 slots in one step, so that there is
  one to catch up or to drop; one failure. The clock stays a month inside the calendar
  (`Horizon`), which is as many years as the constants say.
- `Results`, `TaskApi`: three packages and two monitors; in `MCTaskApi` two runs and one
  question, which changes nothing that a second one could see; `MCIterable` needs one
  monitor only. Three packages are a chain or an iterable of one that is run, extended
  and run again. The settings are those in `MCTaskApi.tla`: unlimited, a limit of 1
  (over all, by name, by group; for the questions one of them), nothing saved, with and
  without CACHED. Cache entries do not time out.
- `Status`: one cluster is signalled and busy and may be `Late` (its turns take
  longer than the 3 seconds its entry lives), one is not; one death. Tasks are put
  with one cluster only, which is where a counter is.

### Fairness, and why the code justifies it

Processes are run by the operating system and none of the loops waits for
anything but a queue, an event or another process's end, so each process has
weak fairness as a whole. A lease runs out because time passes (`LeaseEnds`), and
so do a cache entry that no one renews (`Expire`) and a function's timeout
(SIGALRM). Nothing is assumed to make a caller submit, a task hang, a process die, a
worker be recycled or a stop signal come. `EventuallySettled` is stated for packages
that are free in the broker.

In `TaskApi` the calls of the program go on, each package reaches a monitor (that
`Pipeline` delivers it is `EventuallySettled`) and each monitor goes on. In `Status`
qmonitor is left open (`Reading`), since without a reader no key is ever pruned;
`LastStat`, the last statistic before a stopping sentinel ends, has strong fairness:
a stopping sentinel saves any number of statistics before it, each of several steps,
but the stop procedure ends, which is `StopCompletes` of `Sentinel`. Strong fairness
is used nowhere else.

### What the runs assume, and what fails without it

- All hosts agree on the time, and Django's UPDATE is atomic.
- `PatientRetry`: RETRY is longer than a package can be in hand, as
  `docs/configure.md` demands. `SuccessIsFinal`, `InHandOnce`,
  `RemovedIsAccountedFor` and `FailuresLimited` need it: with a RETRY that is too
  short two monitors read a row, and the one that writes last overwrites a success
  with a failure (`monitor.py:134`, against `docs/brokers.md:22`).
  `MCPipelineRace` shows what is left without it.
- `FailuresLimited` speaks of packages without a success in the Task table: once a
  success is stored and not acknowledged, `save_task` counts no more attempts
  (`monitor.py:138`), so that MAX_ATTEMPTS does not limit them.
- The guard's cycle divides the timeouts: otherwise the timer steps over 0
  (`cluster.py:321`) and a hung worker is never terminated.
- `guard_cycle` is below 30: from there on the loop's counter is 0 after every
  pass, with the scheduler on, and the loop does not end (`cluster.py:336`).
- A calm stop (`CalmStop`): from the stop signal on no worker is recycled, times
  out, hangs or dies. A worker that leaves takes no replacement (`cluster.py:354`):
  the others take a pill each and leave tasks behind. With WORKERS and
  QUEUE_LIMIT 1 the sentinel also deadlocks on its own pill, and with a task
  that hangs after the guard loop it waits for ever.
- The monitor finishes within the sentinel's patience (`SlowMonitor = FALSE`);
  otherwise `cluster.py:376` gives up and the results in the queue are lost to
  the Task table.
- Nobody dies holding a lock: neither the timer's (`DeathInLock = FALSE`; else
  the guard waits at `cluster.py:319` for ever) nor a queue's.
- `--run-once` stops after as little as one batch (`pusher.py:87`): `MCSentinel`
  has stopped states with packages in the broker.
- The attempt label (`pusher.py:82`) is for display and is claimed to be nothing
  else: after overwritten counts it may be ahead of what the row says.
- A pass of `get_stats` removes keys from the list it iterates over and misses the
  next cluster once (`brokers/__init__.py:145`); the next pass shows it.
- Names of schedules are looked up and then created (`tasks.py:111`), so that two
  callers may create a name twice; `Scheduler` has one caller.
- A stored result of `None` is taken for one that is not there yet
  (`tasks.py:152`): the answers speak of results that are not `None`.
- `WallClockKept` leaves out the hour that a change of daylight saving repeats or
  omits, and `OnItsDay` also the times whose local date is not the UTC date: months are
  added in UTC, and what a change of the clock does to the time is corrected after
  that. The correction can carry a run near midnight over to the next UTC day, so that
  the day that is kept is the local one. Years are added without a correction
  (`models.py:376`), so that a YEARLY schedule keeps its day in UTC.
- A CRON schedule names a minute that every day has once (`TemplatesAssumption`).
- `TornOnlyInFlight` and the answers of chains leave out a chain whose group was
  deleted while a link was on its way (`obj.dirty`): a monitor that has read the key
  list writes it back with the names that were deleted (`monitor.py:182`, `:207`).
  `AnswerOfLastRun` also leaves out chains with faults: a link of an earlier run that
  is delivered again puts its result back into the group.
- `Answered` assumes that no two monitors overlap at an iterable (`Overlapping`: both
  between the read of its key list, `monitor.py:182`, and the set of an entry, `:224`).
  Two clusters need no failure for that, and it goes wrong in two ways. Both read the
  same list and both write it (`:207`): one name is lost, and no later monitor counts
  all the others. Or one has written its name and not yet set its entry when the other
  finds the list complete: collating raises, the exception is logged (`:227`), and the
  second result is stored nowhere. In both the iterable is never collated,
  `result(wait=-1)` waits for ever, and `docs/iterable.md:19` ("Once all the 100 results
  are in the cache, they are collated") does not hold. TLC shows it when the assumption
  is taken out of `Answered`; with it, the run shows that nothing else keeps a program
  waiting. A single cluster has a single monitor and cannot overlap.
- `Answered` also assumes that nothing fails or is delivered twice; that results in the
  Task table are not pruned (`SAVE_LIMIT = 0`: a row may be gone before it is asked for,
  or between the two queries of `models.py:109`, when `result` raises); that the object
  looks where the results go, which an Iter with `q_options` may not, since `async_iter`
  writes `cached` into them (`tasks.py:460`), so that the second run stores elsewhere than
  the first (`StoredWhere`); and that a chain's count is taken where its results go and
  includes failures when they are in the table (`tasks.py:191`).
- `delete_group` is one step in `TaskApi`; the code makes up to three cache calls. What a
  monitor or a link on its way could do between them is left out with `obj.dirty`.
- `CallsEnd` exempts a start whose sentinel died before it set the start event and that
  no one has stopped (`LeftWaiting`): `cluster.py:76` waits for the event without a
  limit, and `stop` does nothing for a sentinel that is not alive (`:81`).
- `StatLists` of `Status` prunes and writes the key list in one step, where
  `brokers/__init__.py:111-115` asks for each entry and then writes: an entry that is set or
  expires in between is as one set or expired just after; the next statistic looks again.
- `docs/configure.md:90` and `docs/schedules.md:157` describe earlier behaviour and
  are not used as properties.

## 5. Proofs

TLAPS proves the following for all values of the constants that satisfy the
named assumptions of each module; TLC evaluates those assumptions in every run.

**`OrmBrokerProofs`** (from `RetryAssumption`, a RETRY of at least 1, and
`ClusterAssumption`, that cluster names are none of the abstract states).
`OneLiveLease` is not inductive: nothing in it ties a claim to the row.
The inductive invariant `LeaseInv` adds that locks a SELECT has read have passed
(`SeenPassed`), that claims are of rows that were enqueued, hence not of a
primary key still to come (`ClaimsUsed`), that a claim whose lease runs agrees
with the lock column and its holder (`LiveIsLock`), and that a lock ahead of the
clock has a holder (`LockedIsHeld`). The point of the argument is the UPDATE: it
matches only the lock that was read, which had passed, so every claim it
overrides had run out. `ExclusiveLeases` and `Implementation` (the refinement
mapping `leaseBar`: each step is a step of `LeaseBroker` or none) follow.

**`RemoteBrokersProofs`** (from the module's four assumptions). `RemoteInv` has
the same parts for the other brokers: what is in hand was sent (`ClaimsSent`), a
receipt whose lease runs agrees with the lock (`LiveIsLock`), what is locked has a
holder (`LockedIsHeld`), and `KeptUntilConcluded`. There is no read lock to
remember, because MongoDB and the services find and lock in one operation.
Theorems: `TypeCorrect`, `ExclusiveLeases`, `NothingLost`, `Implementation`.

**`PipelineProofs`** (from `PipelineAssumption`). `TypeCorrect` needs only that
the pusher unpacks from a batch that is not empty. `RemovedForCauseAlways`:
`RemovedForCause` speaks of the broker and of executions, with four processes and
two queues in between; the invariant `CauseInv` adds `OutcomesBacked`, that every
outcome in a result queue or a monitor's hands is backed by an execution that
ended so, wherever it is on its way. Each action moves an outcome or makes one.

Under `PatientRetry`: a *place* is a slot of a batch, of one
of the queues, of a worker or a monitor, and `At(k, c, i, p)` says that p is there.
The invariant `OnceInv`: p is in one place at most (`Once`), in none while it has no
lease, and, once it has left the broker, only where a monitor is through with it
(`AckOnly`), so that no removal lets a second copy in. Every action keeps copies where
they are (`Staying`), hands one on (`Handing`), or takes the head of a queue and moves
up the rest (`Shifting`). `InHandOnceAlways` follows; then `FoundInv`, that the row a
monitor has found is still the row (there is one monitor with that package), from which
`SuccessStays`; then `AccountInv`, that a monitor about to acknowledge has done what
accounts for it, from which `RemovedAccounted`; and `LimitInv`: each execution is
counted in the row, on its way to it or lost to a fault, and what may be executed
again has an attempt left, from which `FailuresAreLimited`.

For any RETRY: here a package may be in hand many times, and what
a monitor found may be old when it writes. `Pending(p)` is the set of places where an
execution of p waits to be counted: workers that report, result queues, monitors
between reading and writing. `Counted(p)`: the row's attempts, and what any monitor
has found of them, are with the pending ones at most the executions. An execution adds
a place, a save takes one away and adds one attempt to what was found, and no other
step adds any; where copies move there is an injection from the places after the step
to those before (`PendingHanded`, `PendingShifted`). `AttemptsWereRunAlways` and
`NeverGivenUpEarly` follow.

**`WorkerTimerProofs`** (under `SLACK < BUFFER`: a worker that SIGALRM interrupts has
reported before the buffer is used up). `OnlyOverdueKilled`: what the timer still
has, what the worker has used and what the guard still sleeps make up the timeout
and the buffer (`RunningInv`), or a hanging task is past both; while the timer is
armed in two steps, of which the guard's pass can undo the first, timer and nap make
up the timeout (`ArmingInv`). That CYCLE divides the timeouts is not needed here,
only for the timer to be seen at 0, which is `HungIsReplaced`. `TypeCorrect` is for any
cycle as well, with a timer that may go below 0.

**`SentinelProofs`**. `SentinelInv` has four parts. `TypeInv` gives `TypeCorrect`.
`PoolInv` says where the iteration over the changing pool is, and gives
`PoolStaysWhole`. `QueueInv` says that nothing follows a pill, and gives
`PillsComeLast`. `CalmInv` holds in a calm stop: as many pills are in the queue or
still to be put as workers are living, so each worker finds one and none is left with
tasks in front of it; it gives `CalmStopEmptiesTasks` and, with a monitor that gets
its time, `CalmStopSavesResults`.

**`StatusProofs`** (from `StatusAssumption`). `IdleIsIdle`: while no process has died
the counter is the number of items, less the put that is not counted, plus the gets
that are not (`Lag`). A counter of 0 leaves the uncounted put at most.
`StopReturnsAfterTheEnd`: `EndInv` ties the events, the state of the call and the
life of the sentinel to each other, also when a signal comes in the middle of start.

**`SchedulerProofs`** (from `YearsAssumption`, `BaseAssumption`, `BoundsAssumption` and
`TemplatesAssumption`; the calendar may begin in any year, the zone may have any
offset and any intervals of summer time).

*Dates.* `Before` counts the days before a month by recursion. `LeastNatural`, that a
set of naturals has a least element, comes from the well-foundedness of finite
subsets, which is a statement about a relation and not about an operator; with it
`BeforeRecursion` shows that the recursive function is the number of dates before
(`DaysBefore`), so that each moment has one date (`DateOf`). From that follow what
`add_months` and `add_years` return (`AddMonths`, `AddYears`), that the correction for
daylight saving restores the local time (`CorrectedKeepsClock`), that
`calculate_next_run` returns a later moment for every type of schedule
(`NextRunLater`), and that the loop in `scheduler.py` that skips missed slots ends
after now (`LoopEnds`, again by `LeastNatural`).

*Transactions.* `SInv` says what a transaction under way knows: the rows it has locked
are as they were committed and due (`LocksOK`), no two transactions lock one row
(`Exclusive`), what it will save is one step on from what it enqueued (`HandledOK`);
and what has fired fits the committed row: in order, and each slot once if packages
are in the transaction (`Ascending`, `UpTo`), none left out while catching up
(`Chained`, `ChainedTo`), none before the last firing otherwise (`Timely`), counted by
`repeats` (`CountedTo`). A pass that fails keeps it, because packages in the
transaction go with it and others were enqueued for the slot the row still has.
`EachSlotOnce`, `CatchUpSkipsNone`, `MissedAreDropped` and `RepeatsAreSlots` follow;
`ClockIsKept` and `DayIsKept` from the part on dates. `OnItsDay` was first stated in
UTC for all types of schedule, of which the proof failed for a run whose corrected
time falls on the next UTC day; it is now stated as section 4 has it.

**`ResultsProofs`** (from `ResultsAssumption`, `ApiAssumption`: finitely many monitors
and groups, at least one argument or link).

*Whatever fails.* `AInv` says of every name in a key list, of every entry in the cache
and of every row that it is of a package which was delivered (`KeysOK`, `CacheOK`,
`RowsOK`), and of every monitor what it holds at each of its calls (`TaskOK`). Of an
iterable it says that no list has a member twice, nor the member a monitor has yet to
append, unless one was delivered twice (`DistinctOK`). `CollatedIsWhole` is then a
pigeonhole: a list of `iter_count` different members of a group, whose items are
between 1 and `iter_count`, has them all. `SaveLimitIsNearlyKept` and
`LinksFollowDeliveries` count. `SaveInv`: the successes in the table together with the
monitors that have pruned and not yet written theirs; a monitor prunes when the table
is full, and then the others are all that can be ahead of it. `ChainInv`: a delivery of a
link pays for one next link or for the monitor that is about to enqueue it (`Paid`),
and all links of a run agree where the chain ends (`SameEnd`).

*While nothing fails or is delivered twice* (`faults = 0`). `ClearInv`: a monitor finds
its task neither in the cache nor in the table before it stores it, and once an
iterable is collated each member is stored and no other monitor is at the group, so
that what is deleted stays deleted (`NothingIsLeft`). `TornInv`: each name in a key list,
or in a list that a monitor has read, has an entry or a monitor about to set it
(`NamesHaveEntries`). For chains `LinksInv` says that a link has one successor at most,
enqueued when it was stored; `LastInv` that the links of earlier runs are gone from
lists, rows and monitors; `AskedInv` that what a question has counted, or found in a
list, is of the last run and complete. Together they give `AnswersAreWhole` and the
chains' part of `AnswersAreOfLastRun`; the part of iterables and tasks needs `AInv`
only.

**Only model-checked**: every liveness property (TLAPS proves no liveness here), which
are `EventuallySettled`, `HungIsReplaced`, `LeftIsReplaced`, `StopCompletes`,
`LostReplaced`, `Answered`, `ListedAgain`, `Forgotten` and `CallsEnd`. The croniter
library is outside the repository: what is proved of CRON schedules is proved of the
model of it. Induction over data was possible only where a set of naturals could stand
for the property (the calendar, the loop over missed slots).

## 6. Not modelled

Cryptography, pickling, logging, process titles, CPU affinity, Prometheus and
error reporters, the admin pages and terminal monitors, names, translations,
migrations and the sample project keep no state that the protocol depends on.
Signals and hooks call the application and return. Settings are constants of the
modules; how they are read is not modelled. The synchronous path (`sync=True`, which
runs worker and monitor in the caller's process), `delete_cached`, `queue_size`, the
time-out of cached results and per-function save limits are left out; `ack_failure`
and MAX_ATTEMPTS are in `Pipeline` and not again in `Results`. SQS and
IronMQ as services are modelled from the calls the code makes.
