---------------------------- MODULE WorkerTimer ----------------------------
(***************************************************************************)
(* The countdown timer one worker process shares with the sentinel's guard *)
(* loop (django_q/worker.py, cluster.py).  The worker arms the timer with  *)
(* its task's timeout and a buffer; the guard takes CYCLE off at each pass *)
(* and terminates a worker whose timer is 0.  Inside the worker SIGALRM    *)
(* interrupts the function at the timeout, unless the function hangs where *)
(* signals are not handled.  Results are handed to the result queue's      *)
(* feeder thread, which writes them to the pipe later.                     *)
(*                                                                         *)
(* Every single read or write of timer.value takes the timer's lock; the   *)
(* guard's check and the worker's last section hold it throughout, so that *)
(* the guard's check is one step here.  Times are in ticks.                *)
(***************************************************************************)
EXTENDS Integers

CONSTANTS Timeouts,     \* the timeouts tasks have; -1 is none
          BUFFER,       \* the 3 seconds the worker adds to the timeout
          CYCLE,        \* Conf.GUARD_CYCLE, the guard's sleep
          RECYCLE,      \* Conf.RECYCLE, tasks before a worker is recycled
          SLACK,        \* bound: ticks from SIGALRM until the worker has reported
          DeathInLock,  \* may a worker die while it holds the timer's lock?
          MaxDeaths     \* bound: sudden deaths

ASSUME TimerAssumption ==
  /\ Timeouts \subseteq {-1} \cup (Nat \ {0})
  /\ BUFFER \in Nat /\ CYCLE \in Nat \ {0} /\ RECYCLE \in Nat \ {0}
  /\ SLACK \in Nat /\ DeathInLock \in BOOLEAN /\ MaxDeaths \in Nat

VARIABLES wpc,      \* where the worker is
          limit,    \* the timeout of its task
          elapsed,  \* ticks since the timer was armed, for a task with a timeout
          timedout, \* did SIGALRM end the function?
          timer,    \* timer.value: > 0 busy, 0 terminate, -1 idle, -2 recycled
          reg,      \* what the worker read for "timer.value += 3"
          count,    \* task_count
          outbox,   \* results the feeder thread has not written yet
          locked,   \* is the timer's lock held, by the worker or its corpse?
          nap,      \* ticks until the guard's next pass
          deaths    \* sudden deaths so far

vars == <<wpc, limit, elapsed, timedout, timer, reg, count, outbox, locked, nap, deaths>>

Idle == -1
Recycled == -2

TypeOK ==
  /\ wpc \in {"get", "taken", "armed", "tested", "adding", "run", "hung", "ended",
              "locked", "put", "leaving", "dead"}
  /\ limit \in Timeouts \cup {Idle}
  /\ elapsed \in Nat
  /\ timedout \in BOOLEAN
  /\ timer \in Int /\ reg \in Int   \* below 0 if CYCLE does not divide the timeout
  /\ count \in 0..RECYCLE
  /\ outbox \in 0..RECYCLE
  /\ locked \in BOOLEAN
  /\ nap \in 0..CYCLE
  /\ deaths \in 0..MaxDeaths

Init == /\ wpc = "get" /\ limit = Idle /\ elapsed = 0 /\ timedout = FALSE
        /\ timer = Idle /\ reg = Idle /\ count = 0 /\ outbox = 0 /\ locked = FALSE
        /\ nap = 0 /\ deaths = 0

-----------------------------------------------------------------------------
(* The worker. *)

Go(from, to) == wpc = from /\ wpc' = to

Take == /\ Go("get", "taken")
        /\ limit' \in Timeouts
        /\ timer' = Idle /\ count' = count + 1 /\ timedout' = FALSE
        /\ UNCHANGED <<elapsed, reg, outbox, locked, nap, deaths>>

\* timer.value = timer_value
Arm == /\ Go("taken", "armed")
       /\ timer' = limit /\ elapsed' = 0
       /\ UNCHANGED <<limit, timedout, reg, count, outbox, locked, nap, deaths>>

\* if timer.value != -1
Test == /\ wpc = "armed"
        /\ wpc' = IF timer = Idle THEN "run" ELSE "tested"
        /\ UNCHANGED <<limit, elapsed, timedout, timer, reg, count, outbox, locked, nap, deaths>>

\* timer.value += 3 is a read and a write; the guard may come in between.
Read == /\ Go("tested", "adding")
        /\ reg' = timer
        /\ UNCHANGED <<limit, elapsed, timedout, timer, count, outbox, locked, nap, deaths>>

\* Faulty variant: no buffer.
BufferedNot(t) == t

Buffered(t) == t + BUFFER

Add == /\ Go("adding", "run")
       /\ timer' = Buffered(reg)
       /\ UNCHANGED <<limit, elapsed, timedout, reg, count, outbox, locked, nap, deaths>>

\* The function gets where it neither returns nor can be interrupted.
Hang == /\ Go("run", "hung")
        /\ UNCHANGED <<limit, elapsed, timedout, timer, reg, count, outbox, locked, nap, deaths>>

\* The function returns or raises in time, or SIGALRM ends it.
End == /\ Go("run", "ended")
       /\ timedout' \in BOOLEAN
       /\ timedout' => limit # Idle /\ elapsed >= limit
       /\ ~timedout' => limit = Idle \/ elapsed <= limit
       /\ UNCHANGED <<limit, elapsed, timer, reg, count, outbox, locked, nap, deaths>>

\* with timer.get_lock(): result_queue.put hands the result to the feeder.
Lock == /\ Go("ended", "locked") /\ ~locked
        /\ locked' = TRUE
        /\ UNCHANGED <<limit, elapsed, timedout, timer, reg, count, outbox, nap, deaths>>

PutResult == /\ Go("locked", "put")
             /\ outbox' = outbox + 1
             /\ UNCHANGED <<limit, elapsed, timedout, timer, reg, count, locked, nap, deaths>>

\* The end of the locked section: a timeout or a recycling leaves the loop.
Release == /\ wpc = "put" /\ locked' = FALSE
           /\ \/ timedout /\ timer' = 0 /\ wpc' = "leaving"
              \/ ~timedout /\ count = RECYCLE /\ timer' = Recycled /\ wpc' = "leaving"
              \/ ~timedout /\ count # RECYCLE /\ timer' = Idle /\ wpc' = "get"
           /\ UNCHANGED <<limit, elapsed, timedout, reg, count, outbox, nap, deaths>>

\* The feeder thread writes a result to the pipe.
Flush == /\ outbox > 0 /\ outbox' = outbox - 1
         /\ UNCHANGED <<wpc, limit, elapsed, timedout, timer, reg, count, locked, nap, deaths>>

\* A process exits once its feeder thread has written everything.
Exit == /\ Go("leaving", "dead") /\ outbox = 0
        /\ UNCHANGED <<limit, elapsed, timedout, timer, reg, count, outbox, locked, nap, deaths>>

\* Sudden death; a lock the worker holds stays locked.
Die == /\ wpc # "dead" /\ deaths < MaxDeaths
       /\ locked => DeathInLock
       /\ wpc' = "dead" /\ outbox' = 0 /\ deaths' = deaths + 1
       /\ UNCHANGED <<limit, elapsed, timedout, timer, reg, count, locked, nap>>

-----------------------------------------------------------------------------
(* The guard's pass over this worker. *)

\* Faulty variants: a test that is past the 0 the timer stops at, a guard that
\* forgets about dead processes.
ExpiredBelow == timer < Recycled
FinishedAlive == FALSE

Expired == timer = 0
Finished == wpc = "dead"
Countdown == IF timer > 0 THEN timer - CYCLE ELSE timer

\* A new process in the slot, with a timer and a lock of its own.
Respawn == /\ wpc' = "get" /\ limit' = Idle /\ elapsed' = 0 /\ timedout' = FALSE
           /\ timer' = Idle /\ reg' = Idle /\ count' = 0 /\ outbox' = 0 /\ locked' = FALSE

Pass(action) == nap = 0 /\ ~locked /\ action /\ nap' = CYCLE /\ UNCHANGED deaths

Replace == Pass(Finished /\ Respawn)

\* process.terminate(): what the feeder has not written is lost.
Terminate == Pass(~Finished /\ Expired /\ Respawn)

Watch == Pass(/\ ~Finished /\ ~Expired
              /\ timer' = Countdown
              /\ UNCHANGED <<wpc, limit, elapsed, timedout, reg, count, outbox, locked>>)

-----------------------------------------------------------------------------
\* The worker is busy with a task that has a timeout.
Timed == limit # Idle /\ wpc \in {"run", "hung", "ended", "locked", "put"}

\* The clock: the guard may be late; the worker arms its timer within a tick and,
\* unless it hangs, is done within SLACK of its timeout.
Tick == /\ wpc \notin {"armed", "tested", "adding"}
        /\ nap' = IF nap > 0 THEN nap - 1 ELSE 0
        /\ IF Timed /\ elapsed < limit + SLACK
           THEN elapsed' = elapsed + 1
           ELSE elapsed' = elapsed /\ (Timed => wpc = "hung")
        /\ UNCHANGED <<wpc, limit, timedout, timer, reg, count, outbox, locked, deaths>>

WorkerStep == Arm \/ Test \/ Read \/ Add \/ Lock \/ PutResult \/ Release \/ Exit

Next == \/ Take \/ WorkerStep \/ Hang \/ End \/ Flush \/ Die
        \/ Replace \/ Terminate \/ Watch \/ Tick

Spec == Init /\ [][Next]_vars

\* The worker, its feeder thread, the guard and the clock go on; SIGALRM is
\* delivered.  Nothing obliges a task to arrive or a function to return.
FairSpec == /\ Spec
            /\ WF_vars(WorkerStep) /\ WF_vars(Flush) /\ WF_vars(End /\ timedout')
            /\ WF_vars(Replace \/ Terminate \/ Watch) /\ WF_vars(Tick)

-----------------------------------------------------------------------------
\* worker.py: the buffer is there "so that guard doesn't kill the process on
\* timeout before it gets processed".  The guard terminates a worker only where
\* it hangs past its timeout, or on its way out after one.
KillsOnlyOverdue ==
  [][Terminate => \/ wpc = "leaving" /\ timedout
                  \/ wpc = "hung" /\ limit # Idle /\ elapsed >= limit]_vars

\* docs/architecture.md: "the sentinel checks if the timers don't reach zero, in
\* which case it will terminate the worker": a worker that hangs in a task with
\* a timeout is replaced.
HungIsReplaced == (wpc = "hung" /\ limit # Idle) ~> wpc = "get"

\* docs/architecture.md: "In case of a sudden death or timeout, it will
\* reincarnate the failing processes".
LeftIsReplaced == wpc \in {"leaving", "dead"} ~> wpc = "get"
=============================================================================
