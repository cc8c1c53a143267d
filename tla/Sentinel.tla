------------------------------ MODULE Sentinel ------------------------------
(***************************************************************************)
(* The sentinel of one cluster (django_q/cluster.py): the guard loop that  *)
(* looks after the workers, the monitor and the pusher, and the stop       *)
(* procedure with its poison pills.  The processes it guards are here as   *)
(* far as the sentinel depends on them: which of them live, what is in the *)
(* two queues, who waits for whom.  Timers are in module WorkerTimer; here *)
(* the guard finds a hung worker's timer at 0 sooner or later.             *)
(***************************************************************************)
EXTENDS Integers, Sequences

CONSTANTS WORKERS,         \* Conf.WORKERS, the size of the pool
          QUEUE_LIMIT,     \* Conf.QUEUE_LIMIT, the task queue's maxsize
          BULK,            \* Conf.BULK, packages of one dequeue
          CYCLE,           \* Conf.GUARD_CYCLE
          SCHEDULE_AFTER,  \* the 30 seconds after which the scheduler is called
          SCHEDULER,       \* Conf.SCHEDULER
          Backlog,         \* bound: packages in the broker at the start
          MaxDeaths,       \* bound: sudden deaths
          Leaving,         \* do workers leave, recycled or after a timeout?
          Hanging,         \* do tasks hang where nothing interrupts them?
          CalmStop,        \* does none of this happen from the stop signal on?
          SlowMonitor      \* may the monitor outlast the sentinel's patience?

ASSUME SentinelAssumption ==
  /\ WORKERS \in Nat \ {0} /\ QUEUE_LIMIT \in Nat \ {0} /\ BULK \in Nat \ {0}
  /\ CYCLE \in Nat \ {0} /\ SCHEDULE_AFTER \in Nat \ {0}
  /\ SCHEDULER \in BOOLEAN /\ Backlog \in Nat /\ MaxDeaths \in Nat
  /\ Leaving \in BOOLEAN /\ Hanging \in BOOLEAN
  /\ CalmStop \in BOOLEAN /\ SlowMonitor \in BOOLEAN

VARIABLES spc,         \* where the sentinel is
          idx,         \* its position in the pool, or the pills it has to put
          counter,     \* the guard loop's counter
          pool,        \* the list of worker processes
          stop_event,  \* set by Cluster.stop
          event_out,   \* set by the sentinel to stop the pusher
          worker,      \* worker[p]: the state of worker process p
          pusher,      \* the pusher's state
          batch,       \* packages the pusher has dequeued and not queued
          broker,      \* packages left in the broker
          taskQueue,   \* tasks and poison pills
          resultQueue, \* results and the monitor's poison pill
          monitor,     \* the monitor's state
          deaths       \* sudden deaths so far

sentinelVars == <<spc, idx, counter, pool>>
vars == <<spc, idx, counter, pool, stop_event, event_out, worker, pusher, batch,
          broker, taskQueue, resultQueue, monitor, deaths>>

\* Process ids: one more than the pool holds, a dead worker's is used again.
Procs == 1..(WORKERS + 1)

Guarding == {"test", "pool", "monitor", "pusher", "count"}
Stopping == {"halt", "waitPusher", "pills", "waitWorkers", "resultPill", "waitMonitor"}

TypeOK ==
  /\ spc \in Guarding \cup Stopping \cup {"stopped"}
  /\ idx \in 0..(WORKERS + 1)
  /\ counter \in Nat
  /\ pool \in Seq(Procs) /\ Len(pool) <= WORKERS
  /\ stop_event \in BOOLEAN /\ event_out \in BOOLEAN
  /\ worker \in [Procs -> {"dead", "get", "run", "hung", "overdue"}]
  /\ pusher \in {"poll", "put", "check", "dead"}
  /\ batch \in 0..BULK /\ broker \in 0..Backlog
  /\ taskQueue \in Seq({"task", "STOP"}) /\ Len(taskQueue) <= QUEUE_LIMIT
  /\ resultQueue \in Seq({"result", "STOP"})
  /\ monitor \in {"get", "save", "dead"}
  /\ deaths \in 0..MaxDeaths

\* spawn_cluster has run and the guard loop begins.
Init == /\ spc = "test" /\ idx = 0 /\ counter = 0
        /\ pool = [i \in 1..WORKERS |-> i]
        /\ stop_event = FALSE /\ event_out = FALSE
        /\ worker = [p \in Procs |-> IF p <= WORKERS THEN "get" ELSE "dead"]
        /\ pusher = "poll" /\ batch = 0 /\ broker = Backlog
        /\ taskQueue = <<>> /\ resultQueue = <<>>
        /\ monitor = "get" /\ deaths = 0

Alive(p) == worker[p] # "dead"
PoolAlive == \A i \in DOMAIN pool : Alive(pool[i])

-----------------------------------------------------------------------------
(* The guard loop. *)

\* while not self.stop_event.is_set() or not counter
LoopTest ==
  /\ spc = "test"
  /\ spc' = IF ~stop_event \/ counter = 0 THEN "pool" ELSE "halt"
  /\ idx' = 1
  /\ UNCHANGED <<counter, pool, stop_event, event_out, worker, pusher, batch,
                 broker, taskQueue, resultQueue, monitor, deaths>>

Spare == CHOOSE p \in Procs : \A i \in DOMAIN pool : pool[i] # p

\* pool.remove: the processes behind p move up.
Without(i) == [j \in 1..(Len(pool) - 1) |-> IF j < i THEN pool[j] ELSE pool[j + 1]]

\* Faulty variant: a worker that has left of itself is not looked for.
LostOverdue(p) == worker[p] = "overdue"

\* Not alive, or its timer at 0.
Lost(p) == ~Alive(p) \/ worker[p] = "overdue"

\* Faulty variant: the process is replaced and stays in the pool.
ReincarnateKeeping(i) ==
  /\ pool' = Append(pool, Spare)
  /\ worker' = [worker EXCEPT ![pool[i]] = "dead", ![Spare] = "get"]

\* reincarnate: remove the process, append a new one, terminate the old one.
Reincarnate(i) ==
  /\ pool' = Append(Without(i), Spare)
  /\ worker' = [worker EXCEPT ![pool[i]] = "dead", ![Spare] = "get"]

\* for p in self.pool, over a list that changes: after a replacement the next
\* process has moved to the place just visited, and is not visited.
CheckWorker ==
  /\ spc = "pool" /\ idx <= Len(pool)
  /\ idx' = idx + 1
  /\ \/ Lost(pool[idx]) /\ Reincarnate(idx)
     \/ ~Lost(pool[idx]) /\ UNCHANGED <<pool, worker>>
  /\ UNCHANGED <<spc, counter, stop_event, event_out, pusher, batch, broker,
                 taskQueue, resultQueue, monitor, deaths>>

PoolChecked ==
  /\ spc = "pool" /\ idx > Len(pool)
  /\ spc' = "monitor"
  /\ UNCHANGED <<idx, counter, pool, stop_event, event_out, worker, pusher, batch,
                 broker, taskQueue, resultQueue, monitor, deaths>>

CheckMonitor ==
  /\ spc = "monitor" /\ spc' = "pusher"
  /\ monitor' = IF monitor = "dead" THEN "get" ELSE monitor
  /\ UNCHANGED <<idx, counter, pool, stop_event, event_out, worker, pusher, batch,
                 broker, taskQueue, resultQueue, deaths>>

CheckPusher ==
  /\ spc = "pusher" /\ spc' = "count"
  /\ pusher' = IF pusher = "dead" THEN "poll" ELSE pusher
  /\ UNCHANGED <<idx, counter, pool, stop_event, event_out, worker, batch,
                 broker, taskQueue, resultQueue, monitor, deaths>>

\* The counter starts over when the scheduler is called.  Without a scheduler
\* it only grows; SCHEDULE_AFTER bounds it here, as only 0 is tested.
Count ==
  /\ spc = "count" /\ spc' = "test"
  /\ counter' = IF counter + CYCLE < SCHEDULE_AFTER THEN counter + CYCLE
                ELSE IF SCHEDULER THEN 0 ELSE SCHEDULE_AFTER
  /\ UNCHANGED <<idx, pool, stop_event, event_out, worker, pusher, batch,
                 broker, taskQueue, resultQueue, monitor, deaths>>

GuardLoop == LoopTest \/ CheckWorker \/ PoolChecked \/ CheckMonitor \/ CheckPusher \/ Count

-----------------------------------------------------------------------------
(* The stop procedure. *)

\* Cluster.stop sets the event.  In a calm stop nobody is missing or stuck then.
StopSignal ==
  /\ ~stop_event /\ stop_event' = TRUE
  /\ CalmStop => /\ \A i \in DOMAIN pool : worker[pool[i]] \in {"get", "run"}
                 /\ pusher # "dead" /\ monitor # "dead"
  /\ UNCHANGED <<sentinelVars, event_out, worker, pusher, batch, broker, taskQueue,
                 resultQueue, monitor, deaths>>

\* self.event_out.set()
Halt == /\ spc = "halt" /\ spc' = "waitPusher"
        /\ event_out' = TRUE /\ UNCHANGED <<idx, counter, pool>>

\* Faulty variant: one worker gets no pill.
PillsTooFew == Len(pool) - 1

\* range(len(self.pool))
Pills == Len(pool)

PusherStopped == /\ spc = "waitPusher" /\ pusher = "dead"
                 /\ spc' = "pills" /\ idx' = Pills
                 /\ UNCHANGED <<counter, pool, event_out>>

\* self.task_queue.put("STOP") waits for room like any put.
PutPill == /\ spc = "pills" /\ idx > 0 /\ Len(taskQueue) < QUEUE_LIMIT
           /\ taskQueue' = Append(taskQueue, "STOP") /\ idx' = idx - 1
           /\ UNCHANGED <<spc, counter, pool, event_out, resultQueue>>

PillsDone == /\ spc = "pills" /\ idx = 0
             /\ spc' = "waitWorkers" /\ idx' = 1
             /\ UNCHANGED <<counter, pool, event_out>>

\* Faulty variant: the sentinel takes every worker to have left.
GoneAnyway(p) == p \in Procs

Gone(p) == ~Alive(p)

\* One step of "for p in self.pool", which again skips the one after a removal;
\* past the end the loop starts over, until the pool is empty.
Reap == /\ spc = "waitWorkers" /\ (idx <= Len(pool) \/ pool # <<>>)
        /\ IF idx > Len(pool) THEN idx' = 1 /\ pool' = pool
           ELSE /\ idx' = idx + 1
                /\ pool' = IF Gone(pool[idx]) THEN Without(idx) ELSE pool
        /\ UNCHANGED <<spc, counter, event_out>>

Reaped == /\ spc = "waitWorkers" /\ pool = <<>>
          /\ spc' = "resultPill"
          /\ UNCHANGED <<idx, counter, pool, event_out>>

\* self.result_queue.put("STOP"): this queue has no limit.
ResultPill == /\ spc = "resultPill" /\ spc' = "waitMonitor"
              /\ resultQueue' = Append(resultQueue, "STOP")
              /\ UNCHANGED <<idx, counter, pool, event_out, taskQueue>>

\* Faulty variant: nobody waits.
MonitorDoneAlways == TRUE

\* status() is no longer STOPPING, or count has reached timeout * 10.
MonitorDone == monitor = "dead" \/ SlowMonitor

\* The sentinel ends; the monitor, a daemon, ends with it, wherever it is.
WaitMonitor == /\ spc = "waitMonitor" /\ MonitorDone
               /\ spc' = "stopped"
               /\ UNCHANGED <<idx, counter, pool, event_out>>

StopProcedure ==
  /\ \/ PutPill \/ ResultPill
     \/ /\ Halt \/ PusherStopped \/ PillsDone \/ Reap \/ Reaped \/ WaitMonitor
        /\ UNCHANGED <<taskQueue, resultQueue>>
  /\ UNCHANGED <<stop_event, worker, pusher, batch, broker, monitor, deaths>>

-----------------------------------------------------------------------------
(* The processes the sentinel guards. *)

\* Nobody goes of itself once a calm stop has begun.
MayGo == ~(CalmStop /\ stop_event)

\* broker.dequeue()
Dequeue == /\ pusher = "poll"
           /\ LET n == IF broker < BULK THEN broker ELSE BULK
              IN  /\ batch' = n /\ broker' = broker - n
                  /\ pusher' = IF n > 0 THEN "put" ELSE "check"
           /\ UNCHANGED taskQueue

Room == Len(taskQueue) < QUEUE_LIMIT

\* task_queue.put(task)
Put == /\ pusher = "put" /\ Room
       /\ taskQueue' = Append(taskQueue, "task")
       /\ batch' = batch - 1
       /\ pusher' = IF batch' > 0 THEN "put" ELSE "check"
       /\ UNCHANGED broker

\* if event.is_set(): break
CheckEvent == /\ pusher = "check"
              /\ pusher' = IF event_out THEN "dead" ELSE "poll"
              /\ UNCHANGED <<batch, broker, taskQueue>>

Pusher == /\ Dequeue \/ Put \/ CheckEvent
          /\ UNCHANGED <<sentinelVars, stop_event, event_out, worker, resultQueue,
                         monitor, deaths>>

\* iter(task_queue.get, "STOP")
Take(p) == /\ worker[p] = "get" /\ taskQueue # <<>>
           /\ taskQueue' = Tail(taskQueue)
           /\ worker' = [worker EXCEPT ![p] = IF Head(taskQueue) = "STOP" THEN "dead" ELSE "run"]
           /\ UNCHANGED resultQueue

\* result_queue.put(task), and then the next task or, after a timeout or at
\* RECYCLE, the end.  The rest of its exit is in WorkerTimer.
Report(p, next) == /\ worker[p] = "run"
                   /\ resultQueue' = Append(resultQueue, "result")
                   /\ worker' = [worker EXCEPT ![p] = next]
                   /\ UNCHANGED taskQueue

Finish(p) == Report(p, "get")
Leave(p) == Leaving /\ MayGo /\ Report(p, "dead")

Worker(p) == /\ Take(p) \/ Finish(p) \/ Leave(p)
             /\ UNCHANGED <<sentinelVars, stop_event, event_out, pusher, batch, broker,
                            monitor, deaths>>

\* A task hangs; while the guard loop runs its timer comes to 0.
Hang(p) == /\ Hanging /\ MayGo /\ worker[p] = "run"
           /\ worker' = [worker EXCEPT ![p] = "hung"]
           /\ UNCHANGED <<sentinelVars, stop_event, event_out, pusher, batch, broker,
                          taskQueue, resultQueue, monitor, deaths>>

TimerExpires(p) == /\ spc \in Guarding /\ worker[p] = "hung"
                   /\ worker' = [worker EXCEPT ![p] = "overdue"]
                   /\ UNCHANGED <<sentinelVars, stop_event, event_out, pusher, batch, broker,
                                  taskQueue, resultQueue, monitor, deaths>>

\* iter(result_queue.get, "STOP")
Monitor == /\ spc # "stopped"
           /\ \/ /\ monitor = "get" /\ resultQueue # <<>>
                 /\ resultQueue' = Tail(resultQueue)
                 /\ monitor' = IF Head(resultQueue) = "STOP" THEN "dead" ELSE "save"
              \/ /\ monitor = "save" /\ monitor' = "get" /\ UNCHANGED resultQueue
           /\ UNCHANGED <<sentinelVars, stop_event, event_out, worker, pusher, batch,
                          broker, taskQueue, deaths>>

\* Sudden death, where the process holds no lock of a queue: a worker in its
\* task, the monitor in a save, the pusher at the broker or between two puts.
Death == /\ deaths < MaxDeaths /\ deaths' = deaths + 1 /\ MayGo
         /\ UNCHANGED <<sentinelVars, stop_event, event_out, broker, taskQueue, resultQueue>>

WorkerDies(p) == /\ Death /\ worker[p] \in {"run", "hung", "overdue"}
                 /\ worker' = [worker EXCEPT ![p] = "dead"]
                 /\ UNCHANGED <<pusher, batch, monitor>>
PusherDies == /\ Death /\ pusher # "dead"
              /\ pusher' = "dead" /\ batch' = 0
              /\ UNCHANGED <<worker, monitor>>
MonitorDies == /\ Death /\ monitor = "save" /\ spc # "stopped"
               /\ monitor' = "dead"
               /\ UNCHANGED <<worker, pusher, batch>>

Stopped == spc = "stopped" /\ UNCHANGED vars

Next == \/ GuardLoop \/ StopSignal \/ StopProcedure
        \/ Pusher \/ Monitor \/ PusherDies \/ MonitorDies \/ Stopped
        \/ \E p \in Procs : Worker(p) \/ Hang(p) \/ TimerExpires(p) \/ WorkerDies(p)

Spec == Init /\ [][Next]_vars

\* Every process goes on, tasks that do not hang return.  Nothing obliges the
\* stop signal, a hang or a death to come.
FairSpec == /\ Spec
            /\ WF_vars(GuardLoop \/ StopProcedure) /\ WF_vars(Pusher) /\ WF_vars(Monitor)
            /\ \A p \in Procs : WF_vars(Worker(p))

-----------------------------------------------------------------------------
\* While the guard loop runs the pool, changed under its own iteration, has
\* WORKERS different processes, and no live worker is outside it: from that the
\* number of poison pills is right.
PoolIsWhole ==
  spc \in Guarding =>
    /\ Len(pool) = WORKERS
    /\ \A i, j \in DOMAIN pool : pool[i] = pool[j] => i = j
    /\ \A p \in Procs : Alive(p) => \E i \in DOMAIN pool : pool[i] = p

\* A pill ends its taker: no task comes after a pill, and no result after the
\* monitor's.
PillsLast ==
  /\ \A i, j \in DOMAIN taskQueue : i < j /\ taskQueue[i] = "STOP" => taskQueue[j] = "STOP"
  /\ \A i \in DOMAIN resultQueue : resultQueue[i] = "STOP" => i = Len(resultQueue)

\* docs/architecture.md: "This ensures that the task queue is emptied before the
\* workers exit."  Nothing is left in it when the sentinel has reaped them.
TaskQueueEmptied == spc \in {"resultPill", "waitMonitor", "stopped"} => taskQueue = <<>>

\* docs/architecture.md: "the sentinel waits for the monitor to empty the result
\* queue and the stop procedure is complete."
ResultsSaved == spc = "stopped" => resultQueue = <<>> /\ monitor # "save"

\* docs/cluster.md: Cluster.stop "initiates stop procedure and waits for it to
\* finish".
StopCompletes == stop_event ~> spc = "stopped"

\* docs/architecture.md: "In case of a sudden death or timeout, it will
\* reincarnate the failing processes", also where the iteration skips one.
LostReplaced ==
  \A p \in Procs :
    (/\ spc \in Guarding /\ worker[p] \in {"dead", "overdue"}
     /\ \E i \in DOMAIN pool : pool[i] = p)
      ~> (\/ spc \notin Guarding \/ worker[p] \notin {"dead", "overdue"}
          \/ \A i \in DOMAIN pool : pool[i] # p)
=============================================================================
