------------------------------ MODULE Pipeline ------------------------------
(***************************************************************************)
(* The path of a task package through the clusters that share one broker:  *)
(*                                                                         *)
(*   broker -> pusher -> task queue -> workers -> result queue -> monitor  *)
(*                                                                         *)
(* The pusher (django_q/pusher.py) claims packages under a lease, labels   *)
(* them with the attempt they are and puts them in the bounded task queue; *)
(* the workers (worker.py) execute them; the monitor (monitor.py) saves    *)
(* the outcome to the Task table and then acknowledges the package, which  *)
(* removes it from the broker.  Until then an expired lease delivers it    *)
(* again.  Every process may die, and the sentinel starts a new one.  The  *)
(* broker is LeaseBroker, which OrmBroker implements.  Here Task rows are  *)
(* never pruned (SAVE_LIMIT = 0) and tasks are neither chained nor cached. *)
(***************************************************************************)
EXTENDS LeaseBroker, Integers, Sequences

CONSTANTS Workers,         \* the worker slots of each cluster
          BULK,            \* Conf.BULK, packages claimed by one dequeue
          QUEUE_LIMIT,     \* Conf.QUEUE_LIMIT, the task queue's maxsize
          MAX_ATTEMPTS,    \* Conf.MAX_ATTEMPTS, 0 for no limit
          AckFailures,     \* packages with ack_failure set
          Unsaved,         \* packages with save=False
          Tampered,        \* packages whose signature does not verify
          PatientRetry,    \* does RETRY exceed the time a package is in hand?
          MaxDeliveries,   \* bound: claims of one package
          MaxFaults        \* bound: deaths of processes and database errors

ASSUME PipelineAssumption ==
  /\ BULK \in Nat \ {0} /\ QUEUE_LIMIT \in Nat \ {0} /\ MAX_ATTEMPTS \in Nat
  /\ AckFailures \subseteq Packages /\ Unsaved \subseteq Packages
  /\ Tampered \subseteq Packages /\ PatientRetry \in BOOLEAN
  /\ MaxDeliveries \in Nat /\ MaxFaults \in Nat

VARIABLES pusher,       \* pusher[c]: where c's pusher is and what it has in hand
          taskQueue,    \* taskQueue[c]: deliveries waiting for a worker
          worker,       \* worker[c][w]: where the worker is, with which delivery
          resultQueue,  \* resultQueue[c]: outcomes waiting for the monitor
          monitor,      \* monitor[c]: where c's monitor is, with which outcome
          task,         \* task[p]: the Task row; attempt_count 0 is no row
          delivered,    \* history: claims of p so far
          returned,     \* history: executions of p that returned
          raised,       \* history: executions of p that raised or timed out
          unrecorded,   \* history: packages with an outcome the database refused
          faults        \* faults so far

brokerVars == <<lease, delivered>>
history == <<returned, raised, unrecorded>>
vars == <<lease, pusher, taskQueue, worker, resultQueue, monitor, task,
          delivered, returned, raised, unrecorded, faults>>

Row == [attempt_count : Nat, success : BOOLEAN]
NoRow == [attempt_count |-> 0, success |-> FALSE]
Delivery == [id : Packages, attempt : Nat \ {0}]
Outcome == [id : Packages, success : BOOLEAN]

PusherState ==
  [pc : {"dequeue", "unpack"}, batch : Seq(Packages)]
    \cup [pc : {"put"}, batch : Seq(Packages), task : Delivery]
WorkerState ==
  [pc : {"idle"}] \cup [pc : {"execute"}, task : Delivery]
    \cup [pc : {"report"}, task : Delivery, success : BOOLEAN]
MonitorState ==
  [pc : {"get"}]
    \cup [pc : {"load", "exhausted", "ack"}, result : Outcome]
    \cup [pc : {"store"}, result : Outcome, found : Row]

TypeOK == /\ LeaseTypeOK
          /\ pusher \in [Clusters -> PusherState]
          /\ taskQueue \in [Clusters -> Seq(Delivery)]
          /\ worker \in [Clusters -> [Workers -> WorkerState]]
          /\ resultQueue \in [Clusters -> Seq(Outcome)]
          /\ monitor \in [Clusters -> MonitorState]
          /\ task \in [Packages -> Row]
          /\ delivered \in [Packages -> Nat]
          /\ returned \in [Packages -> Nat]
          /\ raised \in [Packages -> Nat]
          /\ unrecorded \subseteq Packages
          /\ faults \in Nat

Polling == [pc |-> "dequeue", batch |-> <<>>]
Idle == [pc |-> "idle"]
Waiting == [pc |-> "get"]

Init == /\ LeaseInit
        /\ pusher = [c \in Clusters |-> Polling]
        /\ taskQueue = [c \in Clusters |-> <<>>]
        /\ worker = [c \in Clusters |-> [w \in Workers |-> Idle]]
        /\ resultQueue = [c \in Clusters |-> <<>>]
        /\ monitor = [c \in Clusters |-> Waiting]
        /\ task = [p \in Packages |-> NoRow]
        /\ delivered = [p \in Packages |-> 0]
        /\ returned = [p \in Packages |-> 0]
        /\ raised = [p \in Packages |-> 0]
        /\ unrecorded = {}
        /\ faults = 0

-----------------------------------------------------------------------------
\* Where a package can be between its claim and the monitor's last step.
Queued(q, p) == \E i \in DOMAIN q : q[i].id = p
InPusher(c, p) == \/ \E i \in DOMAIN pusher[c].batch : pusher[c].batch[i] = p
                  \/ pusher[c].pc = "put" /\ pusher[c].task.id = p
InWorker(c, w, p) == worker[c][w].pc # "idle" /\ worker[c][w].task.id = p
InMonitor(c, p) == monitor[c].pc # "get" /\ monitor[c].result.id = p

InHand(p) == \E c \in Clusters :
               \/ InPusher(c, p) \/ InMonitor(c, p)
               \/ Queued(taskQueue[c], p) \/ Queued(resultQueue[c], p)
               \/ \E w \in Workers : InWorker(c, w, p)

-----------------------------------------------------------------------------
\* async_task signs the package and hands it to the broker.
Submit(p) ==
  /\ Enqueue(p)
  /\ UNCHANGED <<pusher, taskQueue, worker, resultQueue, monitor, task,
                 delivered, history, faults>>

\* A lease runs out: with RETRY as the documentation wants it, not while the
\* package is on its way through a cluster.
LeaseEnds(p) ==
  /\ PatientRetry => ~InHand(p)
  /\ Leased(p) /\ Expire({p})
  /\ UNCHANGED <<pusher, taskQueue, worker, resultQueue, monitor, task,
                 delivered, history, faults>>

-----------------------------------------------------------------------------
(* The pusher. *)

\* broker.dequeue claims the packages of one batch one after the other.
DequeueOne(c, p) ==
  /\ pusher[c].pc = "dequeue" /\ Len(pusher[c].batch) < BULK
  /\ delivered[p] < MaxDeliveries
  /\ Claim(c, p)
  /\ pusher' = [pusher EXCEPT ![c].batch = Append(@, p)]
  /\ delivered' = [delivered EXCEPT ![p] = @ + 1]
  /\ UNCHANGED <<taskQueue, worker, resultQueue, monitor, task, history, faults>>

Dequeued(c) ==
  /\ pusher[c].pc = "dequeue" /\ pusher[c].batch # <<>>
  /\ pusher' = [pusher EXCEPT ![c].pc = "unpack"]
  /\ UNCHANGED <<brokerVars, taskQueue, worker, resultQueue, monitor, task,
                 history, faults>>

\* After a package the loop goes on with the batch, or with the next dequeue.
GoOn(rest) == [pc |-> IF rest = <<>> THEN "dequeue" ELSE "unpack", batch |-> rest]

\* SignedPackage.loads fails: broker.fail removes the package.
Reject(c) ==
  /\ pusher[c].pc = "unpack"
  /\ Head(pusher[c].batch) \in Tampered
  /\ Remove({Head(pusher[c].batch)})
  /\ pusher' = [pusher EXCEPT ![c] = GoOn(Tail(@.batch))]
  /\ UNCHANGED <<delivered, taskQueue, worker, resultQueue, monitor, task,
                 history, faults>>

\* Faulty variant: the row's own count.
AttemptUnadjusted(p) == task[p].attempt_count

\* The attempt is one more than the Task row counts, 1 if the lookup fails.
attempt(p) == task[p].attempt_count + 1

Unpack(c) ==
  LET p == Head(pusher[c].batch) IN
  /\ pusher[c].pc = "unpack" /\ p \notin Tampered
  /\ \E n \in {1, attempt(p)} :
       /\ faults' = IF n = attempt(p) THEN faults ELSE faults + 1
       /\ faults' <= MaxFaults
       /\ pusher' = [pusher EXCEPT ![c] =
                       [pc |-> "put", batch |-> Tail(@.batch),
                        task |-> [id |-> p, attempt |-> n]]]
  /\ UNCHANGED <<brokerVars, taskQueue, worker, resultQueue, monitor, task, history>>

\* Faulty variant: the package is acknowledged when it is queued.
PutAcknowledging(c) ==
  /\ pusher[c].pc = "put" /\ Len(taskQueue[c]) < QUEUE_LIMIT
  /\ taskQueue' = [taskQueue EXCEPT ![c] = Append(@, pusher[c].task)]
  /\ pusher' = [pusher EXCEPT ![c] = GoOn(@.batch)]
  /\ Remove({pusher[c].task.id})
  /\ UNCHANGED <<delivered, worker, resultQueue, monitor, task, history, faults>>

\* task_queue.put blocks while the queue is full.
Put(c) ==
  /\ pusher[c].pc = "put" /\ Len(taskQueue[c]) < QUEUE_LIMIT
  /\ taskQueue' = [taskQueue EXCEPT ![c] = Append(@, pusher[c].task)]
  /\ pusher' = [pusher EXCEPT ![c] = GoOn(@.batch)]
  /\ UNCHANGED <<brokerVars, worker, resultQueue, monitor, task, history, faults>>

-----------------------------------------------------------------------------
(* The workers. *)

Take(c, w) ==
  /\ worker[c][w].pc = "idle" /\ taskQueue[c] # <<>>
  /\ worker' = [worker EXCEPT ![c][w] =
                  [pc |-> "execute", task |-> Head(taskQueue[c])]]
  /\ taskQueue' = [taskQueue EXCEPT ![c] = Tail(@)]
  /\ UNCHANGED <<brokerVars, pusher, resultQueue, monitor, task, history, faults>>

\* The function returns, or raises: a TimeoutException counts as raised.
Execute(c, w) ==
  LET p == worker[c][w].task.id IN
  /\ worker[c][w].pc = "execute"
  /\ \E ok \in BOOLEAN :
       /\ worker' = [worker EXCEPT ![c][w] =
                       [pc |-> "report", task |-> @.task, success |-> ok]]
       /\ returned' = IF ok THEN [returned EXCEPT ![p] = @ + 1] ELSE returned
       /\ raised' = IF ok THEN raised ELSE [raised EXCEPT ![p] = @ + 1]
  /\ UNCHANGED <<brokerVars, pusher, taskQueue, resultQueue, monitor, task,
                 unrecorded, faults>>

Report(c, w) ==
  /\ worker[c][w].pc = "report"
  /\ resultQueue' = [resultQueue EXCEPT ![c] =
                       Append(@, [id |-> worker[c][w].task.id,
                                  success |-> worker[c][w].success])]
  /\ worker' = [worker EXCEPT ![c][w] = Idle]
  /\ UNCHANGED <<brokerVars, pusher, taskQueue, monitor, task, history, faults>>

-----------------------------------------------------------------------------
(* The monitor: save_task, then the acknowledgement. *)

Get(c) ==
  /\ monitor[c].pc = "get" /\ resultQueue[c] # <<>>
  /\ monitor' = [monitor EXCEPT ![c] = [pc |-> "load", result |-> Head(resultQueue[c])]]
  /\ resultQueue' = [resultQueue EXCEPT ![c] = Tail(@)]
  /\ UNCHANGED <<brokerVars, pusher, taskQueue, worker, task, history, faults>>

\* After save_task has returned, whether or not it has saved.
Saved(c) == [pc |-> "ack", result |-> monitor[c].result]

\* Faulty variant: no success is saved.
UnwantedSuccess(result) == result.success

\* save_task returns at once for a success that is not to be saved.
Unwanted(result) == result.success /\ result.id \in Unsaved

Skip(c) ==
  /\ monitor[c].pc = "load" /\ Unwanted(monitor[c].result)
  /\ monitor' = [monitor EXCEPT ![c] = Saved(c)]
  /\ UNCHANGED <<brokerVars, pusher, taskQueue, worker, resultQueue, task,
                 history, faults>>

\* Task.objects.get: what is read may be old by the time it is used.
Load(c) ==
  LET r == monitor[c].result IN
  /\ monitor[c].pc = "load" /\ ~Unwanted(r)
  /\ monitor' = [monitor EXCEPT ![c] =
                   [pc |-> "store", result |-> r, found |-> task[r.id]]]
  /\ UNCHANGED <<brokerVars, pusher, taskQueue, worker, resultQueue, task,
                 history, faults>>

\* Faulty variant: the latest result always wins.
SavesAlways(found) == TRUE

\* save_task keeps a success it found and overwrites a failure.
Saves(found) == ~found.success

\* Faulty variant: deliveries are counted.
ObjDelivered(found, result) ==
  [attempt_count |-> delivered[result.id],
   success |-> found.success \/ result.success]

\* task_obj after save_task, given the row found (none counts 0 attempts).
task_obj(found, result) ==
  IF Saves(found)
  THEN [attempt_count |-> found.attempt_count + 1, success |-> result.success]
  ELSE found

\* Faulty variants: off by one either way, and a test for equality.
ExhaustedEarly(row) == MAX_ATTEMPTS > 0 /\ row.attempt_count + 1 >= MAX_ATTEMPTS
ExhaustedLate(row) == MAX_ATTEMPTS > 0 /\ row.attempt_count > MAX_ATTEMPTS
ExhaustedOnce(row) == MAX_ATTEMPTS > 0 /\ row.attempt_count = MAX_ATTEMPTS

Exhausted(row) == MAX_ATTEMPTS > 0 /\ row.attempt_count >= MAX_ATTEMPTS

\* create, save or nothing; create fails if another monitor has created the row
\* meanwhile, and save_task swallows the error.
Store(c) ==
  LET r == monitor[c].result
      row == task_obj(monitor[c].found, r)
      creates == monitor[c].found = NoRow
  IN
  /\ monitor[c].pc = "store"
  /\ \/ /\ creates => task[r.id] = NoRow
        /\ task' = IF Saves(monitor[c].found) THEN [task EXCEPT ![r.id] = row] ELSE task
        /\ monitor' = [monitor EXCEPT ![c] =
                         [pc |-> IF Exhausted(row) THEN "exhausted" ELSE "ack",
                          result |-> r]]
     \/ /\ creates /\ task[r.id] # NoRow
        /\ monitor' = [monitor EXCEPT ![c] = Saved(c)]
        /\ UNCHANGED task
  /\ UNCHANGED <<brokerVars, pusher, taskQueue, worker, resultQueue, history, faults>>

\* MAX_ATTEMPTS has been reached: the package is not delivered again.
AckExhausted(c) ==
  /\ monitor[c].pc = "exhausted"
  /\ Remove({monitor[c].result.id})
  /\ monitor' = [monitor EXCEPT ![c] = Saved(c)]
  /\ UNCHANGED <<delivered, pusher, taskQueue, worker, resultQueue, task,
                 history, faults>>

\* Faulty variant: every outcome is acknowledged.
ConclusiveAlways(result) == TRUE

Conclusive(result) == result.success \/ result.id \in AckFailures

Ack(c) ==
  /\ monitor[c].pc = "ack"
  /\ Remove(IF Conclusive(monitor[c].result) THEN {monitor[c].result.id} ELSE {})
  /\ monitor' = [monitor EXCEPT ![c] = Waiting]
  /\ UNCHANGED <<delivered, pusher, taskQueue, worker, resultQueue, task,
                 history, faults>>

-----------------------------------------------------------------------------
(* What goes wrong. *)

Fault == faults < MaxFaults /\ faults' = faults + 1

\* The database refuses save_task, which logs and returns.
DatabaseError(c) ==
  /\ Fault
  /\ \/ monitor[c].pc = "load" /\ ~Unwanted(monitor[c].result)
     \/ monitor[c].pc = "store"
  /\ monitor' = [monitor EXCEPT ![c] = Saved(c)]
  /\ unrecorded' = unrecorded \cup {monitor[c].result.id}
  /\ UNCHANGED <<brokerVars, pusher, taskQueue, worker, resultQueue, task,
                 returned, raised>>

\* A process dies with what it has in hand and is started anew; so does the
\* pusher when dequeue raises.
PusherDies(c) ==
  /\ Fault /\ pusher[c] # Polling
  /\ pusher' = [pusher EXCEPT ![c] = Polling]
  /\ UNCHANGED <<brokerVars, taskQueue, worker, resultQueue, monitor, task, history>>

WorkerDies(c, w) ==
  /\ Fault /\ worker[c][w] # Idle
  /\ worker' = [worker EXCEPT ![c][w] = Idle]
  /\ UNCHANGED <<brokerVars, pusher, taskQueue, resultQueue, monitor, task, history>>

MonitorDies(c) ==
  /\ Fault /\ monitor[c] # Waiting
  /\ monitor' = [monitor EXCEPT ![c] = Waiting]
  /\ UNCHANGED <<brokerVars, pusher, taskQueue, worker, resultQueue, task, history>>

\* The whole cluster dies, and its queues with it.
ClusterDies(c) ==
  /\ Fault
  /\ pusher' = [pusher EXCEPT ![c] = Polling]
  /\ taskQueue' = [taskQueue EXCEPT ![c] = <<>>]
  /\ worker' = [worker EXCEPT ![c] = [w \in Workers |-> Idle]]
  /\ resultQueue' = [resultQueue EXCEPT ![c] = <<>>]
  /\ monitor' = [monitor EXCEPT ![c] = Waiting]
  /\ UNCHANGED <<brokerVars, task, history>>

-----------------------------------------------------------------------------
PusherStep(c) == \/ \E p \in Packages : DequeueOne(c, p)
                 \/ Dequeued(c) \/ Reject(c) \/ Unpack(c) \/ Put(c)
WorkerStep(c, w) == Take(c, w) \/ Execute(c, w) \/ Report(c, w)
MonitorStep(c) == \/ Get(c) \/ Skip(c) \/ Load(c) \/ Store(c)
                  \/ AckExhausted(c) \/ Ack(c)
Failure(c) == \/ DatabaseError(c) \/ PusherDies(c) \/ MonitorDies(c) \/ ClusterDies(c)
              \/ \E w \in Workers : WorkerDies(c, w)

Next == \/ \E p \in Packages : Submit(p) \/ LeaseEnds(p)
        \/ \E c \in Clusters :
             \/ PusherStep(c) \/ MonitorStep(c) \/ Failure(c)
             \/ \E w \in Workers : WorkerStep(c, w)

Spec == Init /\ [][Next]_vars

\* Every process is scheduled and leases do run out; nothing obliges a process
\* to die, nor a caller to submit.
Fairness == /\ \A p \in Packages : WF_vars(LeaseEnds(p))
            /\ \A c \in Clusters :
                 /\ WF_vars(PusherStep(c)) /\ WF_vars(MonitorStep(c))
                 /\ \A w \in Workers : WF_vars(WorkerStep(c, w))

FairSpec == Spec /\ Fairness

-----------------------------------------------------------------------------
\* A package never leaves the broker without cause: its signature was bad, its
\* function returned, it failed and failures are acknowledged, or it failed and
\* attempts are limited.  No death, expired lease or second cluster in between
\* may remove it.
RemovedForCause ==
  \A p \in Packages : lease[p] = "gone" =>
    \/ p \in Tampered
    \/ returned[p] > 0
    \/ raised[p] > 0 /\ (p \in AckFailures \/ MAX_ATTEMPTS > 0)

\* MAX_ATTEMPTS does not give up early: a package that is neither tampered with
\* nor failure-acknowledged and has never returned has failed that many times.
GivenUpLate ==
  \A p \in Packages :
    (lease[p] = "gone" /\ p \notin Tampered \cup AckFailures /\ returned[p] = 0) =>
      raised[p] >= MAX_ATTEMPTS

\* What left the broker left a row in the Task table that explains it: a
\* success, or a failure that was acknowledged or exhausted its attempts.  The
\* exceptions are successes with save=False and outcomes the database refused.
RemovedIsAccountedFor ==
  \A p \in Packages : lease[p] = "gone" =>
    \/ p \in Tampered \cup unrecorded
    \/ p \in Unsaved /\ returned[p] > 0
    \/ task[p].success
    \/ task[p].attempt_count > 0 /\ (p \in AckFailures \/ Exhausted(task[p]))

\* A Task row never claims more attempts than were executed.
AttemptsWereRun ==
  \A p \in Packages : task[p].attempt_count <= returned[p] + raised[p]

\* The copies of p on their way through the clusters.
Copies(p) ==
  UNION {  {<<c, "batch", i>> : i \in {j \in DOMAIN pusher[c].batch : pusher[c].batch[j] = p}}
    \cup {<<c, "put">> : x \in {y \in {pusher[c].pc} : y = "put" /\ pusher[c].task.id = p}}
    \cup {<<c, "task", i>> : i \in {j \in DOMAIN taskQueue[c] : taskQueue[c][j].id = p}}
    \cup {<<c, "worker", w>> : w \in {v \in Workers : InWorker(c, v, p)}}
    \cup {<<c, "result", i>> : i \in {j \in DOMAIN resultQueue[c] : resultQueue[c][j].id = p}}
    \cup {<<c, "monitor">> : x \in {y \in {monitor[c].pc} : InMonitor(c, p)}}
         : c \in Clusters}

\* With a patient RETRY a package is never in hand twice, in one cluster or in
\* two, whatever dies and whenever.
InHandOnce ==
  PatientRetry => \A p \in Packages : \A x, y \in Copies(p) : x = y

\* docs/brokers.md: "If a task runs twice and a previous run has succeeded, the
\* new result will be discarded": a success in the Task table stays one.
SuccessIsFinal ==
  [][\A p \in Packages : task[p].success => task'[p].success]_vars

\* docs/configure.md: max_attempts is to "Limit the number of retry attempts for
\* failed tasks".  With a patient RETRY a package is executed MAX_ATTEMPTS times
\* at most, and once more for every process that died or save that failed, as long
\* as the Task table has no success of it: from then on save_task does not count.
FailuresLimited ==
  (PatientRetry /\ MAX_ATTEMPTS > 0) => \A p \in Packages :
    ~task[p].success => returned[p] + raised[p] <= MAX_ATTEMPTS + faults

\* When attempts are limited, every package in the broker leaves it some day or
\* has its success in the Task table, as long as processes do not die for ever.
EventuallySettled ==
  \A p \in Packages : lease[p] = "free" ~> (lease[p] = "gone" \/ task[p].success)
=============================================================================
