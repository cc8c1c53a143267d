--------------------------- MODULE SentinelProofs ---------------------------
(***************************************************************************)
(* Sentinel for any number of workers, any limits and any backlog: type    *)
(* correctness, the pool that stays whole while it is changed under its    *)
(* iteration, the order of the poison pills, and that a calm stop leaves   *)
(* both queues empty.                                                      *)
(***************************************************************************)
EXTENDS Sentinel, FiniteSetTheorems, SequenceTheorems, TLAPS

\* From the pills on the pusher has stopped for good.
After == {"pills", "waitWorkers", "resultPill", "waitMonitor", "stopped"}

TypeInv == TypeOK /\ (pusher = "put" => batch > 0)

\* The pool is whole until the stop procedure reaps it, and never holds a process
\* twice nor loses one that lives.
PoolInv ==
  /\ \A i, j \in DOMAIN pool : pool[i] = pool[j] => i = j
  /\ \A p \in Procs : Alive(p) => \E i \in DOMAIN pool : pool[i] = p
  /\ spc \in Guarding \cup {"halt", "waitPusher", "pills"} => Len(pool) = WORKERS
  /\ spc \in {"resultPill", "waitMonitor", "stopped"} => pool = <<>>
  /\ spc \in {"pool", "waitWorkers"} => idx >= 1

\* The last k entries of the task queue are the pills in it.
Suffix(k) == /\ k \in 0..Len(taskQueue)
             /\ \A i \in DOMAIN taskQueue : taskQueue[i] = "STOP" <=> i > Len(taskQueue) - k

\* Pills come after the pusher's end, the monitor's after the end of all workers.
QueueInv ==
  /\ spc \in After => pusher = "dead" /\ \E k \in 0..Len(taskQueue) : Suffix(k)
  /\ spc \notin After => \A i \in DOMAIN taskQueue : taskQueue[i] # "STOP"
  /\ (spc \in After /\ taskQueue # <<>> /\ (spc = "pills" => idx < WORKERS))
       => taskQueue[Len(taskQueue)] = "STOP"
  /\ spc = "pills" => idx \in 0..WORKERS
  /\ \A i \in DOMAIN resultQueue :
       resultQueue[i] = "STOP" => i = Len(resultQueue) /\ spc \in {"waitMonitor", "stopped"}

Living == {p \in Procs : Alive(p)}

\* In a calm stop there are as many pills, put or still to be put, as workers live.
CalmInv ==
  /\ spc \in Stopping \cup {"stopped"} => stop_event
  /\ stop_event => /\ \A p \in Procs : worker[p] \in {"get", "run", "dead"}
                   /\ spc \notin After => \A i \in DOMAIN pool : Alive(pool[i])
                   /\ monitor = "dead" => spc \in {"waitMonitor", "stopped"} /\ resultQueue = <<>>
  /\ spc \in After => \E k \in 0..Len(taskQueue) :
       Suffix(k) /\ Cardinality(Living) = k + (IF spc = "pills" THEN idx ELSE 0)
  /\ ~SlowMonitor /\ spc = "stopped" => monitor = "dead"

SentinelInv == TypeInv /\ PoolInv /\ QueueInv /\ (CalmStop => CalmInv)

-----------------------------------------------------------------------------
(* Facts about sequences. *)

\* Where the entries of a sequence are after one was put behind it or taken from it.
LEMMA Appended ==
  ASSUME NEW S, NEW q \in Seq(S), NEW x \in S
  PROVE  /\ Append(q, x) \in Seq(S)
         /\ Len(Append(q, x)) = Len(q) + 1
         /\ DOMAIN Append(q, x) = 1..(Len(q) + 1)
         /\ \A i \in 1..Len(q) : Append(q, x)[i] = q[i]
         /\ Append(q, x)[Len(q) + 1] = x
BY AppendProperties

LEMMA TailOf ==
  ASSUME NEW S, NEW q \in Seq(S), q # << >>
  PROVE  /\ Head(q) = q[1] /\ Head(q) \in S
         /\ Tail(q) \in Seq(S)
         /\ Len(q) \in Nat \ {0} /\ Len(Tail(q)) = Len(q) - 1
         /\ DOMAIN Tail(q) = 1..(Len(q) - 1)
         /\ \A i \in 1..(Len(q) - 1) : Tail(q)[i] = q[i + 1]
<1>1. Len(q) \in Nat \ {0}
  BY EmptySeq
<1> QED BY <1>1, HeadTailProperties

\* The pool with one process removed.
LEMMA WithoutOne ==
  ASSUME pool \in Seq(Procs), NEW i \in 1..Len(pool)
  PROVE  /\ Without(i) \in Seq(Procs)
         /\ Len(Without(i)) = Len(pool) - 1
         /\ DOMAIN Without(i) = 1..(Len(pool) - 1)
         /\ \A j \in 1..(Len(pool) - 1) :
              Without(i)[j] = IF j < i THEN pool[j] ELSE pool[j + 1]
<1>1. /\ Len(pool) \in Nat /\ Len(pool) - 1 \in Nat
      /\ \A j \in 1..Len(pool) : pool[j] \in Procs
  OBVIOUS
<1>2. Without(i) \in [1..(Len(pool) - 1) -> Procs]
  BY <1>1 DEF Without
<1>3. Without(i) \in Seq(Procs)
  BY <1>1, <1>2, SeqDef
<1>4. Len(Without(i)) = Len(pool) - 1
  BY <1>1, <1>2, <1>3, LenProperties
<1> QED BY <1>1, <1>2, <1>3, <1>4 DEF Without

\* No process is twice in what is left, and only the one removed is missing.
LEMMA WithoutOnePool ==
  ASSUME pool \in Seq(Procs), NEW i \in 1..Len(pool),
         \A j, k \in DOMAIN pool : pool[j] = pool[k] => j = k
  PROVE  /\ \A j, k \in DOMAIN Without(i) : Without(i)[j] = Without(i)[k] => j = k
         /\ \A k \in DOMAIN pool : k # i => \E j \in DOMAIN Without(i) : Without(i)[j] = pool[k]
         /\ \A j \in DOMAIN Without(i) : \E k \in DOMAIN pool : k # i /\ Without(i)[j] = pool[k]
<1>1. DOMAIN pool = 1..Len(pool) /\ Len(pool) \in Nat
  OBVIOUS
<1>2. /\ DOMAIN Without(i) = 1..(Len(pool) - 1)
      /\ \A j \in 1..(Len(pool) - 1) :
           Without(i)[j] = IF j < i THEN pool[j] ELSE pool[j + 1]
  BY WithoutOne
<1>3. ASSUME NEW j \in DOMAIN Without(i)
      PROVE  \E k \in DOMAIN pool : k # i /\ Without(i)[j] = pool[k] /\ k = IF j < i THEN j ELSE j + 1
  BY <1>1, <1>2
<1>4. ASSUME NEW j \in DOMAIN Without(i), NEW k \in DOMAIN Without(i),
             Without(i)[j] = Without(i)[k]
      PROVE  j = k
  <2>1. PICK m \in DOMAIN pool : Without(i)[j] = pool[m] /\ m = IF j < i THEN j ELSE j + 1
    BY <1>3
  <2>2. PICK n \in DOMAIN pool : Without(i)[k] = pool[n] /\ n = IF k < i THEN k ELSE k + 1
    BY <1>3
  <2>3. m = n
    BY <1>4, <2>1, <2>2
  <2>4. j \in Nat /\ k \in Nat /\ i \in Nat
    BY <1>2
  <2>5. (IF j < i THEN j ELSE j + 1) = (IF k < i THEN k ELSE k + 1)
    BY <2>1, <2>2, <2>3
  <2> QED BY <2>4, <2>5
<1>5. ASSUME NEW k \in DOMAIN pool, k # i
      PROVE  \E j \in DOMAIN Without(i) : Without(i)[j] = pool[k]
  <2>1. CASE k < i
    BY <1>1, <1>2, <2>1
  <2>2. CASE k > i
    <3>1. k - 1 \in 1..(Len(pool) - 1) /\ ~(k - 1 < i)
      BY <1>1, <2>2
    <3>2. Without(i)[k - 1] = pool[k]
      BY <1>1, <1>2, <3>1
    <3> QED BY <1>2, <3>1, <3>2
  <2> QED BY <1>1, <1>5, <2>1, <2>2
<1> QED BY <1>3, <1>4, <1>5

\* The pool always leaves a process id to spare.
LEMMA SpareExists ==
  ASSUME pool \in Seq(Procs), Len(pool) <= WORKERS
  PROVE  Spare \in Procs /\ \A i \in DOMAIN pool : pool[i] # Spare
<1>1. WORKERS \in Nat /\ Len(pool) \in Nat /\ Procs = 1..(WORKERS + 1)
  BY SentinelAssumption DEF Procs
<1>2. IsFiniteSet(Procs) /\ Cardinality(Procs) = WORKERS + 1
  BY <1>1, FS_Interval
<1>3. IsFiniteSet(1..Len(pool)) /\ Cardinality(1..Len(pool)) = Len(pool)
  <2>1. ASSUME NEW n \in Nat PROVE IsFiniteSet(1..n) /\ Cardinality(1..n) = n
    BY FS_Interval
  <2> QED BY <1>1, <2>1
<1>4. \E p \in Procs : \A i \in DOMAIN pool : pool[i] # p
  <2> SUFFICES ASSUME \A p \in Procs : \E i \in DOMAIN pool : pool[i] = p PROVE FALSE
    OBVIOUS
  <2> DEFINE f == [p \in Procs |-> CHOOSE i \in DOMAIN pool : pool[i] = p]
  <2>1. ASSUME NEW p \in Procs PROVE f[p] \in DOMAIN pool /\ pool[f[p]] = p
    <3>1. \E i \in DOMAIN pool : pool[i] = p
      OBVIOUS
    <3> QED BY <3>1
  <2>2. DOMAIN pool = 1..Len(pool)
    OBVIOUS
  <2>3. f \in [Procs -> 1..Len(pool)]
    BY <2>1, <2>2
  <2>4. Cardinality(1..Len(pool)) < Cardinality(Procs)
    BY <1>1, <1>2, <1>3
  <2> HIDE DEF f
  <2>5. \E p, r \in Procs : p # r /\ f[p] = f[r]
    BY <1>2, <1>3, <2>3, <2>4, FS_PigeonHole
  <2> QED BY <2>1, <2>5
<1> QED BY <1>4 DEF Spare

-----------------------------------------------------------------------------
(* Type correctness. *)

LEMMA ConstantTypes ==
  /\ WORKERS \in Nat \ {0} /\ QUEUE_LIMIT \in Nat \ {0} /\ BULK \in Nat \ {0}
  /\ CYCLE \in Nat /\ SCHEDULE_AFTER \in Nat /\ Backlog \in Nat /\ MaxDeaths \in Nat
  /\ Procs = 1..(WORKERS + 1)
BY SentinelAssumption DEF Procs

LEMMA TypeInit == Init => TypeInv
<1> SUFFICES ASSUME Init PROVE TypeInv
  OBVIOUS
<1>1. pool \in Seq(Procs) /\ Len(pool) = WORKERS
  <2>1. pool \in [1..WORKERS -> Procs] /\ WORKERS \in Nat
    BY ConstantTypes DEF Init
  <2>2. pool \in Seq(Procs)
    BY <2>1, SeqDef
  <2> QED BY <2>1, <2>2, LenProperties
<1>2. worker \in [Procs -> {"dead", "get", "run", "hung", "overdue"}]
  BY DEF Init
<1>3. /\ idx \in 0..(WORKERS + 1) /\ batch \in 0..BULK /\ broker \in 0..Backlog
      /\ deaths \in 0..MaxDeaths /\ Len(taskQueue) <= QUEUE_LIMIT
  BY ConstantTypes DEF Init
<1>4. taskQueue \in Seq({"task", "STOP"}) /\ resultQueue \in Seq({"result", "STOP"})
  BY DEF Init
<1>5. /\ spc = "test" /\ counter = 0 /\ stop_event = FALSE /\ event_out = FALSE
      /\ pusher = "poll" /\ monitor = "get"
  BY DEF Init
<1>6. Len(pool) <= WORKERS
  BY <1>1, ConstantTypes
<1> QED BY <1>1, <1>2, <1>3, <1>4, <1>5, <1>6 DEF TypeInv, TypeOK, Guarding

LEMMA GuardType == TypeInv /\ PoolInv /\ GuardLoop => TypeInv'
<1> SUFFICES ASSUME TypeInv, PoolInv, GuardLoop PROVE TypeInv'
  OBVIOUS
<1> USE DEF TypeInv
<1>0. /\ UNCHANGED <<stop_event, event_out, batch, broker, taskQueue, resultQueue, deaths>>
      /\ TypeOK
  BY DEF GuardLoop, LoopTest, CheckWorker, PoolChecked, CheckMonitor, CheckPusher, Count
<1>1. CASE LoopTest
  <2>1. /\ spc' \in {"pool", "halt"} /\ idx' = 1
        /\ UNCHANGED <<counter, pool, worker, pusher, monitor>>
    BY <1>1 DEF LoopTest
  <2> QED BY <1>0, <2>1, ConstantTypes DEF TypeOK, Guarding, Stopping
<1>2. CASE CheckWorker
  <2>1. /\ spc = "pool" /\ idx' = idx + 1 /\ idx <= Len(pool)
        /\ UNCHANGED <<spc, counter, pusher, monitor>>
        /\ Reincarnate(idx) \/ UNCHANGED <<pool, worker>>
    BY <1>2 DEF CheckWorker
  <2>2. idx \in 1..Len(pool) /\ idx' \in 0..(WORKERS + 1)
    BY <2>1, ConstantTypes DEF TypeOK, PoolInv
  <2>3. pool' \in Seq(Procs) /\ Len(pool') <= WORKERS
    <3>1. CASE Reincarnate(idx)
      <4>1. pool \in Seq(Procs) /\ Spare \in Procs
        BY SpareExists DEF TypeOK
      <4>2. Without(idx) \in Seq(Procs) /\ Len(Without(idx)) = Len(pool) - 1
        BY <2>2, <4>1, WithoutOne
      <4>3. pool' \in Seq(Procs) /\ Len(pool') = Len(pool)
        BY <3>1, <4>1, <4>2, Appended DEF Reincarnate
      <4> QED BY <4>3 DEF TypeOK
    <3> QED BY <2>1, <3>1 DEF TypeOK
  <2>4. worker' \in [Procs -> {"dead", "get", "run", "hung", "overdue"}]
    BY <2>1 DEF TypeOK, Reincarnate
  <2> QED BY <1>0, <2>1, <2>2, <2>3, <2>4 DEF TypeOK
<1>3. CASE PoolChecked
  BY <1>0, <1>3 DEF PoolChecked, TypeOK, Guarding
<1>4. CASE CheckMonitor
  BY <1>0, <1>4 DEF CheckMonitor, TypeOK, Guarding
<1>5. CASE CheckPusher
  BY <1>0, <1>5 DEF CheckPusher, TypeOK, Guarding
<1>6. CASE Count
  <2>1. counter' \in Nat
    BY <1>6, ConstantTypes DEF Count, TypeOK
  <2> QED BY <1>0, <1>6, <2>1 DEF Count, TypeOK, Guarding
<1> QED BY <1>1, <1>2, <1>3, <1>4, <1>5, <1>6 DEF GuardLoop

LEMMA StopType == TypeInv /\ PoolInv /\ (StopProcedure \/ StopSignal) => TypeInv'
<1> SUFFICES ASSUME TypeInv, PoolInv, StopProcedure \/ StopSignal PROVE TypeInv'
  OBVIOUS
<1> USE DEF TypeInv
<1>0. TypeOK /\ UNCHANGED <<worker, pusher, batch, broker, monitor, deaths>>
  BY DEF StopProcedure, StopSignal
<1>1. CASE StopSignal
  BY <1>0, <1>1 DEF StopSignal, sentinelVars, TypeOK
<1>2. CASE PutPill /\ UNCHANGED stop_event
  <2>1. taskQueue' \in Seq({"task", "STOP"}) /\ Len(taskQueue') <= QUEUE_LIMIT
    BY <1>2, ConstantTypes, Appended DEF PutPill, TypeOK
  <2>2. idx' \in 0..(WORKERS + 1)
    BY <1>2, ConstantTypes DEF PutPill, TypeOK
  <2> QED BY <1>0, <1>2, <2>1, <2>2 DEF PutPill, TypeOK
<1>3. CASE ResultPill /\ UNCHANGED stop_event
  <2>1. resultQueue' \in Seq({"result", "STOP"})
    BY <1>3, Appended DEF ResultPill, TypeOK
  <2> QED BY <1>0, <1>3, <2>1 DEF ResultPill, TypeOK, Stopping
<1>4. CASE Halt /\ UNCHANGED <<stop_event, taskQueue, resultQueue>>
  BY <1>0, <1>4 DEF Halt, TypeOK, Stopping
<1>5. CASE PusherStopped /\ UNCHANGED <<stop_event, taskQueue, resultQueue>>
  <2>1. idx' \in 0..(WORKERS + 1)
    BY <1>5, ConstantTypes DEF PusherStopped, Pills, TypeOK
  <2> QED BY <1>0, <1>5, <2>1 DEF PusherStopped, TypeOK, Stopping
<1>6. CASE (PillsDone \/ Reaped \/ WaitMonitor) /\ UNCHANGED <<stop_event, taskQueue, resultQueue>>
  BY <1>0, <1>6, ConstantTypes DEF PillsDone, Reaped, WaitMonitor, TypeOK, Stopping
<1>7. CASE Reap /\ UNCHANGED <<stop_event, taskQueue, resultQueue>>
  <2>1. spc = "waitWorkers" /\ UNCHANGED <<spc, counter, event_out>>
    BY <1>7 DEF Reap
  <2>2. CASE idx > Len(pool)
    <3>1. idx' \in 0..(WORKERS + 1) /\ pool' = pool
      BY <1>7, <2>2, ConstantTypes DEF Reap
    <3> QED BY <1>0, <1>7, <2>1, <3>1 DEF TypeOK
  <2>3. CASE ~(idx > Len(pool))
    <3>1. idx \in 1..Len(pool) /\ pool \in Seq(Procs)
      BY <2>1, <2>3 DEF TypeOK, PoolInv
    <3>2. idx' = idx + 1 /\ (pool' = pool \/ pool' = Without(idx))
      BY <1>7, <2>3 DEF Reap
    <3>3. idx' \in 0..(WORKERS + 1)
      BY <3>1, <3>2, ConstantTypes DEF TypeOK
    <3>4. pool' \in Seq(Procs) /\ Len(pool') <= WORKERS
      <4>1. Without(idx) \in Seq(Procs) /\ Len(Without(idx)) = Len(pool) - 1
        BY <3>1, WithoutOne
      <4>2. Len(pool) \in Nat /\ Len(pool) <= WORKERS /\ WORKERS \in Nat
        BY ConstantTypes DEF TypeOK
      <4> QED BY <3>1, <3>2, <4>1, <4>2
    <3> QED BY <1>0, <1>7, <2>1, <3>3, <3>4 DEF TypeOK
  <2> QED BY <2>2, <2>3
<1> QED BY <1>1, <1>2, <1>3, <1>4, <1>5, <1>6, <1>7 DEF StopProcedure

LEMMA PusherType == TypeInv /\ (Pusher \/ PusherDies) => TypeInv'
<1> SUFFICES ASSUME TypeInv, Pusher \/ PusherDies PROVE TypeInv'
  OBVIOUS
<1> USE DEF TypeInv
<1>0. TypeOK /\ UNCHANGED <<sentinelVars, stop_event, event_out, worker, resultQueue, monitor>>
  BY DEF Pusher, PusherDies, Death
<1>1. CASE Dequeue /\ UNCHANGED deaths
  <2>1. batch' \in 0..BULK /\ broker' \in 0..Backlog /\ (pusher' = "put" => batch' > 0)
    BY <1>1, ConstantTypes DEF Dequeue, TypeOK
  <2> QED BY <1>0, <1>1, <2>1 DEF Dequeue, TypeOK, sentinelVars
<1>2. CASE Put /\ UNCHANGED deaths
  <2>1. taskQueue' \in Seq({"task", "STOP"}) /\ Len(taskQueue') <= QUEUE_LIMIT
    BY <1>2, ConstantTypes, Appended DEF Put, Room, TypeOK
  <2>2. batch' \in 0..BULK /\ (pusher' = "put" => batch' > 0)
    BY <1>2, ConstantTypes DEF Put, TypeOK
  <2> QED BY <1>0, <1>2, <2>1, <2>2 DEF Put, TypeOK, sentinelVars
<1>3. CASE CheckEvent /\ UNCHANGED deaths
  BY <1>0, <1>3 DEF CheckEvent, TypeOK, sentinelVars
<1>4. CASE PusherDies
  <2>1. deaths' \in 0..MaxDeaths /\ batch' \in 0..BULK
    BY <1>4, ConstantTypes DEF PusherDies, Death, TypeOK
  <2> QED BY <1>0, <1>4, <2>1 DEF PusherDies, Death, TypeOK, sentinelVars
<1> QED BY <1>1, <1>2, <1>3, <1>4 DEF Pusher

LEMMA WorkerType ==
  ASSUME TypeInv, NEW p \in Procs, Worker(p) \/ Hang(p) \/ TimerExpires(p) \/ WorkerDies(p)
  PROVE  TypeInv'
<1> USE DEF TypeInv
<1>0. /\ TypeOK /\ UNCHANGED <<sentinelVars, stop_event, event_out, pusher, batch, broker, monitor>>
      /\ worker' \in [Procs -> {"dead", "get", "run", "hung", "overdue"}]
  BY DEF Worker, Take, Finish, Leave, Report, Hang, TimerExpires, WorkerDies, Death, TypeOK
<1>1. deaths' \in 0..MaxDeaths
  BY ConstantTypes DEF Worker, Hang, TimerExpires, WorkerDies, Death, TypeOK
<1>2. taskQueue' \in Seq({"task", "STOP"}) /\ Len(taskQueue') <= QUEUE_LIMIT
  <2>1. CASE Take(p)
    BY <2>1, ConstantTypes, TailOf DEF Take, TypeOK
  <2>2. CASE UNCHANGED taskQueue
    BY <2>2 DEF TypeOK
  <2> QED BY <2>1, <2>2 DEF Worker, Finish, Leave, Report, Hang, TimerExpires, WorkerDies, Death
<1>3. resultQueue' \in Seq({"result", "STOP"})
  <2>1. CASE resultQueue' = Append(resultQueue, "result")
    BY <2>1, Appended DEF TypeOK
  <2>2. CASE UNCHANGED resultQueue
    BY <2>2 DEF TypeOK
  <2> QED BY <2>1, <2>2 DEF Worker, Take, Finish, Leave, Report, Hang, TimerExpires, WorkerDies, Death
<1> QED BY <1>0, <1>1, <1>2, <1>3 DEF TypeOK, sentinelVars

LEMMA MonitorType == TypeInv /\ (Monitor \/ MonitorDies) => TypeInv'
<1> SUFFICES ASSUME TypeInv, Monitor \/ MonitorDies PROVE TypeInv'
  OBVIOUS
<1> USE DEF TypeInv
<1>0. /\ TypeOK
      /\ UNCHANGED <<sentinelVars, stop_event, event_out, worker, pusher, batch, broker, taskQueue>>
      /\ monitor' \in {"get", "save", "dead"}
  BY DEF Monitor, MonitorDies, Death
<1>1. deaths' \in 0..MaxDeaths
  BY ConstantTypes DEF Monitor, MonitorDies, Death, TypeOK
<1>2. resultQueue' \in Seq({"result", "STOP"})
  BY TailOf DEF Monitor, MonitorDies, Death, TypeOK
<1> QED BY <1>0, <1>1, <1>2 DEF TypeOK, sentinelVars

-----------------------------------------------------------------------------
(* The pool. *)

LEMMA PoolInit == Init => PoolInv
<1> SUFFICES ASSUME Init PROVE PoolInv
  OBVIOUS
<1>1. pool \in [1..WORKERS -> Procs] /\ \A i \in 1..WORKERS : pool[i] = i
  BY ConstantTypes DEF Init
<1>2. Len(pool) = WORKERS
  BY <1>1, ConstantTypes, SeqDef, LenProperties
<1>3. \A p \in Procs : Alive(p) => p \in 1..WORKERS
  BY ConstantTypes DEF Init, Alive
<1>4. spc = "test"
  BY DEF Init
<1> QED BY <1>1, <1>2, <1>3, <1>4 DEF PoolInv

\* Nothing but the guard's replacement makes a process live.
LEMMA PoolKept ==
  ASSUME PoolInv, UNCHANGED <<pool, idx>>, \A p \in Procs : Alive(p)' => Alive(p),
         spc' \in Guarding \cup {"halt", "waitPusher", "pills"}
            => spc \in Guarding \cup {"halt", "waitPusher", "pills"},
         spc' \in {"resultPill", "waitMonitor", "stopped"}
            => spc \in {"resultPill", "waitMonitor", "stopped"},
         spc' \in {"pool", "waitWorkers"} => spc \in {"pool", "waitWorkers"}
  PROVE  PoolInv'
BY DEF PoolInv

\* The guard takes the i-th process out and puts a spare one behind.
LEMMA ReincarnatePool ==
  ASSUME TypeInv, PoolInv, NEW i \in 1..Len(pool), Reincarnate(i)
  PROVE  /\ Len(pool') = Len(pool)
         /\ \A j, k \in DOMAIN pool' : pool'[j] = pool'[k] => j = k
         /\ \A p \in Procs : Alive(p)' => \E j \in DOMAIN pool' : pool'[j] = p
<1> DEFINE w == Without(i)
<1>1. /\ pool \in Seq(Procs) /\ Len(pool) <= WORKERS /\ DOMAIN pool = 1..Len(pool)
      /\ Len(pool) \in Nat
  BY DEF TypeInv, TypeOK
<1>2. Spare \in Procs /\ \A k \in DOMAIN pool : pool[k] # Spare
  BY <1>1, SpareExists
<1>3. w \in Seq(Procs) /\ Len(w) = Len(pool) - 1 /\ DOMAIN w = 1..(Len(pool) - 1)
  BY <1>1, WithoutOne
<1>4. /\ \A j, k \in DOMAIN w : w[j] = w[k] => j = k
      /\ \A k \in DOMAIN pool : k # i => \E j \in DOMAIN w : w[j] = pool[k]
      /\ \A j \in DOMAIN w : \E k \in DOMAIN pool : k # i /\ w[j] = pool[k]
  BY <1>1, WithoutOnePool DEF PoolInv
<1> HIDE DEF w
<1>5. pool' = Append(w, Spare)
  BY DEF Reincarnate, w
<1>6. /\ Len(pool') = Len(pool) /\ DOMAIN pool' = 1..Len(pool)
      /\ \A j \in DOMAIN w : pool'[j] = w[j]
      /\ pool'[Len(pool)] = Spare
  <2>1. /\ Len(pool') = Len(w) + 1 /\ DOMAIN pool' = 1..(Len(w) + 1)
        /\ \A j \in 1..Len(w) : pool'[j] = w[j]
        /\ pool'[Len(w) + 1] = Spare
    BY <1>2, <1>3, <1>5, Appended
  <2>2. Len(w) + 1 = Len(pool)
    BY <1>1, <1>3
  <2> QED BY <1>3, <2>1, <2>2
<1>7. ASSUME NEW j \in DOMAIN pool', NEW k \in DOMAIN pool', pool'[j] = pool'[k]
      PROVE  j = k
  <2>1. \A n \in DOMAIN w : w[n] # Spare
    BY <1>2, <1>4
  <2>2. \A n \in DOMAIN pool' : n \in DOMAIN w \/ n = Len(pool)
    BY <1>1, <1>3, <1>6
  <2> QED BY <1>4, <1>6, <1>7, <2>1, <2>2
<1>8. ASSUME NEW p \in Procs, Alive(p)' PROVE \E j \in DOMAIN pool' : pool'[j] = p
  <2>1. CASE p = Spare
    BY <1>1, <1>6, <2>1
  <2>2. CASE p # Spare
    <3>1. worker' = [worker EXCEPT ![pool[i]] = "dead", ![Spare] = "get"]
      BY DEF Reincarnate
    <3>2. pool[i] \in Procs
      BY <1>1
    <3>3. p # pool[i] /\ Alive(p)
      BY <1>8, <2>2, <3>1, <3>2 DEF Alive, TypeInv, TypeOK
    <3>4. PICK k \in DOMAIN pool : pool[k] = p
      BY <3>3 DEF PoolInv
    <3>5. PICK j \in DOMAIN w : w[j] = p
      BY <1>4, <3>3, <3>4
    <3>6. j \in DOMAIN pool'
      BY <1>1, <1>3, <1>6
    <3> QED BY <1>6, <3>5, <3>6
  <2> QED BY <2>1, <2>2
<1> QED BY <1>6, <1>7, <1>8

LEMMA GuardPool == TypeInv /\ PoolInv /\ GuardLoop => PoolInv'
<1> SUFFICES ASSUME TypeInv, PoolInv, GuardLoop PROVE PoolInv'
  OBVIOUS
<1>1. CASE LoopTest
  BY <1>1 DEF LoopTest, PoolInv, Guarding, Alive
<1>2. CASE CheckWorker
  <2>1. /\ spc = "pool" /\ spc' = "pool" /\ idx' = idx + 1 /\ idx <= Len(pool)
        /\ Reincarnate(idx) \/ UNCHANGED <<pool, worker>>
    BY <1>2 DEF CheckWorker
  <2>2. idx \in 1..Len(pool) /\ idx' >= 1
    BY <2>1 DEF TypeInv, TypeOK, PoolInv
  <2>3. CASE Reincarnate(idx)
    BY <2>1, <2>2, <2>3, ReincarnatePool DEF PoolInv, Guarding
  <2>4. CASE UNCHANGED <<pool, worker>>
    BY <2>1, <2>2, <2>4 DEF PoolInv, Guarding, Alive
  <2> QED BY <2>1, <2>3, <2>4
<1>3. CASE PoolChecked \/ CheckMonitor \/ CheckPusher \/ Count
  <2>1. /\ spc \in Guarding /\ spc' \in Guarding \ {"pool"}
        /\ UNCHANGED <<pool, idx, worker>>
    BY <1>3 DEF PoolChecked, CheckMonitor, CheckPusher, Count, Guarding
  <2> QED BY <2>1, PoolKept DEF Guarding, Alive
<1> QED BY <1>1, <1>2, <1>3 DEF GuardLoop

LEMMA StopPool == TypeInv /\ PoolInv /\ StopProcedure => PoolInv'
<1> SUFFICES ASSUME TypeInv, PoolInv, StopProcedure PROVE PoolInv'
  OBVIOUS
<1>0. UNCHANGED worker
  BY DEF StopProcedure
<1>1. CASE Halt \/ WaitMonitor \/ ResultPill
  BY <1>0, <1>1, PoolKept DEF Halt, WaitMonitor, ResultPill, Alive, Guarding
<1>2. CASE PusherStopped \/ PutPill \/ PillsDone \/ Reaped
  <2>1. /\ UNCHANGED <<pool, worker>>
        /\ \/ spc \in {"waitPusher", "pills"} /\ spc' = "pills"
           \/ spc' = "waitWorkers" /\ idx' = 1
           \/ spc' = "resultPill" /\ pool = << >>
    BY <1>0, <1>2 DEF PusherStopped, PutPill, PillsDone, Reaped
  <2> QED BY <2>1 DEF PoolInv, Guarding, Alive
<1>3. CASE Reap
  <2>1. spc = "waitWorkers" /\ spc' = "waitWorkers"
    BY <1>3 DEF Reap
  <2>2. CASE pool' = pool
    <3>1. idx' >= 1
      BY <1>3, <2>1 DEF Reap, PoolInv, TypeInv, TypeOK
    <3> QED BY <1>0, <2>1, <2>2, <3>1 DEF PoolInv, Guarding, Alive
  <2>3. CASE pool' # pool
    <3>1. /\ pool' = Without(idx) /\ ~Alive(pool[idx])
          /\ idx \in 1..Len(pool) /\ idx' >= 1 /\ pool \in Seq(Procs)
      BY <1>3, <2>1, <2>3 DEF Reap, Gone, PoolInv, TypeInv, TypeOK
    <3>2. /\ \A j, k \in DOMAIN pool' : pool'[j] = pool'[k] => j = k
          /\ \A k \in DOMAIN pool : k # idx => \E j \in DOMAIN pool' : pool'[j] = pool[k]
      BY <3>1, WithoutOnePool DEF PoolInv
    <3>3. ASSUME NEW p \in Procs, Alive(p)' PROVE \E j \in DOMAIN pool' : pool'[j] = p
      <4>1. Alive(p)
        BY <1>0, <3>3 DEF Alive
      <4>2. PICK k \in DOMAIN pool : pool[k] = p
        BY <4>1 DEF PoolInv
      <4> QED BY <3>1, <3>2, <4>1, <4>2
    <3> QED BY <2>1, <3>1, <3>2, <3>3 DEF PoolInv, Guarding
  <2> QED BY <2>2, <2>3
<1> QED BY <1>1, <1>2, <1>3 DEF StopProcedure

\* The guarded processes end, they do not come to life.
LEMMA OthersPool ==
  TypeInv /\ PoolInv /\ [Next]_vars => GuardLoop \/ StopProcedure \/ PoolInv'
<1> SUFFICES ASSUME TypeInv, PoolInv, [Next]_vars, ~GuardLoop, ~StopProcedure PROVE PoolInv'
  OBVIOUS
<1>1. UNCHANGED sentinelVars
  BY DEF Next, vars, sentinelVars, StopSignal, Pusher, Monitor, PusherDies, MonitorDies, Stopped,
         Worker, Hang, TimerExpires, WorkerDies, Death
<1>2. \A p \in Procs : Alive(p)' => Alive(p)
  <2>1. ASSUME NEW r \in Procs, Worker(r) \/ Hang(r) \/ TimerExpires(r) \/ WorkerDies(r)
        PROVE  \A p \in Procs : Alive(p)' => Alive(p)
    BY <2>1 DEF Worker, Take, Finish, Leave, Report, Hang, TimerExpires, WorkerDies, Alive,
                TypeInv, TypeOK
  <2>2. CASE UNCHANGED worker
    BY <2>2 DEF Alive
  <2> QED BY <2>1, <2>2 DEF Next, vars, StopSignal, Pusher, Monitor, PusherDies, MonitorDies, Stopped
<1> QED BY <1>1, <1>2, PoolKept DEF sentinelVars

LEMMA PoolStep == TypeInv /\ PoolInv /\ [Next]_vars => TypeInv' /\ PoolInv'
<1> SUFFICES ASSUME TypeInv, PoolInv, [Next]_vars PROVE TypeInv' /\ PoolInv'
  OBVIOUS
<1>1. PoolInv'
  BY GuardPool, StopPool, OthersPool
<1>2. TypeInv'
  <2>1. CASE GuardLoop \/ StopProcedure \/ StopSignal
    BY <2>1, GuardType, StopType
  <2>2. CASE Pusher \/ PusherDies
    BY <2>2, PusherType
  <2>3. CASE Monitor \/ MonitorDies
    BY <2>3, MonitorType
  <2>4. ASSUME NEW p \in Procs, Worker(p) \/ Hang(p) \/ TimerExpires(p) \/ WorkerDies(p)
        PROVE  TypeInv'
    BY <2>4, WorkerType
  <2>5. CASE UNCHANGED vars
    BY <2>5 DEF vars, TypeInv, TypeOK
  <2> QED BY <2>1, <2>2, <2>3, <2>4, <2>5 DEF Next, Stopped
<1> QED BY <1>1, <1>2

-----------------------------------------------------------------------------
(* The two queues. *)

LEMMA QueueInit == Init => QueueInv
BY ConstantTypes DEF Init, QueueInv, After

LEMMA QueueDomains ==
  ASSUME TypeInv
  PROVE  /\ DOMAIN taskQueue = 1..Len(taskQueue) /\ Len(taskQueue) \in Nat
         /\ DOMAIN resultQueue = 1..Len(resultQueue) /\ Len(resultQueue) \in Nat
BY DEF TypeInv, TypeOK

\* One more pill is put behind those that are there.
LEMMA SuffixAppended ==
  ASSUME TypeInv, NEW k \in 0..Len(taskQueue), Suffix(k), taskQueue' = Append(taskQueue, "STOP")
  PROVE  Suffix(k + 1)' /\ k + 1 \in 0..Len(taskQueue')
<1>1. DOMAIN taskQueue = 1..Len(taskQueue) /\ Len(taskQueue) \in Nat
  BY QueueDomains
<1>2. /\ Len(taskQueue') = Len(taskQueue) + 1 /\ DOMAIN taskQueue' = 1..(Len(taskQueue) + 1)
      /\ \A i \in 1..Len(taskQueue) : taskQueue'[i] = taskQueue[i]
      /\ taskQueue'[Len(taskQueue) + 1] = "STOP"
  BY Appended DEF TypeInv, TypeOK
<1>3. ASSUME NEW i \in DOMAIN taskQueue'
      PROVE  taskQueue'[i] = "STOP" <=> i > Len(taskQueue') - (k + 1)
  <2>1. Len(taskQueue') - (k + 1) = Len(taskQueue) - k
    BY <1>1, <1>2
  <2>2. i \in 1..Len(taskQueue) \/ i = Len(taskQueue) + 1
    BY <1>1, <1>2
  <2>3. CASE i \in 1..Len(taskQueue)
    BY <1>1, <1>2, <2>1, <2>3 DEF Suffix
  <2>4. CASE i = Len(taskQueue) + 1
    BY <1>1, <1>2, <2>1, <2>4
  <2> QED BY <2>2, <2>3, <2>4
<1> QED BY <1>1, <1>2, <1>3 DEF Suffix

\* Whoever takes a pill finds pills only, and nobody takes one before the tasks.
LEMMA SuffixTaken ==
  ASSUME TypeInv, NEW k \in 0..Len(taskQueue), Suffix(k),
         taskQueue # << >>, taskQueue' = Tail(taskQueue)
  PROVE  /\ Head(taskQueue) = "STOP" => k - 1 \in 0..Len(taskQueue') /\ Suffix(k - 1)'
         /\ Head(taskQueue) # "STOP" => k \in 0..Len(taskQueue') /\ Suffix(k)'
<1>1. DOMAIN taskQueue = 1..Len(taskQueue)
  BY QueueDomains
<1>2. /\ Head(taskQueue) = taskQueue[1]
      /\ Len(taskQueue) \in Nat \ {0} /\ Len(taskQueue') = Len(taskQueue) - 1
      /\ DOMAIN taskQueue' = 1..(Len(taskQueue) - 1)
      /\ \A i \in 1..(Len(taskQueue) - 1) : taskQueue'[i] = taskQueue[i + 1]
  BY TailOf DEF TypeInv, TypeOK
<1>3. \A i \in DOMAIN taskQueue' :
        taskQueue'[i] = "STOP" <=> i + 1 > Len(taskQueue) - k
  BY <1>1, <1>2 DEF Suffix
<1>4. Head(taskQueue) = "STOP" <=> 1 > Len(taskQueue) - k
  BY <1>1, <1>2 DEF Suffix
<1>5. CASE Head(taskQueue) = "STOP"
  <2>1. k = Len(taskQueue)
    <3>1. 1 > Len(taskQueue) - k
      BY <1>4, <1>5
    <3>2. Len(taskQueue) \in Nat /\ k \in 0..Len(taskQueue)
      BY <1>2
    <3> QED BY <3>1, <3>2
  <2>2. \A i \in DOMAIN taskQueue' : taskQueue'[i] = "STOP" <=> i > Len(taskQueue') - (k - 1)
    BY <1>2, <1>3, <2>1
  <2> QED BY <1>2, <1>5, <2>1, <2>2 DEF Suffix
<1>6. CASE Head(taskQueue) # "STOP"
  <2>1. k <= Len(taskQueue')
    BY <1>2, <1>4, <1>6
  <2>2. \A i \in DOMAIN taskQueue' : taskQueue'[i] = "STOP" <=> i > Len(taskQueue') - k
    BY <1>2, <1>3
  <2> QED BY <1>2, <1>6, <2>1, <2>2 DEF Suffix
<1> QED BY <1>5, <1>6

\* Steps of the sentinel that leave both queues alone.
LEMMA QueueKept ==
  ASSUME QueueInv, UNCHANGED <<taskQueue, resultQueue>>, pusher' = pusher \/ spc' \notin After,
         spc' \in After <=> spc \in After, spc' # "pills",
         spc \in {"waitMonitor", "stopped"} => spc' \in {"waitMonitor", "stopped"},
         spc = "pills" => idx < WORKERS
  PROVE  QueueInv'
BY DEF QueueInv, Suffix

LEMMA SentinelQueue ==
  TypeInv /\ PoolInv /\ QueueInv /\ (GuardLoop \/ StopProcedure) => QueueInv'
<1> SUFFICES ASSUME TypeInv, PoolInv, QueueInv, GuardLoop \/ StopProcedure PROVE QueueInv'
  OBVIOUS
<1>1. CASE GuardLoop
  <2>1. /\ spc \in Guarding /\ spc' \in Guarding \cup {"halt"}
        /\ UNCHANGED <<taskQueue, resultQueue>>
    BY <1>1 DEF GuardLoop, LoopTest, CheckWorker, PoolChecked, CheckMonitor, CheckPusher, Count,
                Guarding
  <2> QED BY <2>1, QueueKept DEF Guarding, After
<1>2. CASE StopProcedure
  <2>0. UNCHANGED pusher
    BY <1>2 DEF StopProcedure
  <2>1. CASE Halt /\ UNCHANGED <<taskQueue, resultQueue>>
    BY <2>0, <2>1, QueueKept DEF Halt, After
  <2>2. CASE PusherStopped /\ UNCHANGED <<taskQueue, resultQueue>>
    <3>1. /\ spc = "waitPusher" /\ spc' = "pills" /\ pusher' = "dead" /\ idx' = WORKERS
      BY <2>0, <2>2 DEF PusherStopped, Pills, PoolInv
    <3>2. Suffix(0)' /\ 0 \in 0..Len(taskQueue')
      BY <2>2, <3>1, QueueDomains DEF Suffix, QueueInv, After
    <3>3. WORKERS \in 0..WORKERS /\ ~(WORKERS < WORKERS)
      BY ConstantTypes
    <3> QED BY <2>2, <3>1, <3>2, <3>3 DEF QueueInv, After
  <2>3. CASE PutPill
    <3>1. /\ spc = "pills" /\ spc' = "pills" /\ idx' = idx - 1 /\ idx > 0
          /\ taskQueue' = Append(taskQueue, "STOP") /\ UNCHANGED resultQueue
      BY <2>3 DEF PutPill
    <3>2. pusher' = "dead" /\ \E k \in 0..Len(taskQueue') : Suffix(k)'
      <4>1. pusher = "dead" /\ \E k \in 0..Len(taskQueue) : Suffix(k)
        BY <3>1 DEF QueueInv, After
      <4> QED BY <2>0, <3>1, <4>1, SuffixAppended
    <3>3. taskQueue'[Len(taskQueue')] = "STOP"
      BY <3>1, Appended DEF TypeInv, TypeOK
    <3>4. idx' \in 0..WORKERS
      BY <3>1, ConstantTypes DEF QueueInv
    <3> QED BY <3>1, <3>2, <3>3, <3>4 DEF QueueInv, After
  <2>4. CASE (PillsDone \/ Reap \/ Reaped \/ WaitMonitor) /\ UNCHANGED <<taskQueue, resultQueue>>
    <3>1. /\ spc \in After /\ spc' \in After \ {"pills"} /\ (spc = "pills" => idx < WORKERS)
          /\ spc \in {"waitMonitor", "stopped"} => spc' \in {"waitMonitor", "stopped"}
      BY <2>4, ConstantTypes DEF PillsDone, Reap, Reaped, WaitMonitor, After
    <3> QED BY <2>0, <2>4, <3>1, QueueKept
  <2>5. CASE ResultPill
    <3>1. /\ spc = "resultPill" /\ spc' = "waitMonitor"
          /\ resultQueue' = Append(resultQueue, "STOP") /\ UNCHANGED taskQueue
      BY <2>5 DEF ResultPill
    <3>2. /\ Len(resultQueue') = Len(resultQueue) + 1
          /\ DOMAIN resultQueue' = 1..(Len(resultQueue) + 1)
          /\ \A i \in 1..Len(resultQueue) : resultQueue'[i] = resultQueue[i]
      BY <3>1, Appended DEF TypeInv, TypeOK
    <3>3. \A i \in 1..Len(resultQueue) : resultQueue[i] # "STOP"
      BY <3>1, QueueDomains DEF QueueInv
    <3>4. ASSUME NEW i \in DOMAIN resultQueue', resultQueue'[i] = "STOP"
          PROVE  i = Len(resultQueue')
      BY <3>2, <3>3, <3>4, QueueDomains
    <3> QED BY <2>0, <3>1, <3>4 DEF QueueInv, After, Suffix
  <2> QED BY <1>2, <2>1, <2>2, <2>3, <2>4, <2>5 DEF StopProcedure
<1> QED BY <1>1, <1>2

LEMMA PusherQueue ==
  TypeInv /\ QueueInv /\ (Pusher \/ PusherDies \/ StopSignal) => QueueInv'
<1> SUFFICES ASSUME TypeInv, QueueInv, Pusher \/ PusherDies \/ StopSignal PROVE QueueInv'
  OBVIOUS
<1>1. CASE Put /\ Pusher
  <2>1. /\ spc' = spc /\ spc \notin After /\ taskQueue' = Append(taskQueue, "task")
        /\ UNCHANGED <<idx, resultQueue>>
    BY <1>1 DEF Put, Pusher, sentinelVars, QueueInv
  <2>2. /\ DOMAIN taskQueue' = 1..(Len(taskQueue) + 1)
        /\ \A i \in 1..Len(taskQueue) : taskQueue'[i] = taskQueue[i]
        /\ taskQueue'[Len(taskQueue) + 1] = "task"
    BY <2>1, Appended DEF TypeInv, TypeOK
  <2>3. \A i \in 1..Len(taskQueue) : taskQueue[i] # "STOP"
    BY <2>1, QueueDomains DEF QueueInv
  <2>4. ASSUME NEW i \in DOMAIN taskQueue' PROVE taskQueue'[i] # "STOP"
    BY <2>2, <2>3, QueueDomains
  <2> QED BY <2>1, <2>4 DEF QueueInv, After
<1>2. CASE ~Put \/ ~Pusher
  <2>1. UNCHANGED <<spc, idx, taskQueue, resultQueue>>
    BY <1>2 DEF Pusher, Dequeue, CheckEvent, PusherDies, Death, StopSignal, sentinelVars
  <2>2. pusher = "dead" => pusher' = "dead"
    BY <1>2 DEF Pusher, Dequeue, CheckEvent, PusherDies, StopSignal
  <2> QED BY <2>1, <2>2 DEF QueueInv, Suffix
<1> QED BY <1>1, <1>2

LEMMA TakeQueue ==
  ASSUME TypeInv, QueueInv, UNCHANGED <<spc, idx, pusher, resultQueue>>,
         taskQueue # << >>, taskQueue' = Tail(taskQueue)
  PROVE  QueueInv'
<1>1. /\ DOMAIN taskQueue = 1..Len(taskQueue)
      /\ Len(taskQueue) \in Nat \ {0} /\ Len(taskQueue') = Len(taskQueue) - 1
      /\ DOMAIN taskQueue' = 1..(Len(taskQueue) - 1)
      /\ \A i \in 1..(Len(taskQueue) - 1) : taskQueue'[i] = taskQueue[i + 1]
  BY TailOf, QueueDomains DEF TypeInv, TypeOK
<1>2. spc \in After => \E k \in 0..Len(taskQueue') : Suffix(k)'
  <2> SUFFICES ASSUME spc \in After PROVE \E k \in 0..Len(taskQueue') : Suffix(k)'
    OBVIOUS
  <2>1. PICK k \in 0..Len(taskQueue) : Suffix(k)
    BY DEF QueueInv
  <2> QED BY <2>1, SuffixTaken
<1>3. spc \notin After => \A i \in DOMAIN taskQueue' : taskQueue'[i] # "STOP"
  BY <1>1 DEF QueueInv
<1>4. taskQueue' # << >> => taskQueue'[Len(taskQueue')] = taskQueue[Len(taskQueue)]
  <2> SUFFICES ASSUME taskQueue' # << >>
               PROVE  taskQueue'[Len(taskQueue')] = taskQueue[Len(taskQueue)]
    OBVIOUS
  <2>1. taskQueue' \in Seq({"task", "STOP"})
    BY TailOf DEF TypeInv, TypeOK
  <2>2. Len(taskQueue') # 0
    BY <2>1
  <2>3. Len(taskQueue) - 1 \in 1..(Len(taskQueue) - 1)
    BY <1>1, <2>2
  <2> QED BY <1>1, <2>3
<1> QED BY <1>2, <1>3, <1>4 DEF QueueInv

LEMMA WorkerQueue ==
  ASSUME TypeInv, PoolInv, QueueInv,
         NEW p \in Procs, Worker(p) \/ Hang(p) \/ TimerExpires(p) \/ WorkerDies(p)
  PROVE  QueueInv'
<1>0. UNCHANGED <<spc, idx, pusher>>
  BY DEF Worker, Hang, TimerExpires, WorkerDies, Death, sentinelVars
<1>1. CASE Take(p)
  BY <1>0, <1>1, TakeQueue DEF Take
<1>2. CASE UNCHANGED <<taskQueue, resultQueue>>
  BY <1>0, <1>2 DEF QueueInv, Suffix
<1>3. CASE \E next \in {"get", "dead"} : Report(p, next)
  <2>1. /\ worker[p] = "run" /\ resultQueue' = Append(resultQueue, "result") /\ taskQueue' = taskQueue
    BY <1>3 DEF Report
  <2>2. spc \notin {"waitMonitor", "stopped"}
    <3>1. \E i \in DOMAIN pool : pool[i] = p
      BY <2>1 DEF PoolInv, Alive
    <3>2. pool # << >>
      BY <3>1
    <3> QED BY <3>2 DEF PoolInv
  <2>3. /\ DOMAIN resultQueue' = 1..(Len(resultQueue) + 1)
        /\ \A i \in 1..Len(resultQueue) : resultQueue'[i] = resultQueue[i]
        /\ resultQueue'[Len(resultQueue) + 1] = "result"
    BY <2>1, Appended DEF TypeInv, TypeOK
  <2>4. \A i \in 1..Len(resultQueue) : resultQueue[i] # "STOP"
    BY <2>2, QueueDomains DEF QueueInv
  <2>5. ASSUME NEW i \in DOMAIN resultQueue' PROVE resultQueue'[i] # "STOP"
    BY <2>3, <2>4, QueueDomains
  <2> QED BY <1>0, <2>1, <2>5 DEF QueueInv, Suffix
<1> QED BY <1>1, <1>2, <1>3 DEF Worker, Finish, Leave, Hang, TimerExpires, WorkerDies, Death

LEMMA MonitorQueue == TypeInv /\ QueueInv /\ (Monitor \/ MonitorDies) => QueueInv'
<1> SUFFICES ASSUME TypeInv, QueueInv, Monitor \/ MonitorDies PROVE QueueInv'
  OBVIOUS
<1>0. UNCHANGED <<spc, idx, pusher, taskQueue>>
  BY DEF Monitor, MonitorDies, Death, sentinelVars
<1>1. CASE UNCHANGED resultQueue
  BY <1>0, <1>1 DEF QueueInv, Suffix
<1>2. CASE resultQueue # << >> /\ resultQueue' = Tail(resultQueue)
  <2>1. /\ DOMAIN resultQueue = 1..Len(resultQueue) /\ Len(resultQueue) \in Nat \ {0}
        /\ Len(resultQueue') = Len(resultQueue) - 1
        /\ DOMAIN resultQueue' = 1..(Len(resultQueue) - 1)
        /\ \A i \in 1..(Len(resultQueue) - 1) : resultQueue'[i] = resultQueue[i + 1]
    BY <1>2, TailOf, QueueDomains DEF TypeInv, TypeOK
  <2>2. ASSUME NEW i \in DOMAIN resultQueue', resultQueue'[i] = "STOP"
        PROVE  i = Len(resultQueue') /\ spc \in {"waitMonitor", "stopped"}
    <3>1. i + 1 \in DOMAIN resultQueue /\ resultQueue[i + 1] = "STOP"
      BY <2>1, <2>2
    <3>2. i + 1 = Len(resultQueue) /\ spc \in {"waitMonitor", "stopped"}
      BY <3>1 DEF QueueInv
    <3> QED BY <2>1, <3>2
  <2> QED BY <1>0, <2>2 DEF QueueInv, Suffix
<1> QED BY <1>1, <1>2 DEF Monitor, MonitorDies, Death

LEMMA QueueStep == TypeInv /\ PoolInv /\ QueueInv /\ [Next]_vars => QueueInv'
<1> SUFFICES ASSUME TypeInv, PoolInv, QueueInv, [Next]_vars PROVE QueueInv'
  OBVIOUS
<1>1. CASE GuardLoop \/ StopProcedure
  BY <1>1, SentinelQueue
<1>2. CASE Pusher \/ PusherDies \/ StopSignal
  BY <1>2, PusherQueue
<1>3. CASE Monitor \/ MonitorDies
  BY <1>3, MonitorQueue
<1>4. ASSUME NEW p \in Procs, Worker(p) \/ Hang(p) \/ TimerExpires(p) \/ WorkerDies(p)
      PROVE  QueueInv'
  BY <1>4, WorkerQueue
<1>5. CASE UNCHANGED vars
  BY <1>5 DEF vars, QueueInv, Suffix
<1> QED BY <1>1, <1>2, <1>3, <1>4, <1>5 DEF Next, Stopped

-----------------------------------------------------------------------------
(* The calm stop. *)

LEMMA CalmInit == Init => CalmInv
BY DEF Init, CalmInv, After, Stopping

\* Before the stop signal there is nothing to show.
LEMMA NotYet == ~stop_event' /\ spc' \in Guarding => CalmInv'
BY DEF CalmInv, After, Guarding, Stopping

LEMMA LivingFinite == IsFiniteSet(Living) /\ Cardinality(Living) \in Nat
<1>1. IsFiniteSet(Procs)
  BY ConstantTypes, FS_Interval
<1>2. Living \subseteq Procs
  BY DEF Living
<1> QED BY <1>1, <1>2, FS_Subset, FS_CardinalityType

\* Before the pills every process in the pool lives, and there are WORKERS.
LEMMA WholePoolLives ==
  ASSUME TypeInv, PoolInv, Len(pool) = WORKERS, \A i \in DOMAIN pool : Alive(pool[i])
  PROVE  Cardinality(Living) = WORKERS
<1>1. DOMAIN pool = 1..WORKERS /\ pool \in [1..WORKERS -> Living]
  BY DEF TypeInv, TypeOK, Living
<1>2. \A p \in Living : \E i \in 1..WORKERS : pool[i] = p
  BY <1>1 DEF PoolInv, Living
<1>3. pool \in Surjection(1..WORKERS, Living)
  BY <1>1, <1>2 DEF Surjection
<1>4. pool \in Injection(1..WORKERS, Living)
  BY <1>1 DEF PoolInv, Injection, IsInjective
<1>5. IsFiniteSet(1..WORKERS) /\ Cardinality(1..WORKERS) = WORKERS
  BY ConstantTypes, FS_Interval
<1> QED BY <1>3, <1>4, <1>5, FS_Surjection

LEMMA GuardCalm ==
  CalmStop /\ TypeInv /\ PoolInv /\ CalmInv /\ (GuardLoop \/ StopSignal) => CalmInv'
<1> SUFFICES ASSUME CalmStop, TypeInv, PoolInv, CalmInv, GuardLoop \/ StopSignal PROVE CalmInv'
  OBVIOUS
<1>1. CASE StopSignal
  <2>1. /\ ~stop_event /\ monitor # "dead"
        /\ \A i \in DOMAIN pool : worker[pool[i]] \in {"get", "run"}
        /\ UNCHANGED <<spc, pool, worker, monitor>>
    BY <1>1 DEF StopSignal, sentinelVars
  <2>2. spc \in Guarding
    BY <2>1 DEF CalmInv, TypeInv, TypeOK
  <2>3. \A p \in Procs : worker[p] \in {"get", "run", "dead"}
    BY <2>1 DEF PoolInv, Alive
  <2>4. \A i \in DOMAIN pool : Alive(pool[i])
    BY <2>1 DEF Alive
  <2>5. stop_event'
    BY <1>1 DEF StopSignal
  <2> QED BY <2>1, <2>2, <2>3, <2>4, <2>5 DEF CalmInv, After, Guarding, Stopping, Alive
<1>2. CASE GuardLoop /\ ~stop_event
  <2>1. ~stop_event' /\ spc' \in Guarding
    BY <1>2 DEF GuardLoop, LoopTest, CheckWorker, PoolChecked, CheckMonitor, CheckPusher, Count,
                Guarding
  <2> QED BY <2>1, NotYet
<1>3. CASE GuardLoop /\ stop_event
  <2>1. /\ spc \in Guarding /\ spc' \in Guarding \cup {"halt"}
        /\ UNCHANGED <<stop_event, resultQueue>>
        /\ monitor' = "dead" => monitor = "dead"
    BY <1>3 DEF GuardLoop, LoopTest, CheckWorker, PoolChecked, CheckMonitor, CheckPusher, Count,
                Guarding
  <2>2. UNCHANGED <<pool, worker>>
    <3>1. CASE CheckWorker
      <4>1. idx \in 1..Len(pool) /\ spc = "pool"
        BY <3>1 DEF CheckWorker, PoolInv, TypeInv, TypeOK
      <4>2. pool[idx] \in Procs /\ idx \in DOMAIN pool
        BY <4>1 DEF TypeInv, TypeOK
      <4>3. Alive(pool[idx]) /\ worker[pool[idx]] # "overdue"
        BY <1>3, <4>1, <4>2 DEF CalmInv, After
      <4>4. ~Lost(pool[idx])
        BY <4>3 DEF Lost
      <4> QED BY <3>1, <4>4 DEF CheckWorker
    <3>2. CASE ~CheckWorker
      BY <1>3, <3>2 DEF GuardLoop, LoopTest, PoolChecked, CheckMonitor, CheckPusher, Count
    <3> QED BY <3>1, <3>2
  <2>3. spc \notin After /\ spc' \notin After
    BY <2>1 DEF Guarding, After
  <2>4. stop_event' /\ spc' # "stopped"
    BY <1>3, <2>1 DEF Guarding
  <2>5. /\ \A p \in Procs : worker'[p] \in {"get", "run", "dead"}
        /\ \A i \in DOMAIN pool' : Alive(pool[i])'
    BY <1>3, <2>2, <2>3 DEF CalmInv, Alive
  <2>6. monitor' # "dead"
    BY <1>3, <2>1 DEF CalmInv, Guarding
  <2> QED BY <2>3, <2>4, <2>5, <2>6 DEF CalmInv
<1> QED BY <1>1, <1>2, <1>3

LEMMA StopCalm ==
  CalmStop /\ TypeInv /\ PoolInv /\ QueueInv /\ CalmInv /\ StopProcedure => CalmInv'
<1> SUFFICES ASSUME CalmStop, TypeInv, PoolInv, QueueInv, CalmInv, StopProcedure PROVE CalmInv'
  OBVIOUS
<1>0. /\ UNCHANGED <<stop_event, worker, monitor>> /\ stop_event
      /\ \A p \in Procs : worker[p] \in {"get", "run", "dead"}
      /\ spc \notin After => \A i \in DOMAIN pool : Alive(pool[i])
      /\ monitor = "dead" => spc \in {"waitMonitor", "stopped"} /\ resultQueue = << >>
  BY DEF StopProcedure, PutPill, ResultPill, Halt, PusherStopped, PillsDone, Reap, Reaped,
         WaitMonitor, CalmInv, Stopping
<1>1. Living' = Living /\ Cardinality(Living) \in Nat
  BY <1>0, LivingFinite DEF Living, Alive
<1>2. CASE Halt /\ UNCHANGED <<taskQueue, resultQueue>>
  BY <1>0, <1>2 DEF Halt, CalmInv, After, Stopping, Alive
<1>3. CASE PusherStopped /\ UNCHANGED <<taskQueue, resultQueue>>
  <2>1. spc = "waitPusher" /\ spc' = "pills" /\ idx' = WORKERS
    BY <1>3 DEF PusherStopped, Pills, PoolInv
  <2>2. Suffix(0)' /\ 0 \in 0..Len(taskQueue')
    BY <1>3, <2>1, QueueDomains DEF Suffix, QueueInv, After
  <2>3. Cardinality(Living') = 0 + idx'
    BY <1>0, <1>1, <2>1, WholePoolLives, ConstantTypes DEF PoolInv, After
  <2> QED BY <1>0, <1>3, <2>1, <2>2, <2>3 DEF CalmInv, After
<1>4. CASE PutPill
  <2>1. /\ spc = "pills" /\ spc' = "pills" /\ idx' = idx - 1 /\ idx \in Nat
        /\ taskQueue' = Append(taskQueue, "STOP") /\ UNCHANGED resultQueue
    BY <1>4, ConstantTypes DEF PutPill, TypeInv, TypeOK
  <2>2. PICK k \in 0..Len(taskQueue) : Suffix(k) /\ Cardinality(Living) = k + idx
    BY <2>1 DEF CalmInv, After
  <2>3. Suffix(k + 1)' /\ k + 1 \in 0..Len(taskQueue')
    BY <2>1, <2>2, SuffixAppended
  <2>4. Cardinality(Living') = (k + 1) + idx'
    BY <1>1, <2>1, <2>2, QueueDomains
  <2> QED BY <1>0, <2>1, <2>3, <2>4 DEF CalmInv, After
<1>5. CASE (PillsDone \/ Reap \/ Reaped \/ WaitMonitor) /\ UNCHANGED <<taskQueue, resultQueue>>
  <2>1. /\ spc \in After /\ spc' \in After \ {"pills"} /\ (spc = "pills" => idx = 0)
        /\ spc \in {"waitMonitor", "stopped"} => spc' \in {"waitMonitor", "stopped"}
        /\ spc' = "stopped" /\ ~SlowMonitor => monitor = "dead"
    BY <1>5 DEF PillsDone, Reap, Reaped, WaitMonitor, MonitorDone, After
  <2>2. PICK k \in 0..Len(taskQueue) :
          Suffix(k) /\ Cardinality(Living) = k + (IF spc = "pills" THEN idx ELSE 0)
    BY <2>1 DEF CalmInv
  <2>3. Suffix(k)' /\ k \in 0..Len(taskQueue')
    BY <1>5, <2>2 DEF Suffix
  <2>4. Cardinality(Living') = k + (IF spc' = "pills" THEN idx' ELSE 0)
    BY <1>1, <2>1, <2>2
  <2> QED BY <1>0, <1>5, <2>1, <2>3, <2>4 DEF CalmInv
<1>6. CASE ResultPill
  <2>1. spc = "resultPill" /\ spc' = "waitMonitor" /\ UNCHANGED taskQueue
    BY <1>6 DEF ResultPill
  <2>2. PICK k \in 0..Len(taskQueue) : Suffix(k) /\ Cardinality(Living) = k + 0
    BY <2>1 DEF CalmInv, After
  <2>3. Suffix(k)' /\ k \in 0..Len(taskQueue')
    BY <2>1, <2>2 DEF Suffix
  <2>4. monitor' # "dead"
    BY <1>0, <2>1
  <2> QED BY <1>0, <1>1, <2>1, <2>2, <2>3, <2>4 DEF CalmInv, After
<1> QED BY <1>2, <1>3, <1>4, <1>5, <1>6 DEF StopProcedure

LEMMA PusherCalm == TypeInv /\ QueueInv /\ CalmInv /\ Pusher => CalmInv'
<1> SUFFICES ASSUME TypeInv, QueueInv, CalmInv, Pusher PROVE CalmInv'
  OBVIOUS
<1>1. UNCHANGED <<spc, pool, stop_event, worker, monitor, resultQueue>>
  BY DEF Pusher, sentinelVars
<1>2. spc \notin After
  BY DEF Pusher, Dequeue, Put, CheckEvent, QueueInv
<1> QED BY <1>1, <1>2 DEF CalmInv, Alive

\* A worker that takes a pill ends: one pill less, one process less.
LEMMA WorkerCalm ==
  ASSUME CalmStop, TypeInv, PoolInv, QueueInv, CalmInv,
         NEW p \in Procs, Worker(p) \/ Hang(p) \/ TimerExpires(p) \/ WorkerDies(p)
  PROVE  CalmInv'
<1>0. UNCHANGED <<spc, idx, pool, stop_event, monitor>>
  BY DEF Worker, Hang, TimerExpires, WorkerDies, Death, sentinelVars
<1>1. CASE ~stop_event
  <2>1. spc \in Guarding
    BY <1>1 DEF CalmInv, TypeInv, TypeOK
  <2> QED BY <1>0, <1>1, <2>1, NotYet
<1>2. CASE stop_event /\ Take(p)
  <2>1. /\ worker[p] = "get" /\ taskQueue # << >> /\ taskQueue' = Tail(taskQueue)
        /\ worker' = [worker EXCEPT ![p] = IF Head(taskQueue) = "STOP" THEN "dead" ELSE "run"]
        /\ UNCHANGED resultQueue
    BY <1>2 DEF Take
  <2>2. \A r \in Procs : worker'[r] \in {"get", "run", "dead"}
    BY <1>2, <2>1 DEF CalmInv, TypeInv, TypeOK
  <2>3. CASE Head(taskQueue) = "STOP"
    <3>1. spc \in After
      <4>1. 1 \in DOMAIN taskQueue /\ taskQueue[1] = "STOP"
        BY <2>1, <2>3, TailOf, QueueDomains DEF TypeInv, TypeOK
      <4> QED BY <4>1 DEF QueueInv
    <3>2. PICK k \in 0..Len(taskQueue) :
            Suffix(k) /\ Cardinality(Living) = k + (IF spc = "pills" THEN idx ELSE 0)
      BY <3>1 DEF CalmInv
    <3>3. k - 1 \in 0..Len(taskQueue') /\ Suffix(k - 1)'
      BY <2>1, <2>3, <3>2, SuffixTaken
    <3>4. Living' = Living \ {p} /\ p \in Living
      BY <2>1, <2>3 DEF Living, Alive, TypeInv, TypeOK
    <3>5. Cardinality(Living') = Cardinality(Living) - 1
      BY <3>4, LivingFinite, FS_RemoveElement
    <3>6. Cardinality(Living') = (k - 1) + (IF spc = "pills" THEN idx ELSE 0)
      BY <3>2, <3>5, QueueDomains, ConstantTypes DEF TypeInv, TypeOK
    <3> QED BY <1>0, <2>1, <2>2, <3>1, <3>3, <3>6 DEF CalmInv
  <2>4. CASE Head(taskQueue) # "STOP"
    <3>1. Living' = Living /\ \A i \in DOMAIN pool : Alive(pool[i]) => Alive(pool[i])'
      BY <1>0, <2>1, <2>4 DEF Living, Alive, TypeInv, TypeOK
    <3>2. ASSUME spc \in After
          PROVE  \E k \in 0..Len(taskQueue') :
                   Suffix(k)' /\ Cardinality(Living') = k + (IF spc = "pills" THEN idx ELSE 0)
      <4>1. PICK k \in 0..Len(taskQueue) :
              Suffix(k) /\ Cardinality(Living) = k + (IF spc = "pills" THEN idx ELSE 0)
        BY <3>2 DEF CalmInv
      <4>2. k \in 0..Len(taskQueue') /\ Suffix(k)'
        BY <2>1, <2>4, <4>1, SuffixTaken
      <4> QED BY <3>1, <4>1, <4>2
    <3> QED BY <1>0, <2>1, <2>2, <3>1, <3>2 DEF CalmInv
  <2> QED BY <2>3, <2>4
<1>3. CASE stop_event /\ Finish(p)
  <2>1. /\ worker[p] = "run" /\ worker' = [worker EXCEPT ![p] = "get"] /\ UNCHANGED taskQueue
    BY <1>3 DEF Finish, Report
  <2>2. \A r \in Procs : worker'[r] \in {"get", "run", "dead"}
    BY <1>3, <2>1 DEF CalmInv, TypeInv, TypeOK
  <2>3. Living' = Living /\ \A i \in DOMAIN pool : Alive(pool[i]) => Alive(pool[i])'
    BY <1>0, <2>1 DEF Living, Alive, TypeInv, TypeOK
  <2>4. monitor # "dead"
    <3>1. pool # << >>
      BY <2>1 DEF PoolInv, Alive
    <3> QED BY <1>3, <3>1 DEF PoolInv, CalmInv
  <2> QED BY <1>0, <1>3, <2>1, <2>2, <2>3, <2>4 DEF CalmInv, Suffix
<1>4. CASE stop_event /\ ~Take(p) /\ ~Finish(p)
  <2>1. ~MayGo
    BY <1>4 DEF MayGo
  <2>2. worker[p] # "hung"
    BY <1>4 DEF CalmInv
  <2> QED BY <1>4, <2>1, <2>2 DEF Worker, Leave, Hang, TimerExpires, WorkerDies, Death
<1> QED BY <1>1, <1>2, <1>3, <1>4

LEMMA MonitorCalm ==
  CalmStop /\ TypeInv /\ QueueInv /\ CalmInv /\ (Monitor \/ MonitorDies \/ PusherDies) => CalmInv'
<1> SUFFICES ASSUME CalmStop, TypeInv, QueueInv, CalmInv, Monitor \/ MonitorDies \/ PusherDies
             PROVE  CalmInv'
  OBVIOUS
<1>0. UNCHANGED <<spc, idx, pool, stop_event, worker, taskQueue>>
  BY DEF Monitor, MonitorDies, PusherDies, Death, sentinelVars
<1>1. CASE ~stop_event
  <2>1. spc \in Guarding
    BY <1>1 DEF CalmInv, TypeInv, TypeOK
  <2> QED BY <1>0, <1>1, <2>1, NotYet
<1>2. CASE stop_event
  <2>1. Monitor /\ spc # "stopped"
    BY <1>2 DEF Monitor, MonitorDies, PusherDies, Death, MayGo
  <2>2. ASSUME monitor' = "dead"
        PROVE  spc \in {"waitMonitor", "stopped"} /\ resultQueue' = << >>
    <3>1. /\ resultQueue # << >> /\ resultQueue' = Tail(resultQueue)
          /\ Head(resultQueue) = "STOP"
      BY <2>1, <2>2 DEF Monitor
    <3>2. /\ Len(resultQueue') = Len(resultQueue) - 1 /\ resultQueue' \in Seq({"result", "STOP"})
          /\ 1 \in DOMAIN resultQueue /\ resultQueue[1] = "STOP"
      BY <3>1, TailOf, QueueDomains DEF TypeInv, TypeOK
    <3>3. Len(resultQueue) = 1 /\ spc \in {"waitMonitor", "stopped"}
      BY <3>2 DEF QueueInv
    <3> QED BY <3>2, <3>3, EmptySeq
  <2> QED BY <1>0, <2>1, <2>2 DEF CalmInv, Suffix, Living, Alive
<1> QED BY <1>1, <1>2

LEMMA CalmStep ==
  CalmStop /\ TypeInv /\ PoolInv /\ QueueInv /\ CalmInv /\ [Next]_vars => CalmInv'
<1> SUFFICES ASSUME CalmStop, TypeInv, PoolInv, QueueInv, CalmInv, [Next]_vars PROVE CalmInv'
  OBVIOUS
<1>1. CASE GuardLoop \/ StopSignal
  BY <1>1, GuardCalm
<1>2. CASE StopProcedure
  BY <1>2, StopCalm
<1>3. CASE Pusher
  BY <1>3, PusherCalm
<1>4. CASE Monitor \/ MonitorDies \/ PusherDies
  BY <1>4, MonitorCalm
<1>5. ASSUME NEW p \in Procs, Worker(p) \/ Hang(p) \/ TimerExpires(p) \/ WorkerDies(p)
      PROVE  CalmInv'
  BY <1>5, WorkerCalm
<1>6. CASE UNCHANGED vars
  BY <1>6 DEF vars, CalmInv, Suffix, Living, Alive
<1> QED BY <1>1, <1>2, <1>3, <1>4, <1>5, <1>6 DEF Next, Stopped

-----------------------------------------------------------------------------
\* The invariant holds of every behaviour.
LEMMA InvAlways == Spec => []SentinelInv
<1>1. Init => SentinelInv
  BY TypeInit, PoolInit, QueueInit, CalmInit DEF SentinelInv
<1>2. SentinelInv /\ [Next]_vars => SentinelInv'
  BY PoolStep, QueueStep, CalmStep DEF SentinelInv
<1> QED BY <1>1, <1>2, PTL DEF Spec

\* The sentinel's state is well typed for any pool, limits and backlog.
THEOREM TypeCorrect == Spec => []TypeOK
<1>1. SentinelInv => TypeOK
  BY DEF SentinelInv, TypeInv
<1> QED BY <1>1, InvAlways, PTL

\* Whatever dies, leaves or hangs, and although the guard changes the pool while it
\* iterates over it, the pool holds WORKERS different processes and every live one.
THEOREM PoolStaysWhole == Spec => []PoolIsWhole
<1>1. SentinelInv => PoolIsWhole
  BY DEF SentinelInv, PoolInv, PoolIsWhole
<1> QED BY <1>1, InvAlways, PTL

\* No task is queued behind a pill and no result behind the monitor's, in a calm
\* stop or not.
THEOREM PillsComeLast == Spec => []PillsLast
<1>1. SentinelInv => PillsLast
  <2> SUFFICES ASSUME SentinelInv PROVE PillsLast
    OBVIOUS
  <2>1. ASSUME NEW i \in DOMAIN taskQueue, NEW j \in DOMAIN taskQueue,
               i < j, taskQueue[i] = "STOP"
        PROVE  taskQueue[j] = "STOP"
    <3>1. PICK k \in 0..Len(taskQueue) : Suffix(k)
      BY <2>1 DEF SentinelInv, QueueInv
    <3>2. i > Len(taskQueue) - k
      BY <2>1, <3>1 DEF Suffix
    <3>3. j > Len(taskQueue) - k
      BY <2>1, <3>2, QueueDomains DEF SentinelInv
    <3> QED BY <3>1, <3>3 DEF Suffix
  <2> QED BY <2>1 DEF PillsLast, SentinelInv, QueueInv
<1> QED BY <1>1, InvAlways, PTL

\* A calm stop reaps the workers only when they have emptied the task queue: there
\* are as many pills as workers, and the last of them is the last in the queue.
THEOREM CalmStopEmptiesTasks == ASSUME CalmStop PROVE Spec => []TaskQueueEmptied
<1>1. SentinelInv => TaskQueueEmptied
  <2> SUFFICES ASSUME SentinelInv, spc \in {"resultPill", "waitMonitor", "stopped"}
               PROVE  taskQueue = << >>
    BY DEF TaskQueueEmptied
  <2>1. Living = {}
    BY DEF SentinelInv, PoolInv, Living
  <2>2. PICK k \in 0..Len(taskQueue) : Suffix(k) /\ Cardinality(Living) = k + 0
    BY DEF SentinelInv, CalmInv, After
  <2>3. k = 0
    BY <2>1, <2>2, FS_EmptySet, QueueDomains DEF SentinelInv
  <2>4. \A i \in DOMAIN taskQueue : taskQueue[i] # "STOP"
    BY <2>2, <2>3, QueueDomains DEF Suffix, SentinelInv
  <2>5. SUFFICES ASSUME taskQueue # << >> PROVE FALSE
    OBVIOUS
  <2>6. Len(taskQueue) \in DOMAIN taskQueue
    BY <2>5, EmptySeq, QueueDomains DEF SentinelInv, TypeInv, TypeOK
  <2> QED BY <2>4, <2>5, <2>6 DEF SentinelInv, QueueInv, After
<1> QED BY <1>1, InvAlways, PTL

\* If the monitor gets the time it needs, all results of a calm stop are saved.
THEOREM CalmStopSavesResults ==
  ASSUME CalmStop, ~SlowMonitor
  PROVE  Spec => []ResultsSaved
<1>1. SentinelInv => ResultsSaved
  BY DEF SentinelInv, CalmInv, Stopping, ResultsSaved
<1> QED BY <1>1, InvAlways, PTL
=============================================================================
