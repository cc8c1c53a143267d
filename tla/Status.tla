------------------------------- MODULE Status -------------------------------
(***************************************************************************)
(* Clusters from outside: Cluster.start and stop with the signals between  *)
(* them (django_q/cluster.py), the statistic a sentinel saves with each    *)
(* turn of its guard loop (status.py), the list of statistic keys that the *)
(* sentinels and qmonitor maintain in the cache without a lock             *)
(* (brokers/__init__.py; Redis needs no list), and the size counters of    *)
(* the queues (queues.py) that tell an idle cluster from a working one.    *)
(* What a sentinel does when it guards and stops is in module Sentinel.    *)
(***************************************************************************)
EXTENDS Integers, FiniteSets, Sequences, SequencesExt

CONSTANTS Clusters,
          Signalled,  \* the clusters that get a signal or are stopped
          Busy,       \* the clusters that get tasks
          Workers,    \* the workers of a busy cluster
          Late,       \* the clusters whose turns may take longer than 3 seconds
          MaxPuts,    \* bound: tasks put in a queue
          MaxDeaths   \* bound: sudden deaths

ASSUME StatusAssumption == /\ Signalled \cup Busy \cup Late \subseteq Clusters
                           /\ IsFiniteSet(Workers)
                           /\ MaxPuts \in Nat /\ MaxDeaths \in Nat

VARIABLES redis,     \* is the broker Redis?
          cluster,   \* cluster[c]: its process and its two events
          sentinel,  \* sentinel[c]: where it is, and the key list it has read
          entry,     \* the clusters whose statistic is in the cache
          keyList,   \* the list under Q_STAT, <<>> for none
          timed,     \* will the list expire?
          reader,    \* qmonitor's pass over the statistics
          queue,     \* queue[c]: the task queue and its counter
          deaths

vars == <<redis, cluster, sentinel, entry, keyList, timed, reader, queue, deaths>>
lifecycle == <<cluster, deaths>>
store == <<entry, keyList, timed>>

Idle == [pc |-> "idle", list |-> <<>>, pos |-> 0]
Empty == [items |-> 0, size |-> 0, puts |-> 0, putting |-> 0, getting |-> {}]

TypeOK ==
  /\ redis \in BOOLEAN
  /\ cluster \in [Clusters -> [pc : {"new", "start", "running", "stopped", "raised"},
                               start_event : {"None", "clear", "set"},
                               stop_event : {"None", "clear", "set"}, stopping : BOOLEAN]]
  /\ sentinel \in [Clusters -> [pc : {"none", "spawn", "ready", "guard", "stop", "last", "dead"},
                                step : {"turn", "list", "prune", "set"},
                                list : Seq(Clusters)]]
  /\ entry \subseteq Clusters
  /\ keyList \in Seq(Clusters) /\ timed \in BOOLEAN
  /\ reader.pc \in {"idle", "visit"} /\ reader.pos \in 0..(Cardinality(Clusters) + 1)
  /\ queue \in [Clusters -> [items : 0..MaxPuts, size : -MaxPuts..MaxPuts, puts : 0..MaxPuts,
                             putting : 0..1, getting : SUBSET Workers]]
  /\ deaths \in 0..MaxDeaths

Init == /\ redis \in BOOLEAN
        /\ cluster = [c \in Clusters |-> [pc |-> "new", start_event |-> "None",
                                          stop_event |-> "None", stopping |-> FALSE]]
        /\ sentinel = [c \in Clusters |-> [pc |-> "none", step |-> "turn", list |-> <<>>]]
        /\ entry = {} /\ keyList = <<>> /\ timed = FALSE
        /\ reader = Idle
        /\ queue = [c \in Clusters |-> Empty]
        /\ deaths = 0

-----------------------------------------------------------------------------
(* Cluster *)

Alive(c) == sentinel[c].pc \notin {"none", "dead"}

start(c) ==
  /\ cluster[c].pc = "new"
  /\ cluster' = [cluster EXCEPT ![c] = [pc |-> "start", start_event |-> "clear",
                                        stop_event |-> "clear", stopping |-> FALSE]]
  /\ sentinel' = [sentinel EXCEPT ![c].pc = "spawn"]
  /\ UNCHANGED <<redis, store, reader, queue, deaths>>

\* Faulty variant: the loop takes an event that was removed for one not set yet.
StartWaits(c) ==
  /\ cluster[c].pc = "start" /\ ~cluster[c].stopping /\ cluster[c].start_event = "set"
  /\ cluster' = [cluster EXCEPT ![c].pc = "running"]
  /\ UNCHANGED <<redis, sentinel, store, reader, queue, deaths>>

\* start's loop ends; without the event, which stop has removed, it raises.
StartReturns(c) ==
  /\ cluster[c].pc = "start" /\ ~cluster[c].stopping /\ cluster[c].start_event # "clear"
  /\ cluster' = [cluster EXCEPT ![c].pc = IF cluster[c].start_event = "set" THEN "running"
                                          ELSE "raised"]
  /\ UNCHANGED <<redis, sentinel, store, reader, queue, deaths>>

\* stop, called by the program or by sig_handler in the middle of start: nothing
\* if the sentinel is not alive.
stop(c) ==
  /\ c \in Signalled /\ cluster[c].pc \in {"start", "running"} /\ Alive(c) /\ ~cluster[c].stopping
  /\ cluster' = [cluster EXCEPT ![c].stop_event = "set", ![c].stopping = TRUE]
  /\ UNCHANGED <<redis, sentinel, store, reader, queue, deaths>>

Joined(c) == ~Alive(c)

\* sentinel.join() has returned; the interrupted start goes on.
StopReturns(c) ==
  /\ cluster[c].stopping /\ Joined(c)
  /\ cluster' = [cluster EXCEPT ![c] = [pc |-> IF @.pc = "start" THEN "start" ELSE "stopped",
                                        start_event |-> "None", stop_event |-> "None",
                                        stopping |-> FALSE]]
  /\ UNCHANGED <<redis, sentinel, store, reader, queue, deaths>>

\* The sentinel dies, at the broker's ping or later.
SentinelDies(c) ==
  /\ Alive(c) /\ deaths < MaxDeaths /\ deaths' = deaths + 1
  /\ sentinel' = [sentinel EXCEPT ![c] = [@ EXCEPT !.pc = "dead", !.step = "turn"]]
  /\ UNCHANGED <<redis, cluster, store, reader, queue>>

-----------------------------------------------------------------------------
(* The task queue and its counter: Queue.put counts after it has put, Queue.get *)
(* after it has got.                                                            *)

\* Bound: tasks are put with one kind of broker only; the queue knows no broker.
Working(c) == c \in Busy /\ redis /\ sentinel[c].pc = "guard"

Put(c) == /\ Working(c) /\ queue[c].puts < MaxPuts /\ queue[c].putting = 0
          /\ queue' = [queue EXCEPT ![c].items = @ + 1, ![c].puts = @ + 1, ![c].putting = 1]
          /\ UNCHANGED <<redis, lifecycle, sentinel, store, reader>>

PutCounted(c) == /\ queue[c].putting = 1
                 /\ queue' = [queue EXCEPT ![c].size = @ + 1, ![c].putting = 0]
                 /\ UNCHANGED <<redis, lifecycle, sentinel, store, reader>>

\* Faulty variant: get counts before it waits for an item.
GetEarly(c, w) == /\ Working(c) /\ w \notin queue[c].getting /\ queue[c].items > 0
                  /\ queue' = [queue EXCEPT ![c].size = @ - 1, ![c].getting = @ \cup {w}]
                  /\ UNCHANGED <<redis, lifecycle, sentinel, store, reader>>

Get(c, w) == /\ Working(c) /\ queue[c].items > 0 /\ w \notin queue[c].getting
             /\ queue' = [queue EXCEPT ![c].items = @ - 1, ![c].getting = @ \cup {w}]
             /\ UNCHANGED <<redis, lifecycle, sentinel, store, reader>>

GetCounted(c, w) == /\ w \in queue[c].getting
                    /\ queue' = [queue EXCEPT ![c].size = @ - 1, ![c].getting = @ \ {w}]
                    /\ UNCHANGED <<redis, lifecycle, sentinel, store, reader>>

\* A pusher or worker is killed before it has counted: the counter is wrong for good.
CounterLost(c) ==
  /\ deaths < MaxDeaths /\ deaths' = deaths + 1
  /\ \/ queue[c].putting = 1 /\ queue' = [queue EXCEPT ![c].putting = 0]
     \/ \E w \in queue[c].getting : queue' = [queue EXCEPT ![c].getting = @ \ {w}]
  /\ UNCHANGED <<redis, cluster, sentinel, store, reader>>

empty(c) == ~(queue[c].size > 0)

-----------------------------------------------------------------------------
(* Sentinel and Stat.save *)

\* What the statistic says; a stopping cluster is Stopped once its processes ended.
status(c) ==
  LET events == <<cluster[c].start_event, cluster[c].stop_event>>
  IN CASE events = <<"clear", "clear">> -> "Starting"
       [] events = <<"set", "clear">> -> IF empty(c) THEN "Idle" ELSE "Working"
       [] events = <<"set", "set">> -> IF sentinel[c].pc = "last" THEN "Stopped" ELSE "Stopping"
       [] OTHER -> "None"

Save(c, pc) == sentinel' = [sentinel EXCEPT ![c].pc = pc, ![c].step = "list"]

\* A turn of the sentinel, with Stat(self): spawn_cluster, guard, which sets the start
\* event and goes on until the stop event, and stop.
Turn(c) ==
  /\ sentinel[c].step = "turn"
  /\ \/ sentinel[c].pc = "spawn" /\ Save(c, "ready") /\ UNCHANGED cluster
     \/ /\ sentinel[c].pc = "ready" /\ Save(c, "guard")
        /\ cluster' = [cluster EXCEPT ![c].start_event = "set"]
     \/ /\ sentinel[c].pc = "guard" /\ UNCHANGED cluster
        /\ Save(c, IF cluster[c].stop_event = "clear" THEN "guard" ELSE "stop")
     \/ sentinel[c].pc = "stop" /\ Save(c, "stop") /\ UNCHANGED cluster
     \/ /\ sentinel[c].pc = "last" /\ UNCHANGED cluster
        /\ sentinel' = [sentinel EXCEPT ![c].pc = "dead"]
  /\ UNCHANGED <<redis, store, reader, queue, deaths>>

\* The last statistic of stop, when all processes have ended.
LastStat(c) ==
  /\ sentinel[c].pc = "stop" /\ sentinel[c].step = "turn"
  /\ Save(c, "last")
  /\ UNCHANGED <<redis, lifecycle, store, reader, queue>>

\* Faulty variant: the list is looked at with the first statistic only.
StatBeginsOnce(c) ==
  /\ sentinel[c].step = "list" /\ Alive(c)
  /\ sentinel' = [sentinel EXCEPT
                    ![c] = IF redis \/ @.pc # "ready" THEN [@ EXCEPT !.step = "set"]
                           ELSE [@ EXCEPT !.step = "prune", !.list = keyList]]
  /\ UNCHANGED <<redis, lifecycle, store, reader, queue>>

\* set_stat: Redis sets the key only, a cache has the list looked at first.
StatBegins(c) ==
  /\ sentinel[c].step = "list" /\ Alive(c)
  /\ sentinel' = [sentinel EXCEPT
                    ![c] = IF redis \/ c \in ToSet(keyList) THEN [@ EXCEPT !.step = "set"]
                           ELSE [@ EXCEPT !.step = "prune", !.list = keyList]]
  /\ UNCHANGED <<redis, lifecycle, store, reader, queue>>

\* Not in the list: keys whose statistic has expired go, its own is appended.
StatLists(c) ==
  /\ sentinel[c].step = "prune" /\ Alive(c)
  /\ keyList' = Append(SelectSeq(sentinel[c].list, LAMBDA k : k \in entry), c)
  /\ timed' = FALSE
  /\ sentinel' = [sentinel EXCEPT ![c].step = "set", ![c].list = <<>>]
  /\ UNCHANGED <<redis, lifecycle, entry, reader, queue>>

StatSet(c) ==
  /\ sentinel[c].step = "set" /\ Alive(c)
  /\ entry' = entry \cup {c}
  /\ sentinel' = [sentinel EXCEPT ![c].step = "turn"]
  /\ UNCHANGED <<redis, lifecycle, keyList, timed, reader, queue>>

\* Three seconds without a new statistic: the sentinel is gone, or late, as in a turn
\* with a long pass of the scheduler or with GUARD_CYCLE > 3.
Expire(c) ==
  /\ c \in entry /\ (~Alive(c) \/ c \in Late)
  /\ entry' = entry \ {c}
  /\ UNCHANGED <<redis, lifecycle, sentinel, keyList, timed, reader, queue>>

\* The list that a reader wrote has the cache's default timeout.
ListExpires ==
  /\ timed /\ keyList # <<>>
  /\ keyList' = <<>> /\ timed' = FALSE
  /\ UNCHANGED <<redis, lifecycle, sentinel, entry, reader, queue>>

-----------------------------------------------------------------------------
(* Stat.get_all *)

\* get_stats with a cache; Redis finds the keys by their pattern and writes nothing.
Open ==
  /\ reader.pc = "idle" /\ ~redis /\ keyList # <<>>
  /\ reader' = [pc |-> "visit", list |-> keyList, pos |-> 1]
  /\ UNCHANGED <<redis, lifecycle, sentinel, store, queue>>

\* After a removal the loop's next position passes over one key.
Visit ==
  /\ reader.pc = "visit" /\ reader.pos <= Len(reader.list)
  /\ LET key == reader.list[reader.pos]
     IN IF key \in entry
        THEN reader' = [reader EXCEPT !.pos = @ + 1]
        ELSE reader' = [reader EXCEPT !.list = RemoveFirst(@, key), !.pos = @ + 1]
  /\ UNCHANGED <<redis, lifecycle, sentinel, store, queue>>

\* Faulty variant: get_stats does not save the list.
WriteNothing == reader.pc = "visit" /\ reader.pos > Len(reader.list) /\ reader' = Idle
                /\ UNCHANGED <<redis, lifecycle, sentinel, store, queue>>

Write ==
  /\ reader.pc = "visit" /\ reader.pos > Len(reader.list)
  /\ keyList' = reader.list /\ timed' = TRUE
  /\ reader' = Idle
  /\ UNCHANGED <<redis, lifecycle, sentinel, entry, queue>>

-----------------------------------------------------------------------------
Sentinels(c) == Turn(c) \/ StatBegins(c) \/ StatLists(c) \/ StatSet(c)
Counting(c) == PutCounted(c) \/ \E w \in Workers : GetCounted(c, w)
Reading == Open \/ Visit \/ Write

Next == \/ \E c \in Clusters :
             \/ start(c) \/ StartReturns(c) \/ stop(c) \/ StopReturns(c) \/ SentinelDies(c)
             \/ Put(c) \/ CounterLost(c) \/ Counting(c) \/ \E w \in Workers : Get(c, w)
             \/ Sentinels(c) \/ LastStat(c) \/ Expire(c)
        \/ ListExpires \/ Reading

Spec == Init /\ [][Next]_vars

\* Processes are scheduled, qmonitor is open, what is to expire does; the
\* sentinel's loops come to an end when they are told to (module Sentinel).
Fairness ==
  /\ WF_vars(Reading)
  /\ \A c \in Clusters :
       /\ WF_vars(StartReturns(c)) /\ WF_vars(StopReturns(c)) /\ WF_vars(Counting(c))
       /\ WF_vars(Sentinels(c)) /\ WF_vars(~Alive(c) /\ Expire(c))
       /\ SF_vars(LastStat(c))

FairSpec == Spec /\ Fairness

-----------------------------------------------------------------------------
\* stop has returned only when the sentinel, and with it the cluster, has ended.
StoppedIsDead == \A c \in Clusters : cluster[c].pc \in {"stopped", "raised"} => ~Alive(c)

\* A cluster reported as Idle has no task in its queue but one that is being put,
\* unless a process was killed before it had counted.
IdleHasNoBacklog == \A c \in Clusters :
  status(c) = "Idle" /\ deaths = 0 => queue[c].items <= queue[c].putting

\* A guarded cluster that a concurrent pass has dropped from the list, or whose
\* list has expired, is in the list again while it lives.
ListedAgain == \A c \in Clusters :
  (~redis /\ sentinel[c].pc = "guard") ~> (c \in ToSet(keyList) \/ sentinel[c].pc # "guard")

\* The key of a cluster that is gone leaves the list in the end.
Forgotten == \A c \in Clusters : (sentinel[c].pc = "dead") ~> (c \notin ToSet(keyList))

\* start and stop come to an end, also a start that a signal's stop has interrupted
\* and left without the event it looks at, by whatever the sentinel does or dies of
\* meanwhile.  Only a start that no one stops waits for ever, if its sentinel has died
\* before it set the event.
LeftWaiting(c) == /\ sentinel[c].pc = "dead" /\ ~cluster[c].stopping
                  /\ cluster[c].start_event = "clear" /\ cluster[c].stop_event = "clear"

CallsEnd == \A c \in Clusters :
  (cluster[c].pc = "start" \/ cluster[c].stopping)
    ~> \/ cluster[c].pc # "start" /\ ~cluster[c].stopping
       \/ LeftWaiting(c)
=============================================================================
