---------------------------- MODULE StatusProofs ----------------------------
(***************************************************************************)
(* Status for any clusters, workers and bounds: an idle cluster has no     *)
(* backlog, and a call of stop returns only when the cluster has ended.    *)
(***************************************************************************)
EXTENDS Status, FiniteSetTheorems, TLAPS

-----------------------------------------------------------------------------
(* The counter of the task queue. *)

\* A queue as far as its counter goes.
Counted == [items : Nat, size : Int, puts : Nat, putting : {0, 1}, getting : SUBSET Workers]

\* The counter lags behind the queue by the put and the gets that have not been counted.
Lag(q) == q.size = q.items - q.putting + Cardinality(q.getting)

CounterInv ==
  /\ queue \in [Clusters -> Counted]
  /\ deaths \in Nat
  /\ deaths = 0 => \A c \in Clusters : Lag(queue[c])

\* Sets of workers are finite, and grow and shrink one worker at a time.
LEMMA GettingFinite ==
  ASSUME NEW G \in SUBSET Workers
  PROVE  /\ IsFiniteSet(G) /\ Cardinality(G) \in Nat
         /\ \A w \in Workers \ G : Cardinality(G \cup {w}) = Cardinality(G) + 1
         /\ \A w \in G : Cardinality(G \ {w}) = Cardinality(G) - 1
<1>1. IsFiniteSet(G) /\ Cardinality(G) \in Nat
  BY StatusAssumption, FS_Subset, FS_CardinalityType
<1>2. \A w \in Workers \ G : Cardinality(G \cup {w}) = Cardinality(G) + 1
  BY <1>1, FS_AddElement
<1>3. \A w \in G : Cardinality(G \ {w}) = Cardinality(G) - 1
  BY <1>1, FS_RemoveElement
<1> QED BY <1>1, <1>2, <1>3

LEMMA CounterInit == Init => CounterInv
<1> SUFFICES ASSUME Init PROVE CounterInv
  OBVIOUS
<1>1. Empty \in Counted
  BY DEF Empty, Counted
<1>2. Lag(Empty)
  BY FS_EmptySet DEF Empty, Lag
<1> QED BY <1>1, <1>2 DEF Init, CounterInv

\* A step on c's queue that keeps the lag, or follows a death.
LEMMA CounterChanged ==
  ASSUME CounterInv, NEW c \in Clusters, NEW q \in Counted,
         queue' = [queue EXCEPT ![c] = q], deaths' \in Nat,
         deaths' = 0 => deaths = 0 /\ Lag(q)
  PROVE  CounterInv'
<1>1. queue' \in [Clusters -> Counted]
  BY DEF CounterInv
<1>2. deaths' = 0 => \A d \in Clusters : Lag(queue'[d])
  BY DEF CounterInv
<1> QED BY <1>1, <1>2 DEF CounterInv, Lag

LEMMA CounterKept ==
  ASSUME CounterInv, UNCHANGED queue, deaths' = deaths \/ deaths' = deaths + 1
  PROVE  CounterInv'
BY DEF CounterInv, Lag

LEMMA CounterStep == CounterInv /\ [Next]_vars => CounterInv'
<1> SUFFICES ASSUME CounterInv, [Next]_vars PROVE CounterInv'
  OBVIOUS
<1>0. /\ deaths \in Nat
      /\ \A c \in Clusters : /\ queue[c] \in Counted
                             /\ deaths = 0 => Lag(queue[c])
  BY DEF CounterInv
<1>1. ASSUME NEW c \in Clusters, Put(c) PROVE CounterInv'
  <2> DEFINE q == [queue[c] EXCEPT !.items = @ + 1, !.puts = @ + 1, !.putting = 1]
  <2>1. queue' = [queue EXCEPT ![c] = q] /\ deaths' = deaths /\ queue[c].putting = 0
    BY <1>1 DEF Put, lifecycle
  <2>2. q \in Counted
    <3>1. queue[c] \in Counted
      BY <1>0
    <3> DEFINE r1 == [queue[c] EXCEPT !.items = @ + 1]
    <3>2. r1 \in Counted
      BY <2>1, <3>1 DEF Counted
    <3> DEFINE r2 == [r1 EXCEPT !.puts = @ + 1]
    <3>3. r2 \in Counted
      <4>1. \A r \in Counted : [r EXCEPT !.puts = @ + 1] \in Counted
        BY DEF Counted
      <4> QED BY <3>2, <4>1
    <3> DEFINE r3 == [r2 EXCEPT !.putting = 1]
    <3>4. r3 \in Counted
      BY <2>1, <3>3 DEF Counted
    <3>5. q = r3
      OBVIOUS
    <3> QED BY <3>4, <3>5
  <2>3. Cardinality(queue[c].getting) \in Nat
    BY <1>0, GettingFinite DEF Counted
  <2>4. /\ q.items = queue[c].items + 1 /\ q.size = queue[c].size
        /\ q.putting = 1 /\ q.getting = queue[c].getting
    BY <1>0 DEF Counted
  <2>5. queue[c].items \in Int /\ queue[c].size \in Int /\ queue[c].putting \in Int
    BY <1>0 DEF Counted
  <2> HIDE DEF q
  <2>6. Lag(queue[c]) => Lag(q)
    BY <2>1, <2>3, <2>4, <2>5 DEF Lag
  <2> QED BY <1>0, <2>1, <2>2, <2>6, CounterChanged
<1>2. ASSUME NEW c \in Clusters, PutCounted(c) PROVE CounterInv'
  <2> DEFINE q == [queue[c] EXCEPT !.size = @ + 1, !.putting = 0]
  <2>1. queue' = [queue EXCEPT ![c] = q] /\ deaths' = deaths /\ queue[c].putting = 1
    BY <1>2 DEF PutCounted, lifecycle
  <2>2. q \in Counted
    <3>1. queue[c] \in Counted
      BY <1>0
    <3> DEFINE r1 == [queue[c] EXCEPT !.size = @ + 1]
    <3>2. r1 \in Counted
      BY <2>1, <3>1 DEF Counted
    <3> DEFINE r2 == [r1 EXCEPT !.putting = 0]
    <3>3. r2 \in Counted
      <4>1. \A r \in Counted : [r EXCEPT !.putting = 0] \in Counted
        BY DEF Counted
      <4> QED BY <3>2, <4>1
    <3>4. q = r2
      OBVIOUS
    <3> QED BY <3>3, <3>4
  <2>3. Cardinality(queue[c].getting) \in Nat
    BY <1>0, GettingFinite DEF Counted
  <2>4. /\ q.items = queue[c].items /\ q.size = queue[c].size + 1
        /\ q.putting = 0 /\ q.getting = queue[c].getting
    BY <1>0 DEF Counted
  <2>5. queue[c].items \in Int /\ queue[c].size \in Int /\ queue[c].putting \in Int
    BY <1>0 DEF Counted
  <2> HIDE DEF q
  <2>6. Lag(queue[c]) => Lag(q)
    BY <2>1, <2>3, <2>4, <2>5 DEF Lag
  <2> QED BY <1>0, <2>1, <2>2, <2>6, CounterChanged
<1>3. ASSUME NEW c \in Clusters, NEW w \in Workers, Get(c, w) PROVE CounterInv'
  <2> DEFINE q == [queue[c] EXCEPT !.items = @ - 1, !.getting = @ \cup {w}]
  <2>1. /\ queue' = [queue EXCEPT ![c] = q] /\ deaths' = deaths
        /\ queue[c].items > 0 /\ w \notin queue[c].getting
    BY <1>3 DEF Get, lifecycle
  <2>2. q \in Counted
    <3>1. queue[c] \in Counted
      BY <1>0
    <3> DEFINE r1 == [queue[c] EXCEPT !.items = @ - 1]
    <3>2. r1 \in Counted
      BY <2>1, <3>1 DEF Counted
    <3> DEFINE r2 == [r1 EXCEPT !.getting = @ \cup {w}]
    <3>3. r2 \in Counted
      <4>1. \A r \in Counted : [r EXCEPT !.getting = @ \cup {w}] \in Counted
        BY DEF Counted
      <4> QED BY <3>2, <4>1
    <3>4. q = r2
      OBVIOUS
    <3> QED BY <3>3, <3>4
  <2>3. /\ Cardinality(queue[c].getting) \in Nat
        /\ Cardinality(queue[c].getting \cup {w}) = Cardinality(queue[c].getting) + 1
    BY <1>0, <2>1, GettingFinite DEF Counted
  <2>4. /\ q.items = queue[c].items - 1 /\ q.size = queue[c].size
        /\ q.putting = queue[c].putting /\ q.getting = queue[c].getting \cup {w}
    BY <1>0 DEF Counted
  <2>5. queue[c].items \in Int /\ queue[c].size \in Int /\ queue[c].putting \in Int
    BY <1>0 DEF Counted
  <2> HIDE DEF q
  <2>6. Lag(queue[c]) => Lag(q)
    BY <2>1, <2>3, <2>4, <2>5 DEF Lag
  <2> QED BY <1>0, <2>1, <2>2, <2>6, CounterChanged
<1>4. ASSUME NEW c \in Clusters, NEW w \in Workers, GetCounted(c, w) PROVE CounterInv'
  <2> DEFINE q == [queue[c] EXCEPT !.size = @ - 1, !.getting = @ \ {w}]
  <2>1. /\ queue' = [queue EXCEPT ![c] = q] /\ deaths' = deaths /\ w \in queue[c].getting
    BY <1>4 DEF GetCounted, lifecycle
  <2>2. q \in Counted
    <3>1. queue[c] \in Counted
      BY <1>0
    <3> DEFINE r1 == [queue[c] EXCEPT !.size = @ - 1]
    <3>2. r1 \in Counted
      BY <2>1, <3>1 DEF Counted
    <3> DEFINE r2 == [r1 EXCEPT !.getting = @ \ {w}]
    <3>3. r2 \in Counted
      <4>1. \A r \in Counted : [r EXCEPT !.getting = @ \ {w}] \in Counted
        BY DEF Counted
      <4> QED BY <3>2, <4>1
    <3>4. q = r2
      OBVIOUS
    <3> QED BY <3>3, <3>4
  <2>3. /\ Cardinality(queue[c].getting) \in Nat
        /\ Cardinality(queue[c].getting \ {w}) = Cardinality(queue[c].getting) - 1
    BY <1>0, <2>1, GettingFinite DEF Counted
  <2>4. /\ q.items = queue[c].items /\ q.size = queue[c].size - 1
        /\ q.putting = queue[c].putting /\ q.getting = queue[c].getting \ {w}
    BY <1>0 DEF Counted
  <2>5. queue[c].items \in Int /\ queue[c].size \in Int /\ queue[c].putting \in Int
    BY <1>0 DEF Counted
  <2> HIDE DEF q
  <2>6. Lag(queue[c]) => Lag(q)
    BY <2>1, <2>3, <2>4, <2>5 DEF Lag
  <2> QED BY <1>0, <2>1, <2>2, <2>6, CounterChanged
<1>5. ASSUME NEW c \in Clusters, CounterLost(c) PROVE CounterInv'
  <2>1. deaths' \in Nat /\ deaths' # 0
    BY <1>0, <1>5 DEF CounterLost
  <2>2. PICK q \in Counted : queue' = [queue EXCEPT ![c] = q]
    <3>1. CASE queue' = [queue EXCEPT ![c].putting = 0]
      BY <1>0, <3>1 DEF Counted
    <3>2. ASSUME NEW w \in queue[c].getting, queue' = [queue EXCEPT ![c].getting = @ \ {w}]
          PROVE  \E q \in Counted : queue' = [queue EXCEPT ![c] = q]
      BY <1>0, <3>2 DEF Counted
    <3> QED BY <1>5, <3>1, <3>2 DEF CounterLost
  <2> QED BY <2>1, <2>2, CounterChanged
<1>6. ASSUME UNCHANGED queue, deaths' = deaths \/ deaths' = deaths + 1 PROVE CounterInv'
  BY <1>6, CounterKept
<1>7. ASSUME NEW c \in Clusters,
             \/ start(c) \/ StartReturns(c) \/ stop(c) \/ StopReturns(c) \/ SentinelDies(c)
             \/ Sentinels(c) \/ LastStat(c) \/ Expire(c)
      PROVE  CounterInv'
  BY <1>6, <1>7 DEF start, StartReturns, stop, StopReturns, SentinelDies, Sentinels, Turn,
     StatBegins, StatLists, StatSet, LastStat, Expire, lifecycle
<1>8. CASE ListExpires \/ Reading
  BY <1>6, <1>8 DEF ListExpires, Reading, Open, Visit, Write, lifecycle
<1>9. CASE UNCHANGED vars
  BY <1>6, <1>9 DEF vars
<1> QED BY <1>1, <1>2, <1>3, <1>4, <1>5, <1>7, <1>8, <1>9 DEF Next, Counting

\* With the lag of its counter a queue that looks empty holds no more than the put
\* that has not been counted, for any number of workers that are getting.
THEOREM IdleIsIdle == Spec => []IdleHasNoBacklog
<1>1. CounterInv => IdleHasNoBacklog
  <2> SUFFICES ASSUME CounterInv, NEW c \in Clusters, status(c) = "Idle", deaths = 0
               PROVE  queue[c].items <= queue[c].putting
    BY DEF IdleHasNoBacklog
  <2>1. queue[c] \in Counted /\ Lag(queue[c])
    BY DEF CounterInv
  <2>2. ~(queue[c].size > 0)
    BY DEF status, empty
  <2>3. Cardinality(queue[c].getting) \in Nat
    BY <2>1, GettingFinite DEF Counted
  <2> QED BY <2>1, <2>2, <2>3 DEF Lag, Counted
<1> QED BY <1>1, CounterInit, CounterStep, PTL DEF Spec

-----------------------------------------------------------------------------
(* The end of a cluster. *)

\* What the sentinels' and the clusters' states are functions of.
EndTypes ==
  /\ cluster \in [Clusters -> [pc : {"new", "start", "running", "stopped", "raised"},
                               start_event : {"None", "clear", "set"},
                               stop_event : {"None", "clear", "set"}, stopping : BOOLEAN]]
  /\ DOMAIN sentinel = Clusters
  /\ \A c \in Clusters : DOMAIN sentinel[c] = {"pc", "step", "list"}

\* stop takes the events away when the sentinel has ended and not before, so that
\* only then can stop return or the start that it has interrupted raise.
EndInv ==
  /\ EndTypes
  /\ \A c \in Clusters :
       /\ (cluster[c].pc # "new" /\ cluster[c].start_event = "None") => ~Alive(c)
       /\ cluster[c].pc \in {"stopped", "raised"} => ~Alive(c)

LEMMA EndInit == Init => EndInv
BY DEF Init, EndInv, EndTypes, Alive

\* Who has ended stays so but for a start, and nobody is started twice.
LEMMA EndKept ==
  ASSUME EndInv, EndTypes',
         \A c \in Clusters :
           /\ Alive(c)' => Alive(c)
           /\ cluster'[c].pc = cluster[c].pc
           /\ cluster'[c].start_event \in {cluster[c].start_event, "set"}
  PROVE  EndInv'
BY DEF EndInv

LEMMA EndStep == EndInv /\ [Next]_vars => EndInv'
<1> SUFFICES ASSUME EndInv, [Next]_vars PROVE EndInv'
  OBVIOUS
<1>0. EndTypes
  BY DEF EndInv
<1>1. ASSUME NEW c \in Clusters, start(c) PROVE EndInv'
  BY <1>0, <1>1 DEF start, EndInv, EndTypes, Alive
<1>2. ASSUME NEW c \in Clusters, StartReturns(c) PROVE EndInv'
  BY <1>0, <1>2 DEF StartReturns, EndInv, EndTypes, Alive
<1>3. ASSUME NEW c \in Clusters, stop(c) PROVE EndInv'
  BY <1>0, <1>3, EndKept DEF stop, EndTypes, Alive
<1>4. ASSUME NEW c \in Clusters, StopReturns(c) PROVE EndInv'
  BY <1>0, <1>4 DEF StopReturns, Joined, EndInv, EndTypes, Alive
<1>5. ASSUME NEW c \in Clusters, SentinelDies(c) PROVE EndInv'
  BY <1>0, <1>5, EndKept DEF SentinelDies, EndTypes, Alive
<1>6. ASSUME NEW c \in Clusters, Turn(c) PROVE EndInv'
  BY <1>0, <1>6, EndKept DEF Turn, Save, EndTypes, Alive
<1>7. ASSUME NEW c \in Clusters, LastStat(c) \/ StatBegins(c) \/ StatLists(c) \/ StatSet(c)
      PROVE  EndInv'
  BY <1>0, <1>7, EndKept DEF LastStat, Save, StatBegins, StatLists, StatSet, lifecycle, EndTypes,
     Alive
<1>8. ASSUME UNCHANGED <<cluster, sentinel>> PROVE EndInv'
  BY <1>8 DEF EndInv, EndTypes, Alive
<1>9. ASSUME NEW c \in Clusters,
             Put(c) \/ CounterLost(c) \/ Counting(c) \/ Expire(c) \/ \E w \in Workers : Get(c, w)
      PROVE  EndInv'
  BY <1>8, <1>9 DEF Put, CounterLost, Counting, PutCounted, GetCounted, Expire, Get, lifecycle
<1>10. CASE ListExpires \/ Reading \/ UNCHANGED vars
  BY <1>8, <1>10 DEF ListExpires, Reading, Open, Visit, Write, lifecycle, vars
<1> QED
  BY <1>1, <1>2, <1>3, <1>4, <1>5, <1>6, <1>7, <1>9, <1>10 DEF Next, Sentinels

\* A call of stop returns only when the sentinel has ended, also when a signal
\* interrupts start and when the sentinel dies in between.
THEOREM StopReturnsAfterTheEnd == Spec => []StoppedIsDead
<1>1. EndInv => StoppedIsDead
  BY DEF EndInv, StoppedIsDead
<1> QED BY <1>1, EndInit, EndStep, PTL DEF Spec
=============================================================================
