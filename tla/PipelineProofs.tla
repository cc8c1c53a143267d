--------------------------- MODULE PipelineProofs ---------------------------
(***************************************************************************)
(* Theorems about Pipeline for all values of its constants.                *)
(*                                                                         *)
(* Its state is well typed, and a package leaves the broker for cause only.*)
(*                                                                         *)
(* With a RETRY that exceeds the time a package is in hand (PatientRetry): *)
(* for any packages, clusters and workers no package is in hand twice.     *)
(* Nothing then comes between what a monitor reads of a Task row and what  *)
(* it writes, so that a success stays one, what has left the broker is     *)
(* accounted for in the Task table, and MAX_ATTEMPTS limits the executions *)
(* of what does not succeed.                                               *)
(*                                                                         *)
(* Whatever RETRY is: leases may run out while a package is in hand,       *)
(* several clusters may execute it at once, and what a monitor has read of *)
(* a row may be old by the time it writes.  Still no row claims more       *)
(* attempts than were executed, and MAX_ATTEMPTS never gives up early.     *)
(***************************************************************************)
EXTENDS Pipeline, FiniteSetTheorems, SequenceTheorems, TLAPS

-----------------------------------------------------------------------------
(* Lemmas about queues. *)

\* Taking the head off a queue leaves a head and a queue of the same type.
LEMMA TakeHead ==
  ASSUME NEW S, NEW q \in Seq(S), q # <<>>
  PROVE  /\ Head(q) \in S /\ Tail(q) \in Seq(S)
         /\ Len(Tail(q)) = Len(q) - 1 /\ Head(q) = q[1] /\ 1 \in DOMAIN q
         /\ \A i \in DOMAIN Tail(q) : i + 1 \in DOMAIN q /\ Tail(q)[i] = q[i + 1]
  BY HeadTailProperties, EmptySeq

\* Putting an element at the end of a queue keeps the ones before it.
LEMMA PutLast ==
  ASSUME NEW S, NEW q \in Seq(S), NEW x \in S
  PROVE  /\ Append(q, x) \in Seq(S)
         /\ \A i \in DOMAIN Append(q, x) :
              Append(q, x)[i] = x \/ (i \in DOMAIN q /\ Append(q, x)[i] = q[i])
<1>1. Append(q, x) \in Seq(S) /\ Len(Append(q, x)) = Len(q) + 1
  BY AppendProperties
<1>2. /\ \A i \in 1 .. Len(q) : Append(q, x)[i] = q[i]
      /\ Append(q, x)[Len(q) + 1] = x
  BY AppendProperties
<1>3. DOMAIN Append(q, x) = 1 .. Len(q) + 1 /\ DOMAIN q = 1 .. Len(q) /\ Len(q) \in Nat
  BY <1>1, LenProperties
<1>4. QED BY <1>1, <1>2, <1>3

-----------------------------------------------------------------------------
(* Type correctness. *)

\* The pusher unpacks only while its batch has something left.
BatchNotEmpty == \A c \in Clusters : pusher[c].pc = "unpack" => pusher[c].batch # <<>>

TypeInv == TypeOK /\ BatchNotEmpty

LEMMA TypeInit == Init => TypeInv
  BY PipelineAssumption DEF Init, TypeInv, TypeOK, BatchNotEmpty, LeaseInit, LeaseTypeOK,
     PusherState, WorkerState, MonitorState, Row, NoRow, Polling, Idle, Waiting

LEMMA GoOnType ==
  ASSUME NEW b \in Seq(Packages)
  PROVE  GoOn(b) \in PusherState /\ (GoOn(b).pc = "unpack" => GoOn(b).batch # <<>>)
  BY DEF GoOn, PusherState

\* What the state of a process says about what it has in hand.
LEMMA InHandType ==
  /\ \A s \in PusherState : /\ s.batch \in Seq(Packages)
                            /\ s.pc = "put" => s.task \in Delivery
  /\ \A s \in WorkerState : /\ s.pc # "idle" => s.task \in Delivery
                            /\ s.pc = "report" => s.success \in BOOLEAN
  /\ \A s \in MonitorState : /\ s.pc # "get" => s.result \in Outcome
                             /\ s.pc = "store" => s.found \in Row
  BY DEF PusherState, WorkerState, MonitorState

LEMMA RemoveType ==
  ASSUME NEW S, LeaseTypeOK, Remove(S)
  PROVE  LeaseTypeOK'
  BY DEF LeaseTypeOK, Remove, Stored

LEMMA TypeNext == TypeInv /\ [Next]_vars => TypeInv'
<1> SUFFICES ASSUME TypeInv, [Next]_vars PROVE TypeInv'
  OBVIOUS
<1> USE DEF TypeInv, TypeOK, BatchNotEmpty
<1>1. ASSUME NEW p \in Packages, Submit(p) PROVE TypeInv'
  BY <1>1 DEF Submit, Enqueue, LeaseTypeOK, history
<1>2. ASSUME NEW p \in Packages, LeaseEnds(p) PROVE TypeInv'
  BY <1>2 DEF LeaseEnds, Expire, LeaseTypeOK, history
<1>3. ASSUME NEW c \in Clusters, PusherStep(c) PROVE TypeInv'
  <2>1. ASSUME NEW p \in Packages, DequeueOne(c, p) PROVE TypeInv'
    <3>1. pusher[c] \in [pc : {"dequeue", "unpack"}, batch : Seq(Packages)]
      BY <2>1 DEF DequeueOne, PusherState
    <3>2. Append(pusher[c].batch, p) \in Seq(Packages)
      BY <3>1, PutLast
    <3>3. [pusher[c] EXCEPT !.batch = Append(@, p)] \in PusherState
      BY <3>1, <3>2 DEF PusherState
    <3>4. QED BY <2>1, <3>3 DEF DequeueOne, Claim, LeaseTypeOK, history
  <2>2. CASE Dequeued(c)
    BY <2>2 DEF Dequeued, PusherState, brokerVars, history, LeaseTypeOK
  <2>3. CASE Reject(c)
    BY <2>3, TakeHead, GoOnType, RemoveType DEF Reject, PusherState, history
  <2>4. CASE Unpack(c)
    <3> DEFINE b == pusher[c].batch
    <3>1. b \in Seq(Packages) /\ b # <<>>
      BY <2>4, InHandType DEF Unpack
    <3>2. Head(b) \in Packages /\ Tail(b) \in Seq(Packages)
      BY <3>1, TakeHead
    <3>3. task[Head(b)] \in Row /\ attempt(Head(b)) \in Nat \ {0}
      <4>1. task[Head(b)] \in Row
        <5> HIDE DEF b
        <5> QED BY <3>2
      <4>2. task[Head(b)].attempt_count \in Nat
        BY <4>1 DEF Row
      <4> HIDE DEF b
      <4> QED BY <4>1, <4>2 DEF attempt
    <3>4. PICK n \in {1, attempt(Head(b))} :
            /\ faults' = IF n = attempt(Head(b)) THEN faults ELSE faults + 1
            /\ pusher' = [pusher EXCEPT ![c] =
                            [pc |-> "put", batch |-> Tail(b),
                             task |-> [id |-> Head(b), attempt |-> n]]]
      BY <2>4 DEF Unpack
    <3>5. [pc |-> "put", batch |-> Tail(b), task |-> [id |-> Head(b), attempt |-> n]] \in PusherState
      BY <3>2, <3>3, <3>4 DEF PusherState, Delivery
    <3>6. pusher' \in [Clusters -> PusherState] /\ BatchNotEmpty' /\ faults' \in Nat
      BY <3>4, <3>5
    <3>7. QED BY <2>4, <3>6 DEF Unpack, brokerVars, history, LeaseTypeOK
  <2>5. CASE Put(c)
    BY <2>5, PutLast, GoOnType DEF Put, PusherState, brokerVars, history, LeaseTypeOK
  <2>6. QED BY <1>3, <2>1, <2>2, <2>3, <2>4, <2>5 DEF PusherStep
<1>4. ASSUME NEW c \in Clusters, NEW w \in Workers, WorkerStep(c, w) PROVE TypeInv'
  <2>1. CASE Take(c, w)
    BY <2>1, TakeHead DEF Take, WorkerState, brokerVars, history, LeaseTypeOK
  <2>2. CASE Execute(c, w)
    <3> DEFINE d == worker[c][w].task
    <3>1. d \in Delivery /\ d.id \in Packages
      BY <2>2, InHandType DEF Execute, Delivery
    <3>2. PICK ok \in BOOLEAN :
            /\ worker' = [worker EXCEPT ![c][w] =
                            [pc |-> "report", task |-> d, success |-> ok]]
            /\ returned' = IF ok THEN [returned EXCEPT ![d.id] = @ + 1] ELSE returned
            /\ raised' = IF ok THEN raised ELSE [raised EXCEPT ![d.id] = @ + 1]
      BY <2>2 DEF Execute
    <3>3. [pc |-> "report", task |-> d, success |-> ok] \in WorkerState
      BY <3>1 DEF WorkerState
    <3>4. worker' \in [Clusters -> [Workers -> WorkerState]]
      BY <3>2, <3>3
    <3>5. returned' \in [Packages -> Nat] /\ raised' \in [Packages -> Nat]
      BY <3>1, <3>2
    <3>6. QED BY <2>2, <3>4, <3>5 DEF Execute, brokerVars, LeaseTypeOK
  <2>3. CASE Report(c, w)
    <3> DEFINE o == [id |-> worker[c][w].task.id, success |-> worker[c][w].success]
    <3>1. o \in Outcome
      BY <2>3, InHandType DEF Report, Delivery, Outcome
    <3>2. Append(resultQueue[c], o) \in Seq(Outcome)
      BY <3>1, PutLast
    <3>3. Idle \in WorkerState
      BY DEF Idle, WorkerState
    <3>4. QED BY <2>3, <3>2, <3>3 DEF Report, brokerVars, history, LeaseTypeOK
  <2>4. QED BY <1>4, <2>1, <2>2, <2>3 DEF WorkerStep
<1>5. ASSUME NEW c \in Clusters, MonitorStep(c) PROVE TypeInv'
  <2>1. CASE Get(c)
    BY <2>1, TakeHead DEF Get, MonitorState, brokerVars, history, LeaseTypeOK
  <2>2. CASE Skip(c)
    BY <2>2 DEF Skip, Saved, MonitorState, brokerVars, history, LeaseTypeOK
  <2>3. CASE Load(c)
    BY <2>3 DEF Load, MonitorState, Outcome, brokerVars, history, LeaseTypeOK
  <2>4. CASE Store(c)
    <3> DEFINE r == monitor[c].result
               row == task_obj(monitor[c].found, r)
    <3>1. r \in Outcome /\ monitor[c].found \in Row
      BY <2>4, InHandType DEF Store
    <3>2. row \in Row
      BY <3>1 DEF task_obj, Row, Outcome
    <3>3. \A pc \in {"exhausted", "ack"} : [pc |-> pc, result |-> r] \in MonitorState
      BY <3>1 DEF MonitorState
    <3>4. monitor' \in [Clusters -> MonitorState]
      <4>1. PICK pc \in {"exhausted", "ack"} :
              monitor' = [monitor EXCEPT ![c] = [pc |-> pc, result |-> r]]
        BY <2>4 DEF Store, Saved
      <4>2. QED BY <4>1, <3>3
    <3>5. task' \in [Packages -> Row]
      <4>1. task' = task \/ task' = [task EXCEPT ![r.id] = row]
        BY <2>4 DEF Store
      <4>2. r.id \in Packages
        BY <3>1 DEF Outcome
      <4> HIDE DEF row, r
      <4>3. QED BY <4>1, <4>2, <3>2
    <3>6. QED BY <2>4, <3>4, <3>5 DEF Store, brokerVars, history, LeaseTypeOK
  <2>5. CASE AckExhausted(c)
    BY <2>5, RemoveType DEF AckExhausted, Saved, MonitorState, history
  <2>6. CASE Ack(c)
    BY <2>6, RemoveType DEF Ack, Waiting, MonitorState, history
  <2>7. QED BY <1>5, <2>1, <2>2, <2>3, <2>4, <2>5, <2>6 DEF MonitorStep
<1>6. ASSUME NEW c \in Clusters, Failure(c) PROVE TypeInv'
  <2>1. CASE DatabaseError(c)
    <3>1. monitor[c].result \in Outcome
      BY <2>1, InHandType DEF DatabaseError
    <3>2. Saved(c) \in MonitorState /\ monitor[c].result.id \in Packages
      BY <3>1 DEF Saved, MonitorState, Outcome
    <3>3. QED BY <2>1, <3>2 DEF DatabaseError, Fault, brokerVars, LeaseTypeOK
  <2>2. CASE PusherDies(c)
    BY <2>2 DEF PusherDies, Fault, Polling, PusherState, brokerVars, history, LeaseTypeOK
  <2>3. CASE MonitorDies(c)
    BY <2>3 DEF MonitorDies, Fault, Waiting, MonitorState, brokerVars, history, LeaseTypeOK
  <2>4. CASE ClusterDies(c)
    BY <2>4 DEF ClusterDies, Fault, Polling, Idle, Waiting, PusherState, WorkerState,
       MonitorState, brokerVars, history, LeaseTypeOK
  <2>5. ASSUME NEW w \in Workers, WorkerDies(c, w) PROVE TypeInv'
    BY <2>5 DEF WorkerDies, Fault, Idle, WorkerState, brokerVars, history, LeaseTypeOK
  <2>6. QED BY <1>6, <2>1, <2>2, <2>3, <2>4, <2>5 DEF Failure
<1>7. CASE UNCHANGED vars
  BY <1>7 DEF vars, LeaseTypeOK
<1>8. QED BY <1>1, <1>2, <1>3, <1>4, <1>5, <1>6, <1>7 DEF Next

\* The type invariant of Pipeline, for any packages, clusters and workers.
THEOREM TypeCorrect == Spec => []TypeOK
<1>1. TypeInv => TypeOK BY DEF TypeInv
<1>2. QED BY <1>1, TypeInit, TypeNext, PTL DEF Spec
-----------------------------------------------------------------------------
(* A package leaves the broker for cause only. *)

\* An outcome is backed by an execution that ended that way.  This is what the
\* monitor relies on, so it must hold of every outcome on its way to it: in a
\* worker that is about to report, in the result queue and in the monitor.
Backed(r) == IF r.success THEN returned[r.id] > 0 ELSE raised[r.id] > 0

OutcomesBacked ==
  \A c \in Clusters :
    /\ \A w \in Workers : worker[c][w].pc = "report" =>
         Backed([id |-> worker[c][w].task.id, success |-> worker[c][w].success])
    /\ \A i \in DOMAIN resultQueue[c] : Backed(resultQueue[c][i])
    /\ monitor[c].pc # "get" => Backed(monitor[c].result)
    /\ monitor[c].pc = "exhausted" => MAX_ATTEMPTS > 0

CauseInv == TypeInv /\ OutcomesBacked /\ RemovedForCause

LEMMA CauseInit == Init => CauseInv
  BY TypeInit DEF Init, CauseInv, OutcomesBacked, RemovedForCause, LeaseInit, Idle, Waiting

\* A step that removes nothing, and touches no outcome but by dropping it.
LEMMA CauseKept ==
  ASSUME CauseInv, TypeInv',
         UNCHANGED <<returned, raised>>,
         \A p \in Packages : lease'[p] = "gone" => lease[p] = "gone",
         \A c \in Clusters :
           /\ \A w \in Workers :
                worker'[c][w] = worker[c][w] \/ worker'[c][w].pc # "report"
           /\ \A i \in DOMAIN resultQueue'[c] : \E j \in DOMAIN resultQueue[c] :
                resultQueue'[c][i] = resultQueue[c][j]
           /\ \/ monitor'[c] = monitor[c] \/ monitor'[c].pc = "get"
              \/ /\ monitor'[c].pc # "exhausted" /\ monitor[c].pc # "get"
                 /\ monitor'[c].result = monitor[c].result
  PROVE  CauseInv'
<1>1. RemovedForCause'
  BY DEF CauseInv, RemovedForCause
<1>2. OutcomesBacked'
  <2> SUFFICES ASSUME NEW c \in Clusters PROVE
         /\ \A w \in Workers : worker'[c][w].pc = "report" =>
              Backed([id |-> worker[c][w].task.id, success |-> worker[c][w].success])'
         /\ \A i \in DOMAIN resultQueue'[c] : Backed(resultQueue[c][i])'
         /\ monitor'[c].pc # "get" => Backed(monitor[c].result)'
         /\ monitor'[c].pc = "exhausted" => MAX_ATTEMPTS > 0
    BY DEF OutcomesBacked
  <2>1. \A w \in Workers : worker'[c][w].pc = "report" =>
          Backed([id |-> worker[c][w].task.id, success |-> worker[c][w].success])'
    BY DEF CauseInv, OutcomesBacked, Backed
  <2>2. \A i \in DOMAIN resultQueue'[c] : Backed(resultQueue[c][i])'
    BY DEF CauseInv, OutcomesBacked, Backed
  <2>3. monitor'[c].pc # "get" => Backed(monitor[c].result)'
    BY DEF CauseInv, OutcomesBacked, Backed
  <2>4. monitor'[c].pc = "exhausted" => MAX_ATTEMPTS > 0
    BY DEF CauseInv, OutcomesBacked
  <2>5. QED BY <2>1, <2>2, <2>3, <2>4
<1>3. QED BY <1>1, <1>2 DEF CauseInv

\* Removing a set of packages with a cause keeps RemovedForCause.
LEMMA RemoveForCause ==
  ASSUME CauseInv, NEW S, Remove(S), UNCHANGED <<returned, raised>>,
         \A p \in S \cap Packages :
           \/ p \in Tampered \/ returned[p] > 0
           \/ raised[p] > 0 /\ (p \in AckFailures \/ MAX_ATTEMPTS > 0)
  PROVE  RemovedForCause'
  BY DEF CauseInv, RemovedForCause, Remove, TypeInv, TypeOK, LeaseTypeOK

LEMMA CauseNext == CauseInv /\ [Next]_vars => CauseInv'
<1> SUFFICES ASSUME CauseInv, [Next]_vars PROVE CauseInv'
  OBVIOUS
<1>0. TypeInv /\ TypeInv' /\ OutcomesBacked /\ RemovedForCause /\ TypeOK
  BY TypeNext DEF CauseInv, TypeInv
<1>1. ASSUME NEW p \in Packages, Submit(p) PROVE CauseInv'
  BY <1>0, <1>1, CauseKept DEF Submit, Enqueue, history, TypeOK, LeaseTypeOK
<1>2. ASSUME NEW p \in Packages, LeaseEnds(p) PROVE CauseInv'
  BY <1>0, <1>2, CauseKept DEF LeaseEnds, Expire, history
<1>3. ASSUME NEW c \in Clusters, PusherStep(c) PROVE CauseInv'
  <2>1. ASSUME NEW p \in Packages, DequeueOne(c, p) PROVE CauseInv'
    <3>1. \A q \in Packages : lease'[q] = "gone" => lease[q] = "gone"
      BY <1>0, <2>1, ClustersAssumption DEF DequeueOne, Claim, TypeOK, LeaseTypeOK
    <3>2. QED BY <1>0, <2>1, <3>1, CauseKept DEF DequeueOne, history
  <2>2. CASE Dequeued(c)
    BY <1>0, <2>2, CauseKept DEF Dequeued, brokerVars, history
  <2>3. CASE Reject(c)
    <3>1. RemovedForCause'
      BY <2>3, RemoveForCause DEF Reject, history
    <3>2. OutcomesBacked'
      BY <1>0, <2>3 DEF OutcomesBacked, Backed, Reject, history
    <3>3. QED BY <1>0, <3>1, <3>2 DEF CauseInv
  <2>4. CASE Unpack(c)
    BY <1>0, <2>4, CauseKept DEF Unpack, brokerVars, history
  <2>5. CASE Put(c)
    BY <1>0, <2>5, CauseKept DEF Put, brokerVars, history
  <2>6. QED BY <1>3, <2>1, <2>2, <2>3, <2>4, <2>5 DEF PusherStep
<1>4. ASSUME NEW c \in Clusters, NEW w \in Workers, WorkerStep(c, w) PROVE CauseInv'
  <2>1. CASE Take(c, w)
    <3>1. \A d \in Clusters, v \in Workers :
            worker'[d][v] = worker[d][v] \/ worker'[d][v].pc # "report"
      BY <1>0, <2>1 DEF Take, TypeOK
    <3>2. QED BY <1>0, <2>1, <3>1, CauseKept DEF Take, brokerVars, history
  <2>2. CASE Execute(c, w)
    <3> DEFINE d == worker[c][w].task
    <3>1. d \in Delivery /\ d.id \in Packages
      BY <1>0, <2>2, InHandType DEF Execute, Delivery, TypeOK
    <3>2. PICK ok \in BOOLEAN :
            /\ worker' = [worker EXCEPT ![c][w] =
                            [pc |-> "report", task |-> d, success |-> ok]]
            /\ returned' = IF ok THEN [returned EXCEPT ![d.id] = @ + 1] ELSE returned
            /\ raised' = IF ok THEN raised ELSE [raised EXCEPT ![d.id] = @ + 1]
      BY <2>2 DEF Execute
    <3>3. /\ \A p \in Packages : returned'[p] >= returned[p] /\ raised'[p] >= raised[p]
          /\ IF ok THEN returned'[d.id] > 0 ELSE raised'[d.id] > 0
      BY <1>0, <3>1, <3>2 DEF TypeOK
    <3>4. returned' \in [Packages -> Nat] /\ raised' \in [Packages -> Nat]
      BY <1>0 DEF TypeInv, TypeOK
    <3>6. OutcomesBacked'
      <4> SUFFICES ASSUME NEW e \in Clusters PROVE
            /\ \A v \in Workers : worker'[e][v].pc = "report" =>
                 Backed([id |-> worker[e][v].task.id, success |-> worker[e][v].success])'
            /\ \A i \in DOMAIN resultQueue'[e] : Backed(resultQueue[e][i])'
            /\ monitor'[e].pc # "get" => Backed(monitor[e].result)'
            /\ monitor'[e].pc = "exhausted" => MAX_ATTEMPTS > 0
        BY DEF OutcomesBacked
      <4>1. ASSUME NEW v \in Workers, worker'[e][v].pc = "report"
            PROVE  Backed([id |-> worker[e][v].task.id, success |-> worker[e][v].success])'
        <5>1. CASE e = c /\ v = w
          <6>1. worker'[e][v] = [pc |-> "report", task |-> d, success |-> ok]
            BY <1>0, <3>2, <5>1 DEF TypeOK
          <6>2. QED BY <6>1, <3>3 DEF Backed
        <5>2. CASE ~(e = c /\ v = w)
          <6>1. worker'[e][v] = worker[e][v]
            BY <1>0, <3>2, <5>2 DEF TypeOK
          <6>2. [id |-> worker[e][v].task.id, success |-> worker[e][v].success] \in Outcome
            <7>1. worker[e][v] \in WorkerState
              BY <1>0 DEF TypeOK
            <7>2. worker[e][v].task \in Delivery /\ worker[e][v].success \in BOOLEAN
              BY <7>1, <4>1, <6>1, InHandType
            <7>3. QED BY <7>2 DEF Delivery, Outcome
          <6>3. Backed([id |-> worker[e][v].task.id, success |-> worker[e][v].success])
            BY <1>0, <4>1, <6>1 DEF OutcomesBacked
          <6>4. returned'[worker[e][v].task.id] >= returned[worker[e][v].task.id]
                /\ raised'[worker[e][v].task.id] >= raised[worker[e][v].task.id]
            BY <3>3, <6>2 DEF Outcome
          <6>5. QED BY <6>1, <6>2, <6>3, <6>4, <3>4, <1>0 DEF Backed, Outcome, TypeOK
        <5>3. QED BY <5>1, <5>2
      <4>2. ASSUME NEW i \in DOMAIN resultQueue'[e] PROVE Backed(resultQueue[e][i])'
        <5>1. resultQueue' = resultQueue /\ resultQueue[e] \in Seq(Outcome)
          BY <1>0, <2>2 DEF Execute, TypeOK
        <5>2. resultQueue[e][i] \in Outcome /\ Backed(resultQueue[e][i])
          BY <1>0, <5>1, ElementOfSeq DEF OutcomesBacked
        <5>3. resultQueue[e][i].id \in Packages
          BY <5>2 DEF Outcome
        <5>4. /\ returned'[resultQueue[e][i].id] >= returned[resultQueue[e][i].id]
              /\ raised'[resultQueue[e][i].id] >= raised[resultQueue[e][i].id]
          BY <3>3, <5>3
        <5>5. /\ returned[resultQueue[e][i].id] \in Nat /\ returned'[resultQueue[e][i].id] \in Nat
              /\ raised[resultQueue[e][i].id] \in Nat /\ raised'[resultQueue[e][i].id] \in Nat
          BY <1>0, <3>4, <5>3 DEF TypeOK
        <5>6. QED BY <5>1, <5>2, <5>4, <5>5 DEF Backed
      <4>3. monitor'[e].pc # "get" => Backed(monitor[e].result)'
        <5>1. monitor' = monitor
          BY <2>2 DEF Execute
        <5>2. monitor[e].pc # "get" => monitor[e].result \in Outcome /\ Backed(monitor[e].result)
          BY <1>0, InHandType DEF OutcomesBacked, TypeOK
        <5>3. QED BY <5>1, <5>2, <3>3, <3>4, <1>0 DEF Backed, Outcome, TypeOK
      <4>4. monitor'[e].pc = "exhausted" => MAX_ATTEMPTS > 0
        BY <1>0, <2>2 DEF Execute, OutcomesBacked
      <4>5. QED BY <4>1, <4>2, <4>3, <4>4
    <3>7. RemovedForCause'
      BY <1>0, <2>2, <3>3, <3>4 DEF Execute, RemovedForCause, brokerVars, TypeOK
    <3>8. QED BY <1>0, <3>6, <3>7 DEF CauseInv
  <2>3. CASE Report(c, w)
    <3> DEFINE o == [id |-> worker[c][w].task.id, success |-> worker[c][w].success]
    <3>1. o \in Outcome /\ Backed(o)
      BY <1>0, <2>3, InHandType DEF Report, Delivery, Outcome, TypeOK, OutcomesBacked
    <3>2. \A i \in DOMAIN Append(resultQueue[c], o) :
            \/ Append(resultQueue[c], o)[i] = o
            \/ i \in DOMAIN resultQueue[c] /\ Append(resultQueue[c], o)[i] = resultQueue[c][i]
      BY <1>0, <3>1, PutLast DEF TypeOK
    <3>3. /\ resultQueue' = [resultQueue EXCEPT ![c] = Append(@, o)]
          /\ worker' = [worker EXCEPT ![c][w] = Idle]
          /\ UNCHANGED <<lease, monitor, returned, raised>>
      BY <2>3 DEF Report, brokerVars, history
    <3> HIDE DEF o
    <3>4. \A e \in Clusters : \A i \in DOMAIN resultQueue'[e] : Backed(resultQueue'[e][i])
      BY <1>0, <3>1, <3>2, <3>3 DEF OutcomesBacked, TypeOK
    <3>5. OutcomesBacked'
      BY <1>0, <3>3, <3>4 DEF OutcomesBacked, Backed, Idle, TypeOK
    <3>6. RemovedForCause'
      BY <1>0, <3>3 DEF RemovedForCause
    <3>7. QED BY <1>0, <3>5, <3>6 DEF CauseInv
  <2>4. QED BY <1>4, <2>1, <2>2, <2>3 DEF WorkerStep
<1>5. ASSUME NEW c \in Clusters, MonitorStep(c) PROVE CauseInv'
  <2>1. CASE Get(c)
    <3>1. /\ Head(resultQueue[c]) = resultQueue[c][1] /\ 1 \in DOMAIN resultQueue[c]
          /\ \A i \in DOMAIN Tail(resultQueue[c]) :
               i + 1 \in DOMAIN resultQueue[c] /\ Tail(resultQueue[c])[i] = resultQueue[c][i + 1]
      BY <1>0, <2>1, TakeHead DEF Get, TypeOK
    <3>2. OutcomesBacked'
      BY <1>0, <2>1, <3>1 DEF Get, OutcomesBacked, Backed, history, TypeOK
    <3>3. RemovedForCause'
      BY <1>0, <2>1 DEF Get, RemovedForCause, brokerVars, history
    <3>4. QED BY <1>0, <3>2, <3>3 DEF CauseInv
  <2>2. CASE Skip(c)
    BY <1>0, <2>2, CauseKept DEF Skip, Saved, brokerVars, history, TypeOK
  <2>3. CASE Load(c)
    BY <1>0, <2>3, CauseKept DEF Load, brokerVars, history, TypeOK
  <2>4. CASE Store(c)
    <3>1. PICK pc \in {"exhausted", "ack"} :
            /\ monitor' = [monitor EXCEPT ![c] = [pc |-> pc, result |-> monitor[c].result]]
            /\ pc = "exhausted" => MAX_ATTEMPTS > 0
      BY <2>4 DEF Store, Saved, Exhausted
    <3>2. monitor[c].pc # "get" /\ UNCHANGED <<lease, worker, resultQueue, returned, raised>>
      BY <2>4 DEF Store, brokerVars, history
    <3>3. OutcomesBacked'
      BY <1>0, <3>1, <3>2 DEF OutcomesBacked, Backed, TypeOK
    <3>4. RemovedForCause'
      BY <1>0, <3>2 DEF RemovedForCause
    <3>5. QED BY <1>0, <3>3, <3>4 DEF CauseInv
  <2>5. CASE AckExhausted(c)
    <3>1. RemovedForCause'
      BY <1>0, <2>5, RemoveForCause DEF AckExhausted, Saved, OutcomesBacked, Backed, history
    <3>2. OutcomesBacked'
      BY <1>0, <2>5 DEF AckExhausted, Saved, OutcomesBacked, Backed, history, TypeOK
    <3>3. QED BY <1>0, <3>1, <3>2 DEF CauseInv
  <2>6. CASE Ack(c)
    <3>1. RemovedForCause'
      BY <1>0, <2>6, RemoveForCause DEF Ack, Waiting, Conclusive, OutcomesBacked, Backed, history
    <3>2. OutcomesBacked'
      BY <1>0, <2>6 DEF Ack, Waiting, Conclusive, OutcomesBacked, Backed, history, TypeOK
    <3>3. QED BY <1>0, <3>1, <3>2 DEF CauseInv
  <2>7. QED BY <1>5, <2>1, <2>2, <2>3, <2>4, <2>5, <2>6 DEF MonitorStep
<1>6. ASSUME NEW c \in Clusters, Failure(c) PROVE CauseInv'
  <2>1. CASE DatabaseError(c)
    BY <1>0, <2>1, CauseKept DEF DatabaseError, Saved, brokerVars, TypeOK
  <2>2. CASE PusherDies(c)
    BY <1>0, <2>2, CauseKept DEF PusherDies, brokerVars, history
  <2>3. CASE MonitorDies(c)
    BY <1>0, <2>3, CauseKept DEF MonitorDies, Waiting, brokerVars, history, TypeOK
  <2>4. CASE ClusterDies(c)
    BY <1>0, <2>4, CauseKept DEF ClusterDies, Idle, Waiting, brokerVars, history, TypeOK
  <2>5. ASSUME NEW w \in Workers, WorkerDies(c, w) PROVE CauseInv'
    BY <1>0, <2>5, CauseKept DEF WorkerDies, Idle, brokerVars, history, TypeOK
  <2>6. QED BY <1>6, <2>1, <2>2, <2>3, <2>4, <2>5 DEF Failure
<1>7. CASE UNCHANGED vars
  BY <1>0, <1>7, CauseKept DEF vars
<1>8. QED BY <1>1, <1>2, <1>3, <1>4, <1>5, <1>6, <1>7 DEF Next

\* RemovedForCause holds of every run, for any number of clusters and workers.
THEOREM RemovedForCauseAlways == Spec => []RemovedForCause
<1>1. CauseInv => RemovedForCause BY DEF CauseInv
<1>2. QED BY <1>1, CauseInit, CauseNext, PTL DEF Spec

-----------------------------------------------------------------------------
(* Places. *)

Kinds == {"batch", "put", "task", "worker", "result", "monitor"}
Slots == Nat \cup Workers

\* A copy of p is in slot i of the place of kind k in cluster c.
At(k, c, i, p) ==
  \/ k = "batch" /\ i \in DOMAIN pusher[c].batch /\ pusher[c].batch[i] = p
  \/ k = "put" /\ i = 0 /\ pusher[c].pc = "put" /\ pusher[c].task.id = p
  \/ k = "task" /\ i \in DOMAIN taskQueue[c] /\ taskQueue[c][i].id = p
  \/ k = "worker" /\ i \in Workers /\ InWorker(c, i, p)
  \/ k = "result" /\ i \in DOMAIN resultQueue[c] /\ resultQueue[c][i].id = p
  \/ k = "monitor" /\ i = 0 /\ InMonitor(c, p)

Nowhere(p) == \A k \in Kinds, c \in Clusters, i \in Slots : ~At(k, c, i, p)

\* One copy at most; none of a package that is not leased; and what is removed from
\* the broker can only be where the monitor is through with it.
Once(p) == \A k, l \in Kinds, c, d \in Clusters, i, j \in Slots :
             At(k, c, i, p) /\ At(l, d, j, p) => k = l /\ c = d /\ i = j

AckOnly(p) == \A k \in Kinds, c \in Clusters, i \in Slots :
                At(k, c, i, p) => k = "monitor" /\ monitor[c].pc = "ack"

PlaceInv(p) == /\ Once(p)
               /\ lease[p] \in {"new", "free"} => Nowhere(p)
               /\ lease[p] = "gone" => AckOnly(p)

OnceInv == TypeInv /\ \A p \in Packages : PlaceInv(p)

-----------------------------------------------------------------------------
(* How copies move. *)

\* A monitor that is through with an outcome stays so as long as it has it.
Through(k, c) == k = "monitor" /\ monitor[c].pc = "ack" => monitor'[c].pc = "ack"

\* Every copy of p was where it is.
Stays(p) == \A k \in Kinds, c \in Clusters, i \in Slots :
              At(k, c, i, p)' => At(k, c, i, p) /\ Through(k, c)

\* The one in slot s of place k0 in c0 may have gone to slot t of place k1.
Handed(p, c0, k0, s, k1, t) ==
  \A k \in Kinds, c \in Clusters, i \in Slots : At(k, c, i, p)' =>
    \/ k = k1 /\ c = c0 /\ i = t /\ At(k0, c0, s, p)
    \/ ~(k = k0 /\ c = c0 /\ i = s) /\ At(k, c, i, p) /\ Through(k, c)

\* The head of queue k0 in c0 may have gone to slot t of place k1, the others have
\* moved up.
Shifted(p, c0, k0, k1, t) ==
  \A k \in Kinds, c \in Clusters, i \in Slots : At(k, c, i, p)' =>
    \/ k = k1 /\ c = c0 /\ i = t /\ At(k0, c0, 1, p)
    \/ ~(k = k0 /\ c = c0) /\ At(k, c, i, p) /\ Through(k, c)
    \/ k = k0 /\ c = c0 /\ i \in Nat \ {0} /\ At(k0, c0, i + 1, p)

LEMMA Staying ==
  ASSUME NEW p \in Packages, PlaceInv(p), lease'[p] = lease[p], Stays(p)
  PROVE  PlaceInv(p)'
BY DEF PlaceInv, Once, Nowhere, AckOnly, Stays, Through

LEMMA Handing ==
  ASSUME NEW p \in Packages, PlaceInv(p), lease'[p] = lease[p],
         NEW c0 \in Clusters, NEW k0 \in Kinds \ {"monitor"}, NEW k1, NEW s \in Slots, NEW t,
         Handed(p, c0, k0, s, k1, t)
  PROVE  PlaceInv(p)'
<1>1. Once(p)'
  BY DEF PlaceInv, Once, Handed
<1>2. lease'[p] \in {"new", "free"} => Nowhere(p)'
  BY DEF PlaceInv, Nowhere, Handed
<1>3. lease'[p] = "gone" => AckOnly(p)'
  BY DEF PlaceInv, AckOnly, Handed, Through
<1> QED BY <1>1, <1>2, <1>3 DEF PlaceInv

LEMMA Shifting ==
  ASSUME NEW p \in Packages, PlaceInv(p), lease'[p] = lease[p],
         NEW c0 \in Clusters, NEW k0 \in Kinds \ {"monitor"}, NEW k1, NEW t,
         Shifted(p, c0, k0, k1, t)
  PROVE  PlaceInv(p)'
<1>0. \A i \in Nat : i + 1 \in Slots /\ 1 \in Slots
  BY DEF Slots
<1>1. Once(p)'
  <2> SUFFICES ASSUME NEW k \in Kinds, NEW l \in Kinds, NEW c \in Clusters, NEW d \in Clusters,
                      NEW i \in Slots, NEW j \in Slots, At(k, c, i, p)', At(l, d, j, p)'
               PROVE  k = l /\ c = d /\ i = j
    BY DEF Once
  <2> QED BY <1>0 DEF PlaceInv, Once, Shifted
<1>2. lease'[p] \in {"new", "free"} => Nowhere(p)'
  BY <1>0 DEF PlaceInv, Nowhere, Shifted
<1>3. lease'[p] = "gone" => AckOnly(p)'
  BY <1>0 DEF PlaceInv, AckOnly, Shifted, Through
<1> QED BY <1>1, <1>2, <1>3 DEF PlaceInv

\* What is nowhere satisfies the invariant whatever its lease.
LEMMA Vanishing == ASSUME NEW p \in Packages, Nowhere(p)' PROVE PlaceInv(p)'
BY DEF PlaceInv, Once, Nowhere, AckOnly

-----------------------------------------------------------------------------
(* Each step moves copies in one of these ways. *)

LEMMA QueueSlots ==
  ASSUME NEW S, NEW q \in Seq(S)
  PROVE  /\ DOMAIN q \subseteq Nat \ {0} /\ DOMAIN q = 1..Len(q) /\ Len(q) \in Nat
         /\ \A x \in S : /\ DOMAIN Append(q, x) = 1..(Len(q) + 1)
                         /\ Append(q, x)[Len(q) + 1] = x
                         /\ \A j \in 1..Len(q) : Append(q, x)[j] = q[j]
<1>1. DOMAIN q = 1..Len(q) /\ Len(q) \in Nat
  BY LenProperties
<1>2. ASSUME NEW x \in S
      PROVE  /\ DOMAIN Append(q, x) = 1..(Len(q) + 1)
             /\ Append(q, x)[Len(q) + 1] = x
             /\ \A j \in 1..Len(q) : Append(q, x)[j] = q[j]
  BY AppendProperties, LenProperties
<1> QED BY <1>1, <1>2

\* A step that leaves all places as they are, but for what a monitor does.
LEMMA Unmoved ==
  ASSUME UNCHANGED <<pusher, taskQueue, worker, resultQueue>>,
         \A c \in Clusters : \/ monitor'[c] = monitor[c]
                             \/ /\ monitor[c].pc \notin {"get", "ack"}
                                /\ monitor'[c].result = monitor[c].result
  PROVE  \A p \in Packages : Stays(p)
BY DEF Stays, At, InWorker, InMonitor, Through

\* A process or a cluster dies, or lets go of what it has in hand.
LEMMA Dropped ==
  ASSUME TypeInv,
         \A c \in Clusters :
           /\ pusher'[c] = pusher[c] \/ pusher'[c] = Polling
           /\ taskQueue'[c] = taskQueue[c] \/ taskQueue'[c] = <<>>
           /\ resultQueue'[c] = resultQueue[c] \/ resultQueue'[c] = <<>>
           /\ monitor'[c] = monitor[c] \/ monitor'[c] = Waiting
           /\ \A w \in Workers : worker'[c][w] = worker[c][w] \/ worker'[c][w] = Idle
  PROVE  \A p \in Packages : Stays(p)
<1> SUFFICES ASSUME NEW p \in Packages, NEW k \in Kinds, NEW c \in Clusters, NEW i \in Slots,
                    At(k, c, i, p)'
             PROVE  At(k, c, i, p) /\ Through(k, c)
  BY DEF Stays
<1>0. DOMAIN << >> = {}
  OBVIOUS
<1>1. CASE k \in {"batch", "put"}
  BY <1>0, <1>1 DEF At, Polling, Through
<1>2. CASE k \in {"task", "result"}
  BY <1>0, <1>2 DEF At, Through
<1>3. CASE k = "worker"
  BY <1>3 DEF At, InWorker, Idle, Through
<1>4. CASE k = "monitor"
  BY <1>4 DEF At, InMonitor, Waiting, Through
<1> QED BY <1>1, <1>2, <1>3, <1>4 DEF Kinds

LEMMA DequeueMoves ==
  ASSUME TypeInv, NEW c \in Clusters, NEW q \in Packages, DequeueOne(c, q)
  PROVE  /\ \A p \in Packages \ {q} : Stays(p)
         /\ \A k \in Kinds, d \in Clusters, i \in Slots : At(k, d, i, q)' =>
              \/ At(k, d, i, q)
              \/ k = "batch" /\ d = c /\ i = Len(pusher[c].batch) + 1
<1> DEFINE b == pusher[c].batch
<1>1. b \in Seq(Packages) /\ pusher[c].pc = "dequeue"
  BY InHandType DEF DequeueOne, TypeInv, TypeOK
<1>2. /\ UNCHANGED <<taskQueue, worker, resultQueue, monitor>>
      /\ \A d \in Clusters : d # c => pusher'[d] = pusher[d]
      /\ pusher'[c].batch = Append(b, q) /\ pusher'[c].pc = "dequeue"
  BY DEF DequeueOne, TypeInv, TypeOK, PusherState
<1> HIDE DEF b
<1>3. ASSUME NEW p \in Packages, NEW k \in Kinds, NEW d \in Clusters, NEW i \in Slots,
             At(k, d, i, p)'
      PROVE  \/ At(k, d, i, p) /\ Through(k, d)
             \/ k = "batch" /\ d = c /\ i = Len(b) + 1 /\ p = q
  <2>1. CASE k = "batch" /\ d = c
    <3>1. i \in 1..(Len(b) + 1) /\ Append(b, q)[i] = p
      BY <1>1, <1>2, <1>3, <2>1, QueueSlots DEF At
    <3>2. CASE i = Len(b) + 1
      BY <1>1, <2>1, <3>1, <3>2, QueueSlots
    <3>3. CASE i \in 1..Len(b)
      BY <1>1, <2>1, <3>1, <3>3, QueueSlots DEF At, Through, b
    <3> QED BY <1>1, <3>1, <3>2, <3>3, QueueSlots
  <2>2. CASE k = "batch" /\ d # c
    BY <1>2, <1>3, <2>2 DEF At, Through
  <2>3. CASE k # "batch"
    BY <1>1, <1>2, <1>3, <2>3 DEF At, Through, InWorker, InMonitor
  <2> QED BY <2>1, <2>2, <2>3
<1> QED BY <1>3 DEF Stays, b

LEMMA PusherMoves ==
  ASSUME TypeInv, NEW c \in Clusters, NEW p \in Packages
  PROVE  /\ Dequeued(c) => Stays(p)
         /\ Reject(c) => Shifted(p, c, "batch", "none", 0)
         /\ Unpack(c) => Shifted(p, c, "batch", "put", 0)
         /\ Put(c) => Handed(p, c, "put", 0, "task", Len(taskQueue[c]) + 1)
<1> DEFINE b == pusher[c].batch
<1>1. b \in Seq(Packages)
  BY InHandType DEF TypeInv, TypeOK
<1>2. CASE Dequeued(c)
  <2>1. /\ UNCHANGED <<taskQueue, worker, resultQueue, monitor>>
        /\ \A d \in Clusters : d # c => pusher'[d] = pusher[d]
        /\ pusher'[c].batch = b /\ pusher'[c].pc = "unpack"
    BY <1>2 DEF Dequeued, TypeInv, TypeOK, PusherState
  <2> HIDE DEF b
  <2>2. ASSUME NEW k \in Kinds, NEW d \in Clusters, NEW i \in Slots, At(k, d, i, p)'
        PROVE  At(k, d, i, p) /\ Through(k, d)
    BY <2>1, <2>2 DEF At, InWorker, InMonitor, Through, b
  <2> QED BY <1>2, <2>2 DEF Stays, Dequeued, Reject, Unpack, Put
<1>3. ASSUME Reject(c) \/ Unpack(c),
             NEW k \in Kinds, NEW d \in Clusters, NEW i \in Slots, At(k, d, i, p)'
      PROVE  \/ k = "put" /\ d = c /\ i = 0 /\ At("batch", c, 1, p) /\ Unpack(c)
             \/ ~(k = "batch" /\ d = c) /\ At(k, d, i, p) /\ Through(k, d)
             \/ k = "batch" /\ d = c /\ i \in Nat \ {0} /\ At("batch", c, i + 1, p)
  <2>0. b # << >>
    BY <1>3 DEF Reject, Unpack, TypeInv, BatchNotEmpty
  <2>1. /\ UNCHANGED <<taskQueue, worker, resultQueue, monitor>>
        /\ \A e \in Clusters : e # c => pusher'[e] = pusher[e]
        /\ pusher'[c].batch = Tail(b)
        /\ \/ pusher'[c].pc # "put"
           \/ Unpack(c) /\ pusher'[c].task.id = Head(b)
    <3>1. CASE Reject(c)
      BY <3>1 DEF Reject, GoOn, TypeInv, TypeOK
    <3>2. CASE Unpack(c)
      <4>1. /\ UNCHANGED <<taskQueue, worker, resultQueue, monitor>>
            /\ \E n \in {1, attempt(Head(b))} :
                 pusher' = [pusher EXCEPT ![c] =
                              [pc |-> "put", batch |-> Tail(b),
                               task |-> [id |-> Head(b), attempt |-> n]]]
        BY <3>2 DEF Unpack
      <4> QED BY <3>2, <4>1 DEF TypeInv, TypeOK
    <3> QED BY <1>3, <3>1, <3>2
  <2>2. /\ Head(b) = b[1] /\ 1 \in DOMAIN b
        /\ \A j \in DOMAIN Tail(b) : /\ j \in Nat \ {0}
                                     /\ j + 1 \in DOMAIN b /\ Tail(b)[j] = b[j + 1]
    BY <1>1, <2>0, TakeHead, QueueSlots
  <2> HIDE DEF b
  <2>3. CASE k = "batch" /\ d = c
    BY <1>3, <2>1, <2>2, <2>3 DEF At, b
  <2>4. CASE k = "put" /\ d = c
    BY <1>3, <2>1, <2>2, <2>4 DEF At, b
  <2>5. CASE d # c \/ k \notin {"batch", "put"}
    BY <1>3, <2>1, <2>5 DEF At, InWorker, InMonitor, Through
  <2> QED BY <2>3, <2>4, <2>5
<1>4. Reject(c) => Shifted(p, c, "batch", "none", 0)
  <2>1. Reject(c) => ~Unpack(c)
    BY DEF Reject, Unpack
  <2> QED BY <1>3, <2>1 DEF Shifted
<1>5. Unpack(c) => Shifted(p, c, "batch", "put", 0)
  BY <1>3 DEF Shifted
<1>6. CASE Put(c)
  <2> DEFINE q == taskQueue[c]
             x == pusher[c].task
  <2>1. q \in Seq(Delivery) /\ x \in Delivery
    BY <1>6, InHandType DEF Put, TypeInv, TypeOK
  <2>2. /\ UNCHANGED <<worker, resultQueue, monitor>>
        /\ \A e \in Clusters : e # c => pusher'[e] = pusher[e] /\ taskQueue'[e] = taskQueue[e]
        /\ pusher'[c].batch = b /\ pusher'[c].pc # "put" /\ pusher[c].pc = "put"
        /\ taskQueue'[c] = Append(q, x)
    BY <1>6 DEF Put, GoOn, TypeInv, TypeOK
  <2>3. /\ DOMAIN Append(q, x) = 1..(Len(q) + 1) /\ Append(q, x)[Len(q) + 1] = x
        /\ \A j \in 1..Len(q) : Append(q, x)[j] = q[j]
        /\ DOMAIN q = 1..Len(q) /\ Len(q) \in Nat
    BY <2>1, QueueSlots
  <2> HIDE DEF q, b, x
  <2>4. ASSUME NEW k \in Kinds, NEW d \in Clusters, NEW i \in Slots, At(k, d, i, p)'
        PROVE  \/ k = "task" /\ d = c /\ i = Len(q) + 1 /\ At("put", c, 0, p)
               \/ ~(k = "put" /\ d = c /\ i = 0) /\ At(k, d, i, p) /\ Through(k, d)
    <3>1. CASE k = "task" /\ d = c
      <4>1. i \in 1..(Len(q) + 1) /\ Append(q, x)[i].id = p
        BY <2>2, <2>3, <2>4, <3>1 DEF At
      <4>2. CASE i = Len(q) + 1
        BY <2>2, <2>3, <3>1, <4>1, <4>2 DEF At, x
      <4>3. CASE i \in 1..Len(q)
        BY <2>3, <3>1, <4>1, <4>3 DEF At, Through, q
      <4> QED BY <2>3, <4>1, <4>2, <4>3
    <3>2. CASE k \in {"batch", "put"} /\ d = c
      BY <2>2, <2>4, <3>2 DEF At, Through, b
    <3>3. CASE d # c \/ k \notin {"batch", "put", "task"}
      BY <2>2, <2>4, <3>3 DEF At, InWorker, InMonitor, Through
    <3> QED BY <3>1, <3>2, <3>3
  <2> QED BY <1>6, <2>4 DEF Handed, q, Dequeued, Reject, Unpack, Put
<1> QED BY <1>2, <1>4, <1>5, <1>6

LEMMA WorkerMoves ==
  ASSUME TypeInv, NEW c \in Clusters, NEW w \in Workers, NEW p \in Packages
  PROVE  /\ Take(c, w) => Shifted(p, c, "task", "worker", w)
         /\ Execute(c, w) => Stays(p)
         /\ Report(c, w) => Handed(p, c, "worker", w, "result", Len(resultQueue[c]) + 1)
<1>1. CASE Take(c, w)
  <2> DEFINE q == taskQueue[c]
  <2>1. /\ UNCHANGED <<pusher, resultQueue, monitor>>
        /\ \A d \in Clusters : d # c => taskQueue'[d] = taskQueue[d]
        /\ taskQueue'[c] = Tail(q) /\ q # << >> /\ q \in Seq(Delivery)
        /\ \A d \in Clusters, v \in Workers :
             d # c \/ v # w => worker'[d][v] = worker[d][v]
        /\ worker'[c][w].task = Head(q) /\ worker[c][w].pc = "idle"
    BY <1>1 DEF Take, TypeInv, TypeOK
  <2>2. /\ Head(q) = q[1] /\ 1 \in DOMAIN q
        /\ \A j \in DOMAIN Tail(q) : /\ j \in Nat \ {0}
                                     /\ j + 1 \in DOMAIN q /\ Tail(q)[j] = q[j + 1]
    BY <2>1, TakeHead, QueueSlots
  <2> HIDE DEF q
  <2>3. ASSUME NEW k \in Kinds, NEW d \in Clusters, NEW i \in Slots, At(k, d, i, p)'
        PROVE  \/ k = "worker" /\ d = c /\ i = w /\ At("task", c, 1, p)
               \/ ~(k = "task" /\ d = c) /\ At(k, d, i, p) /\ Through(k, d)
               \/ k = "task" /\ d = c /\ i \in Nat \ {0} /\ At("task", c, i + 1, p)
    <3>1. CASE k = "task" /\ d = c
      BY <2>1, <2>2, <2>3, <3>1 DEF At, q
    <3>2. CASE k = "worker" /\ d = c /\ i = w
      BY <2>1, <2>2, <2>3, <3>2 DEF At, InWorker, q
    <3>3. CASE k = "worker" /\ (d # c \/ i # w)
      BY <2>1, <2>3, <3>3 DEF At, InWorker, Through
    <3>4. CASE (d # c \/ k # "task") /\ k # "worker"
      BY <2>1, <2>3, <3>4 DEF At, InMonitor, Through
    <3> QED BY <3>1, <3>2, <3>3, <3>4
  <2>4. Shifted(p, c, "task", "worker", w)
    BY <2>3 DEF Shifted
  <2> QED BY <1>1, <2>4 DEF Take, Execute, Report
<1>2. CASE Execute(c, w)
  <2>1. /\ UNCHANGED <<pusher, taskQueue, resultQueue, monitor>>
        /\ \A d \in Clusters, v \in Workers :
             d # c \/ v # w => worker'[d][v] = worker[d][v]
        /\ worker'[c][w].task = worker[c][w].task /\ worker[c][w].pc = "execute"
    <3>1. PICK ok \in BOOLEAN :
            worker' = [worker EXCEPT ![c][w] = [pc |-> "report", task |-> @.task, success |-> ok]]
      BY <1>2 DEF Execute
    <3> QED BY <1>2, <3>1 DEF Execute, TypeInv, TypeOK
  <2>2. ASSUME NEW k \in Kinds, NEW d \in Clusters, NEW i \in Slots, At(k, d, i, p)'
        PROVE  At(k, d, i, p) /\ Through(k, d)
    BY <2>1, <2>2 DEF At, InWorker, InMonitor, Through
  <2> QED BY <1>2, <2>2 DEF Stays, Take, Execute, Report
<1>3. CASE Report(c, w)
  <2> DEFINE q == resultQueue[c]
             x == [id |-> worker[c][w].task.id, success |-> worker[c][w].success]
  <2>0. /\ worker[c][w] \in WorkerState /\ worker[c][w].pc = "report"
        /\ q \in Seq(Outcome)
    BY <1>3 DEF Report, TypeInv, TypeOK
  <2>1. x \in Outcome /\ x.id = worker[c][w].task.id
    BY <2>0, InHandType DEF Outcome, Delivery
  <2>2. /\ UNCHANGED <<pusher, taskQueue, monitor>>
        /\ \A d \in Clusters : d # c => resultQueue'[d] = resultQueue[d]
        /\ resultQueue'[c] = Append(q, x)
        /\ \A d \in Clusters, v \in Workers :
             d # c \/ v # w => worker'[d][v] = worker[d][v]
        /\ worker'[c][w].pc = "idle"
    <3>1. /\ UNCHANGED <<pusher, taskQueue, monitor>>
          /\ resultQueue' = [resultQueue EXCEPT ![c] = Append(q, x)]
          /\ worker' = [worker EXCEPT ![c][w] = Idle]
      BY <1>3 DEF Report
    <3>2. Idle.pc = "idle"
      BY DEF Idle
    <3> HIDE DEF q, x
    <3> QED BY <3>1, <3>2 DEF TypeInv, TypeOK
  <2>3. /\ DOMAIN Append(q, x) = 1..(Len(q) + 1) /\ Append(q, x)[Len(q) + 1] = x
        /\ \A j \in 1..Len(q) : Append(q, x)[j] = q[j]
        /\ DOMAIN q = 1..Len(q) /\ Len(q) \in Nat
    BY <2>1, QueueSlots
  <2> HIDE DEF q, x
  <2>4. ASSUME NEW k \in Kinds, NEW d \in Clusters, NEW i \in Slots, At(k, d, i, p)'
        PROVE  \/ k = "result" /\ d = c /\ i = Len(q) + 1 /\ At("worker", c, w, p)
               \/ ~(k = "worker" /\ d = c /\ i = w) /\ At(k, d, i, p) /\ Through(k, d)
    <3>1. CASE k = "result" /\ d = c
      <4>1. i \in 1..(Len(q) + 1) /\ Append(q, x)[i].id = p
        BY <2>2, <2>3, <2>4, <3>1 DEF At
      <4>2. CASE i = Len(q) + 1
        BY <2>0, <2>1, <2>2, <2>3, <3>1, <4>1, <4>2 DEF At, InWorker
      <4>3. CASE i \in 1..Len(q)
        BY <2>3, <3>1, <4>1, <4>3 DEF At, Through, q
      <4> QED BY <2>3, <4>1, <4>2, <4>3
    <3>2. CASE k = "worker"
      BY <2>2, <2>4, <3>2 DEF At, InWorker, Through
    <3>3. CASE (d # c \/ k # "result") /\ k # "worker"
      BY <2>2, <2>4, <3>3 DEF At, InMonitor, Through
    <3> QED BY <3>1, <3>2, <3>3
  <2> QED BY <1>3, <2>4 DEF Handed, q, Take, Execute, Report
<1> QED BY <1>1, <1>2, <1>3

LEMMA GetMoves ==
  ASSUME TypeInv, NEW c \in Clusters, NEW p \in Packages, Get(c)
  PROVE  Shifted(p, c, "result", "monitor", 0)
<1> DEFINE q == resultQueue[c]
<1>1. /\ UNCHANGED <<pusher, taskQueue, worker>>
      /\ \A d \in Clusters : d # c => resultQueue'[d] = resultQueue[d] /\ monitor'[d] = monitor[d]
      /\ resultQueue'[c] = Tail(q) /\ q # << >> /\ q \in Seq(Outcome)
      /\ monitor'[c].result = Head(q) /\ monitor[c].pc = "get"
  BY DEF Get, TypeInv, TypeOK
<1>2. /\ Head(q) = q[1] /\ 1 \in DOMAIN q
      /\ \A j \in DOMAIN Tail(q) : /\ j \in Nat \ {0}
                                   /\ j + 1 \in DOMAIN q /\ Tail(q)[j] = q[j + 1]
  BY <1>1, TakeHead, QueueSlots
<1> HIDE DEF q
<1>3. ASSUME NEW k \in Kinds, NEW d \in Clusters, NEW i \in Slots, At(k, d, i, p)'
      PROVE  \/ k = "monitor" /\ d = c /\ i = 0 /\ At("result", c, 1, p)
             \/ ~(k = "result" /\ d = c) /\ At(k, d, i, p) /\ Through(k, d)
             \/ k = "result" /\ d = c /\ i \in Nat \ {0} /\ At("result", c, i + 1, p)
  <2>1. CASE k = "result" /\ d = c
    BY <1>1, <1>2, <1>3, <2>1 DEF At, q
  <2>2. CASE k = "monitor" /\ d = c
    BY <1>1, <1>2, <1>3, <2>2 DEF At, InMonitor, q
  <2>3. CASE d # c \/ k \notin {"monitor", "result"}
    BY <1>1, <1>3, <2>3 DEF At, InWorker, InMonitor, Through
  <2> QED BY <2>1, <2>2, <2>3
<1> QED BY <1>3 DEF Shifted

-----------------------------------------------------------------------------
(* No package is in hand twice. *)

LEMMA OnceInit == Init => OnceInv
<1> SUFFICES ASSUME Init PROVE OnceInv
  OBVIOUS
<1>0. DOMAIN << >> = {}
  OBVIOUS
<1>1. \A p \in Packages : Nowhere(p)
  BY <1>0 DEF Init, Nowhere, At, InWorker, InMonitor, Polling, Idle, Waiting, Kinds
<1>2. TypeInv /\ \A p \in Packages : lease[p] # "gone"
  BY TypeInit DEF Init, LeaseInit
<1> QED BY <1>1, <1>2 DEF OnceInv, PlaceInv, Once, Nowhere

LEMMA NotInHand == ASSUME TypeInv, NEW p \in Packages, ~InHand(p) PROVE Nowhere(p)
BY DEF InHand, InPusher, Queued, Nowhere, At, Kinds

LEMMA PusherOnce ==
  ASSUME OnceInv, NEW c \in Clusters, PusherStep(c), NEW p \in Packages
  PROVE  PlaceInv(p)'
<1>0. TypeInv /\ PlaceInv(p)
  BY DEF OnceInv
<1>1. ASSUME NEW q \in Packages, DequeueOne(c, q) PROVE PlaceInv(p)'
  <2>1. CASE p # q
    <3>1. lease'[p] = lease[p]
      BY <1>0, <1>1, <2>1 DEF DequeueOne, Claim, TypeInv, TypeOK, LeaseTypeOK
    <3>2. Stays(p)
      BY <1>0, <1>1, <2>1, DequeueMoves
    <3> QED BY <1>0, <3>1, <3>2, Staying
  <2>2. CASE p = q
    <3>1. Nowhere(p) /\ lease'[p] \notin {"new", "free", "gone"}
      BY <1>0, <1>1, <2>2, ClustersAssumption
         DEF DequeueOne, Claim, TypeInv, TypeOK, LeaseTypeOK, PlaceInv
    <3>2. \A k \in Kinds, d \in Clusters, i \in Slots : At(k, d, i, p)' =>
            k = "batch" /\ d = c /\ i = Len(pusher[c].batch) + 1
      BY <1>0, <1>1, <2>2, <3>1, DequeueMoves DEF Nowhere
    <3> QED BY <3>1, <3>2 DEF PlaceInv, Once
  <2> QED BY <2>1, <2>2
<1>2. CASE Dequeued(c)
  BY <1>0, <1>2, PusherMoves, Staying DEF Dequeued, brokerVars
<1>3. CASE Reject(c)
  <2> DEFINE q == Head(pusher[c].batch)
  <2>1. Shifted(p, c, "batch", "none", 0) /\ "none" \notin Kinds
    BY <1>0, <1>3, PusherMoves DEF Kinds
  <2>2. CASE p # q
    <3>1. lease'[p] = lease[p]
      BY <1>0, <1>3, <2>2 DEF Reject, Remove, TypeInv, TypeOK, LeaseTypeOK
    <3>2. "batch" \in Kinds \ {"monitor"}
      BY DEF Kinds
    <3> QED BY <1>0, <2>1, <3>1, <3>2, Shifting
  <2>3. CASE p = q
    <3>1. At("batch", c, 1, p) /\ "batch" \in Kinds /\ \A i \in Nat : i + 1 \in Slots /\ 1 \in Slots
      <4>1. pusher[c].batch \in Seq(Packages) /\ pusher[c].batch # << >>
        BY <1>0, <1>3, InHandType DEF Reject, TypeInv, TypeOK, BatchNotEmpty
      <4>2. 1 \in DOMAIN pusher[c].batch /\ pusher[c].batch[1] = p
        BY <2>3, <4>1, TakeHead
      <4> QED BY <4>2 DEF At, Kinds, Slots
    <3>2. ASSUME NEW k \in Kinds, NEW d \in Clusters, NEW i \in Slots, At(k, d, i, p)'
          PROVE  FALSE
      <4>1. \/ ~(k = "batch" /\ d = c) /\ At(k, d, i, p)
            \/ k = "batch" /\ d = c /\ i \in Nat \ {0} /\ At("batch", c, i + 1, p)
        BY <2>1, <3>2 DEF Shifted
      <4> QED BY <1>0, <3>1, <4>1 DEF PlaceInv, Once
    <3> QED BY <3>2, Vanishing DEF Nowhere
  <2> QED BY <2>2, <2>3
<1>4. CASE Unpack(c)
  <2>1. lease' = lease /\ "batch" \in Kinds \ {"monitor"}
    BY <1>4 DEF Unpack, brokerVars, Kinds
  <2> QED BY <1>0, <1>4, <2>1, PusherMoves, Shifting
<1>5. CASE Put(c)
  <2>1. lease' = lease /\ "put" \in Kinds \ {"monitor"} /\ 0 \in Slots
    BY <1>5 DEF Put, brokerVars, Kinds, Slots
  <2> QED BY <1>0, <1>5, <2>1, PusherMoves, Handing
<1> QED BY <1>1, <1>2, <1>3, <1>4, <1>5 DEF PusherStep

LEMMA WorkerOnce ==
  ASSUME OnceInv, NEW c \in Clusters, NEW w \in Workers, WorkerStep(c, w), NEW p \in Packages
  PROVE  PlaceInv(p)'
<1>0. TypeInv /\ PlaceInv(p)
  BY DEF OnceInv
<1>1. lease' = lease /\ {"task", "worker"} \subseteq Kinds \ {"monitor"} /\ w \in Slots
  BY DEF WorkerStep, Take, Execute, Report, brokerVars, Kinds, Slots
<1>2. CASE Take(c, w)
  BY <1>0, <1>1, <1>2, WorkerMoves, Shifting
<1>3. CASE Execute(c, w)
  BY <1>0, <1>1, <1>3, WorkerMoves, Staying
<1>4. CASE Report(c, w)
  BY <1>0, <1>1, <1>4, WorkerMoves, Handing
<1> QED BY <1>2, <1>3, <1>4 DEF WorkerStep

LEMMA MonitorOnce ==
  ASSUME OnceInv, NEW c \in Clusters, MonitorStep(c), NEW p \in Packages
  PROVE  PlaceInv(p)'
<1>0. TypeInv /\ PlaceInv(p) /\ monitor \in [Clusters -> MonitorState]
  BY DEF OnceInv, TypeInv, TypeOK
<1>1. CASE Get(c)
  <2>1. lease' = lease /\ "result" \in Kinds \ {"monitor"}
    BY <1>1 DEF Get, brokerVars, Kinds
  <2> QED BY <1>0, <1>1, <2>1, GetMoves, Shifting
<1>2. CASE Skip(c) \/ Load(c) \/ Store(c)
  <2>1. lease' = lease /\ UNCHANGED <<pusher, taskQueue, worker, resultQueue>>
    BY <1>2 DEF Skip, Load, Store, brokerVars
  <2>2. /\ monitor[c].pc \in {"load", "store"}
        /\ monitor'[c].result = monitor[c].result
        /\ \A d \in Clusters : d # c => monitor'[d] = monitor[d]
    BY <1>0, <1>2 DEF Skip, Load, Store, Saved
  <2>3. Stays(p)
    BY <2>1, <2>2, Unmoved
  <2> QED BY <1>0, <2>1, <2>3, Staying
<1>3. CASE AckExhausted(c) \/ Ack(c)
  <2> DEFINE q == monitor[c].result.id
  <2>1. /\ UNCHANGED <<pusher, taskQueue, worker, resultQueue>>
        /\ \A d \in Clusters : d # c => monitor'[d] = monitor[d]
        /\ monitor[c].pc \in {"exhausted", "ack"}
    BY <1>0, <1>3 DEF AckExhausted, Ack
  <2>2. /\ AckExhausted(c) => monitor'[c] = [pc |-> "ack", result |-> monitor[c].result]
                              /\ monitor[c].pc = "exhausted" /\ Remove({q})
        /\ Ack(c) => monitor'[c] = [pc |-> "get"]
    BY <1>0 DEF AckExhausted, Ack, Saved, Waiting
  <2>3. Stays(p)
    <3> SUFFICES ASSUME NEW k \in Kinds, NEW d \in Clusters, NEW i \in Slots, At(k, d, i, p)'
                 PROVE  At(k, d, i, p) /\ Through(k, d)
      BY DEF Stays
    <3>1. CASE k = "monitor" /\ d = c
      BY <1>3, <2>1, <2>2, <3>1 DEF At, InMonitor, Through
    <3>2. CASE k # "monitor" \/ d # c
      BY <2>1, <3>2 DEF At, InWorker, InMonitor, Through
    <3> QED BY <3>1, <3>2
  <2>4. CASE p # q
    <3>1. lease'[p] = lease[p]
      BY <1>0, <1>3, <2>4 DEF AckExhausted, Ack, Remove, TypeInv, TypeOK, LeaseTypeOK
    <3> QED BY <1>0, <2>3, <3>1, Staying
  <2>5. CASE p = q
    <3>1. At("monitor", c, 0, p) /\ "monitor" \in Kinds /\ 0 \in Slots
      BY <2>1, <2>5 DEF At, InMonitor, Kinds, Slots
    <3>2. \A k \in Kinds, d \in Clusters, i \in Slots :
            At(k, d, i, p)' => k = "monitor" /\ d = c /\ i = 0
      BY <1>0, <2>3, <3>1 DEF Stays, PlaceInv, Once
    <3>3. CASE Ack(c)
      <4>1. Nowhere(p)'
        BY <2>2, <3>2, <3>3 DEF Nowhere, At, InMonitor
      <4> QED BY <4>1, Vanishing
    <3>4. CASE AckExhausted(c)
      <4>1. lease[p] \notin {"new", "free"}
        BY <1>0, <3>1 DEF PlaceInv, Nowhere
      <4>2. lease'[p] = "gone"
        BY <2>2, <2>5, <3>4, <4>1 DEF Remove, Stored
      <4>3. Once(p)' /\ AckOnly(p)'
        BY <2>2, <3>2, <3>4 DEF Once, AckOnly
      <4> QED BY <4>2, <4>3 DEF PlaceInv
    <3> QED BY <1>3, <3>3, <3>4
  <2> QED BY <2>4, <2>5
<1> QED BY <1>1, <1>2, <1>3 DEF MonitorStep

LEMMA FailureOnce ==
  ASSUME OnceInv, NEW c \in Clusters, Failure(c), NEW p \in Packages
  PROVE  PlaceInv(p)'
<1>0. TypeInv /\ PlaceInv(p) /\ monitor \in [Clusters -> MonitorState]
  BY DEF OnceInv, TypeInv, TypeOK
<1>1. CASE DatabaseError(c)
  <2>1. lease' = lease /\ UNCHANGED <<pusher, taskQueue, worker, resultQueue>>
    BY <1>1 DEF DatabaseError, brokerVars
  <2>2. /\ monitor[c].pc \in {"load", "store"}
        /\ monitor'[c].result = monitor[c].result
        /\ \A d \in Clusters : d # c => monitor'[d] = monitor[d]
    BY <1>0, <1>1 DEF DatabaseError, Saved
  <2>3. Stays(p)
    BY <2>1, <2>2, Unmoved
  <2> QED BY <1>0, <2>1, <2>3, Staying
<1>2. CASE ~DatabaseError(c)
  <2>1. lease' = lease
    BY <1>2 DEF Failure, PusherDies, WorkerDies, MonitorDies, ClusterDies, brokerVars
  <2>2. \A d \in Clusters :
          /\ pusher'[d] = pusher[d] \/ pusher'[d] = Polling
          /\ taskQueue'[d] = taskQueue[d] \/ taskQueue'[d] = <<>>
          /\ resultQueue'[d] = resultQueue[d] \/ resultQueue'[d] = <<>>
          /\ monitor'[d] = monitor[d] \/ monitor'[d] = Waiting
          /\ \A w \in Workers : worker'[d][w] = worker[d][w] \/ worker'[d][w] = Idle
    BY <1>0, <1>2 DEF Failure, PusherDies, WorkerDies, MonitorDies, ClusterDies, TypeInv, TypeOK
  <2>3. Stays(p)
    BY <1>0, <2>2, Dropped
  <2> QED BY <1>0, <2>1, <2>3, Staying
<1> QED BY <1>1, <1>2

LEMMA OnceNext == PatientRetry /\ OnceInv /\ [Next]_vars => OnceInv'
<1> SUFFICES ASSUME PatientRetry, OnceInv, [Next]_vars, NEW p \in Packages
             PROVE  PlaceInv(p)'
  BY TypeNext DEF OnceInv
<1>0. TypeInv /\ PlaceInv(p)
  BY DEF OnceInv
<1>1. ASSUME NEW q \in Packages, Submit(q) \/ LeaseEnds(q) PROVE PlaceInv(p)'
  <2>1. UNCHANGED <<pusher, taskQueue, worker, resultQueue, monitor>>
    BY <1>1 DEF Submit, LeaseEnds
  <2>2. Stays(p)
    BY <2>1, Unmoved
  <2>3. CASE p # q
    <3>1. lease'[p] = lease[p]
      BY <1>0, <1>1, <2>3 DEF Submit, LeaseEnds, Enqueue, Expire, TypeInv, TypeOK, LeaseTypeOK
    <3> QED BY <1>0, <2>2, <3>1, Staying
  <2>4. CASE p = q
    <3>1. Nowhere(p)
      BY <1>0, <1>1, <2>4, NotInHand DEF Submit, Enqueue, LeaseEnds, PlaceInv
    <3>2. Nowhere(p)'
      BY <2>2, <3>1 DEF Nowhere, Stays
    <3> QED BY <3>2, Vanishing
  <2> QED BY <2>3, <2>4
<1>2. ASSUME NEW c \in Clusters, PusherStep(c) PROVE PlaceInv(p)'
  BY <1>2, PusherOnce
<1>3. ASSUME NEW c \in Clusters, NEW w \in Workers, WorkerStep(c, w) PROVE PlaceInv(p)'
  BY <1>3, WorkerOnce
<1>4. ASSUME NEW c \in Clusters, MonitorStep(c) PROVE PlaceInv(p)'
  BY <1>4, MonitorOnce
<1>5. ASSUME NEW c \in Clusters, Failure(c) PROVE PlaceInv(p)'
  BY <1>5, FailureOnce
<1>6. CASE UNCHANGED vars
  <2>1. lease' = lease /\ Stays(p)
    BY <1>6, Unmoved DEF vars
  <2> QED BY <1>0, <2>1, Staying
<1> QED BY <1>1, <1>2, <1>3, <1>4, <1>5, <1>6 DEF Next

\* With a RETRY that exceeds the time in hand no package is in hand twice, for any
\* packages, clusters, workers and limits, and whatever dies.
THEOREM InHandOnceAlways == Spec => []InHandOnce
<1>1. ASSUME OnceInv PROVE InHandOnce
  <2> SUFFICES ASSUME NEW p \in Packages, NEW x \in Copies(p), NEW y \in Copies(p)
               PROVE  x = y
    BY DEF InHandOnce
  <2> DEFINE Copy(z, k, c, i) ==
       /\ At(k, c, i, p)
       /\ z = IF k \in {"put", "monitor"} THEN <<c, k>> ELSE <<c, k, i>>
  <2>1. ASSUME NEW z \in Copies(p)
        PROVE  \E k \in Kinds, c \in Clusters, i \in Slots : Copy(z, k, c, i)
    <3>1. PICK c \in Clusters :
            \/ z \in {<<c, "batch", i>> : i \in {j \in DOMAIN pusher[c].batch : pusher[c].batch[j] = p}}
            \/ z \in {<<c, "put">> : v \in {u \in {pusher[c].pc} : u = "put" /\ pusher[c].task.id = p}}
            \/ z \in {<<c, "task", i>> : i \in {j \in DOMAIN taskQueue[c] : taskQueue[c][j].id = p}}
            \/ z \in {<<c, "worker", w>> : w \in {v \in Workers : InWorker(c, v, p)}}
            \/ z \in {<<c, "result", i>> : i \in {j \in DOMAIN resultQueue[c] : resultQueue[c][j].id = p}}
            \/ z \in {<<c, "monitor">> : v \in {u \in {monitor[c].pc} : InMonitor(c, p)}}
      BY <2>1 DEF Copies
    <3>2. /\ DOMAIN pusher[c].batch \subseteq Slots /\ DOMAIN taskQueue[c] \subseteq Slots
          /\ DOMAIN resultQueue[c] \subseteq Slots /\ Workers \subseteq Slots /\ 0 \in Slots
      <4>1. /\ pusher[c].batch \in Seq(Packages) /\ taskQueue[c] \in Seq(Delivery)
            /\ resultQueue[c] \in Seq(Outcome)
        BY <1>1, InHandType DEF OnceInv, TypeInv, TypeOK
      <4> QED BY <4>1, QueueSlots DEF Slots
    <3>3. CASE z \in {<<c, "batch", i>> : i \in {j \in DOMAIN pusher[c].batch : pusher[c].batch[j] = p}}
      <4>1. PICK i \in DOMAIN pusher[c].batch : pusher[c].batch[i] = p /\ z = <<c, "batch", i>>
        BY <3>3
      <4>2. Copy(z, "batch", c, i) /\ i \in Slots
        BY <3>2, <4>1 DEF At
      <4> QED BY <4>2 DEF Kinds
    <3>4. CASE z \in {<<c, "put">> : v \in {u \in {pusher[c].pc} : u = "put" /\ pusher[c].task.id = p}}
      <4>1. Copy(z, "put", c, 0) /\ 0 \in Slots
        BY <3>2, <3>4 DEF At
      <4> QED BY <4>1 DEF Kinds
    <3>5. CASE z \in {<<c, "task", i>> : i \in {j \in DOMAIN taskQueue[c] : taskQueue[c][j].id = p}}
      <4>1. PICK i \in DOMAIN taskQueue[c] : taskQueue[c][i].id = p /\ z = <<c, "task", i>>
        BY <3>5
      <4>2. Copy(z, "task", c, i) /\ i \in Slots
        BY <3>2, <4>1 DEF At
      <4> QED BY <4>2 DEF Kinds
    <3>6. CASE z \in {<<c, "worker", w>> : w \in {v \in Workers : InWorker(c, v, p)}}
      <4>1. PICK w \in Workers : InWorker(c, w, p) /\ z = <<c, "worker", w>>
        BY <3>6
      <4>2. Copy(z, "worker", c, w) /\ w \in Slots
        BY <3>2, <4>1 DEF At
      <4> QED BY <4>2 DEF Kinds
    <3>7. CASE z \in {<<c, "result", i>> : i \in {j \in DOMAIN resultQueue[c] : resultQueue[c][j].id = p}}
      <4>1. PICK i \in DOMAIN resultQueue[c] : resultQueue[c][i].id = p /\ z = <<c, "result", i>>
        BY <3>7
      <4>2. Copy(z, "result", c, i) /\ i \in Slots
        BY <3>2, <4>1 DEF At
      <4> QED BY <4>2 DEF Kinds
    <3>8. CASE z \in {<<c, "monitor">> : v \in {u \in {monitor[c].pc} : InMonitor(c, p)}}
      <4>1. Copy(z, "monitor", c, 0) /\ 0 \in Slots
        BY <3>2, <3>8 DEF At
      <4> QED BY <4>1 DEF Kinds
    <3> QED BY <3>1, <3>3, <3>4, <3>5, <3>6, <3>7, <3>8
  <2>2. PICK k \in Kinds, c \in Clusters, i \in Slots : Copy(x, k, c, i)
    BY <2>1
  <2>3. PICK l \in Kinds, d \in Clusters, j \in Slots : Copy(y, l, d, j)
    BY <2>1
  <2>4. k = l /\ c = d /\ i = j
    BY <1>1, <2>2, <2>3 DEF OnceInv, PlaceInv, Once
  <2> QED BY <2>2, <2>3, <2>4
<1>2. CASE PatientRetry
  BY <1>1, <1>2, OnceInit, OnceNext, PTL DEF Spec
<1>3. CASE ~PatientRetry
  <2>1. InHandOnce
    BY <1>3 DEF InHandOnce
  <2> QED BY <2>1, PTL
<1> QED BY <1>2, <1>3

-----------------------------------------------------------------------------
(* Nothing comes between what a monitor reads of a row and what it writes. *)

FoundIsCurrent ==
  \A c \in Clusters : monitor[c].pc = "store" => monitor[c].found = task[monitor[c].result.id]

FoundInv == OnceInv /\ FoundIsCurrent

\* What a step does to a monitor.
LEMMA MonitorSteps ==
  ASSUME TypeInv, [Next]_vars, NEW c \in Clusters
  PROVE  \/ monitor'[c] = monitor[c] \/ monitor'[c] = Waiting
         \/ MonitorStep(c) \/ DatabaseError(c)
<1>1. ASSUME NEW d \in Clusters, MonitorStep(d) PROVE d = c \/ monitor'[c] = monitor[c]
  BY <1>1 DEF MonitorStep, Get, Skip, Load, Store, AckExhausted, Ack, TypeInv, TypeOK
<1>2. ASSUME NEW d \in Clusters, Failure(d)
      PROVE  monitor'[c] = monitor[c] \/ monitor'[c] = Waiting \/ DatabaseError(c)
  BY <1>2 DEF Failure, DatabaseError, PusherDies, MonitorDies, ClusterDies, WorkerDies,
     TypeInv, TypeOK
<1>3. ASSUME NEW d \in Clusters, PusherStep(d) PROVE monitor' = monitor
  BY <1>3 DEF PusherStep, DequeueOne, Dequeued, Reject, Unpack, Put
<1>4. ASSUME NEW d \in Clusters, NEW w \in Workers, WorkerStep(d, w) PROVE monitor' = monitor
  BY <1>4 DEF WorkerStep, Take, Execute, Report
<1>5. ASSUME NEW p \in Packages, Submit(p) \/ LeaseEnds(p) PROVE monitor' = monitor
  BY <1>5 DEF Submit, LeaseEnds
<1>6. CASE UNCHANGED vars
  BY <1>6 DEF vars
<1> QED BY <1>1, <1>2, <1>3, <1>4, <1>5, <1>6 DEF Next

\* Task rows change in save_task only.
LEMMA RowSteps ==
  ASSUME TypeInv, [Next]_vars, NEW p \in Packages
  PROVE  task'[p] = task[p] \/ \E c \in Clusters : Store(c) /\ monitor[c].result.id = p
<1>1. ASSUME NEW d \in Clusters, MonitorStep(d) PROVE task' = task \/ Store(d)
  BY <1>1 DEF MonitorStep, Get, Skip, Load, AckExhausted, Ack
<1>2. ASSUME NEW d \in Clusters, Failure(d) PROVE task' = task
  BY <1>2 DEF Failure, DatabaseError, PusherDies, MonitorDies, ClusterDies, WorkerDies
<1>3. ASSUME NEW d \in Clusters, PusherStep(d) PROVE task' = task
  BY <1>3 DEF PusherStep, DequeueOne, Dequeued, Reject, Unpack, Put
<1>4. ASSUME NEW d \in Clusters, NEW w \in Workers, WorkerStep(d, w) PROVE task' = task
  BY <1>4 DEF WorkerStep, Take, Execute, Report
<1>5. ASSUME NEW q \in Packages, Submit(q) \/ LeaseEnds(q) PROVE task' = task
  BY <1>5 DEF Submit, LeaseEnds
<1>6. CASE UNCHANGED vars
  BY <1>6 DEF vars
<1>7. ASSUME NEW d \in Clusters, Store(d), monitor[d].result.id # p PROVE task'[p] = task[p]
  BY <1>7 DEF Store, TypeInv, TypeOK
<1> QED BY <1>1, <1>2, <1>3, <1>4, <1>5, <1>6, <1>7 DEF Next

\* With the row it found still there, save_task writes it and nothing else happens.
LEMMA StoreCurrent ==
  ASSUME TypeInv, FoundIsCurrent, NEW c \in Clusters, Store(c)
  PROVE  LET r == monitor[c].result
             row == task_obj(task[r.id], r) IN
         /\ r \in Outcome /\ row \in Row /\ task'[r.id] = row
         /\ monitor'[c] = [pc |-> IF Exhausted(row) THEN "exhausted" ELSE "ack", result |-> r]
         /\ row.attempt_count >= task[r.id].attempt_count
         /\ task[r.id].success => row = task[r.id]
         /\ ~task[r.id].success => /\ row.attempt_count = task[r.id].attempt_count + 1
                                   /\ row.success = r.success
<1> DEFINE r == monitor[c].result
           row == task_obj(task[r.id], r)
<1>1. r \in Outcome /\ r.id \in Packages /\ r.success \in BOOLEAN
  BY InHandType DEF Store, TypeInv, TypeOK, Outcome
<1>2. task[r.id] \in Row /\ monitor[c].found = task[r.id]
  BY <1>1 DEF Store, FoundIsCurrent, TypeInv, TypeOK
<1>3. /\ row \in Row /\ row.attempt_count >= task[r.id].attempt_count
      /\ task[r.id].success => row = task[r.id]
      /\ ~task[r.id].success => /\ row.attempt_count = task[r.id].attempt_count + 1
                                /\ row.success = r.success
  BY <1>1, <1>2 DEF task_obj, Saves, Row
<1>4. /\ task' = IF Saves(task[r.id]) THEN [task EXCEPT ![r.id] = row] ELSE task
      /\ monitor' = [monitor EXCEPT ![c] =
                       [pc |-> IF Exhausted(row) THEN "exhausted" ELSE "ack", result |-> r]]
  BY <1>2 DEF Store
<1>5. task'[r.id] = row
  BY <1>1, <1>2, <1>4 DEF task_obj, TypeInv, TypeOK
<1>6. monitor'[c] = [pc |-> IF Exhausted(row) THEN "exhausted" ELSE "ack", result |-> r]
  BY <1>4 DEF TypeInv, TypeOK
<1> QED BY <1>1, <1>3, <1>5, <1>6

LEMMA FoundInit == Init => FoundInv
BY OnceInit DEF Init, FoundInv, FoundIsCurrent, Waiting

LEMMA FoundNext == PatientRetry /\ FoundInv /\ [Next]_vars => FoundInv'
<1> SUFFICES ASSUME PatientRetry, FoundInv, [Next]_vars,
                    NEW c \in Clusters, monitor'[c].pc = "store"
             PROVE  monitor'[c].found = task'[monitor'[c].result.id]
  BY OnceNext DEF FoundInv, FoundIsCurrent
<1>0. TypeInv /\ TypeInv' /\ OnceInv /\ FoundIsCurrent
  BY TypeNext DEF FoundInv, OnceInv
<1>1. \/ monitor'[c] = monitor[c]
      \/ Load(c) /\ monitor'[c].found = task[monitor[c].result.id]
                 /\ monitor'[c].result = monitor[c].result /\ task' = task
  <2>1. monitor'[c] = monitor[c] \/ monitor'[c] = Waiting \/ MonitorStep(c) \/ DatabaseError(c)
    BY <1>0, MonitorSteps
  <2>2. CASE MonitorStep(c)
    BY <1>0, <2>2 DEF MonitorStep, Get, Skip, Load, Store, AckExhausted, Ack, Saved, Waiting,
       TypeInv, TypeOK
  <2>3. CASE DatabaseError(c)
    BY <1>0, <2>3 DEF DatabaseError, Saved, TypeInv, TypeOK
  <2> QED BY <2>1, <2>2, <2>3 DEF Waiting
<1>2. CASE monitor'[c] = monitor[c]
  <2> DEFINE p == monitor[c].result.id
  <2>1. p \in Packages
    BY <1>0, <1>2, InHandType DEF TypeInv, TypeOK, Outcome
  <2>2. ASSUME NEW d \in Clusters, Store(d), monitor[d].result.id = p PROVE FALSE
    <3>1. At("monitor", c, 0, p) /\ At("monitor", d, 0, p) /\ "monitor" \in Kinds /\ 0 \in Slots
      BY <1>2, <2>2 DEF Store, At, InMonitor, Kinds, Slots
    <3>2. c = d
      BY <1>0, <2>1, <3>1 DEF OnceInv, PlaceInv, Once
    <3>3. monitor'[d].pc \in {"exhausted", "ack"}
      BY <1>0, <2>2 DEF Store, Saved, TypeInv, TypeOK
    <3> QED BY <3>2, <3>3
  <2>3. task'[p] = task[p]
    BY <1>0, <2>1, <2>2, RowSteps
  <2> QED BY <1>0, <1>2, <2>3 DEF FoundIsCurrent
<1> QED BY <1>1, <1>2

\* A row never loses a success or an attempt.
LEMMA RowGrows ==
  ASSUME FoundInv, [Next]_vars, NEW p \in Packages
  PROVE  /\ task'[p].attempt_count >= task[p].attempt_count
         /\ task[p].success => task'[p].success
<1>0. TypeInv /\ FoundIsCurrent /\ task[p].attempt_count \in Nat
  BY DEF FoundInv, OnceInv, TypeInv, TypeOK, Row
<1>1. CASE task'[p] = task[p]
  BY <1>0, <1>1
<1>2. ASSUME NEW c \in Clusters, Store(c), monitor[c].result.id = p
      PROVE  /\ task'[p].attempt_count >= task[p].attempt_count
             /\ task[p].success => task'[p].success
  BY <1>0, <1>2, StoreCurrent
<1> QED BY <1>0, <1>1, <1>2, RowSteps

\* With a RETRY that exceeds the time in hand a success in the Task table stays
\* one, for any number of clusters and packages.
THEOREM SuccessStays == ASSUME PatientRetry PROVE Spec => SuccessIsFinal
<1>1. FoundInv /\ [Next]_vars =>
        [\A p \in Packages : task[p].success => task'[p].success]_vars
  BY RowGrows
<1> QED BY <1>1, FoundInit, FoundNext, PTL DEF Spec, SuccessIsFinal

-----------------------------------------------------------------------------
(* What has left the broker is accounted for in the Task table. *)

Accounted(p) ==
  \/ p \in Tampered \cup unrecorded
  \/ p \in Unsaved /\ returned[p] > 0
  \/ task[p].success
  \/ task[p].attempt_count > 0 /\ (p \in AckFailures \/ Exhausted(task[p]))

\* A monitor that is about to acknowledge has done what accounts for it.
MonitorAccounts ==
  \A c \in Clusters : LET r == monitor[c].result IN
    /\ monitor[c].pc = "exhausted" => Exhausted(task[r.id])
    /\ monitor[c].pc = "ack" /\ Conclusive(r) => Accounted(r.id)

AccountInv == FoundInv /\ CauseInv /\ MonitorAccounts /\ RemovedIsAccountedFor

LEMMA HistoryGrows ==
  ASSUME TypeInv, [Next]_vars, NEW p \in Packages
  PROVE  /\ unrecorded \subseteq unrecorded' /\ returned'[p] >= returned[p]
         /\ faults' >= faults
         /\ \/ returned'[p] = returned[p] /\ raised'[p] = raised[p]
            \/ /\ returned'[p] + raised'[p] = returned[p] + raised[p] + 1
               /\ \E c \in Clusters, w \in Workers : Execute(c, w) /\ worker[c][w].task.id = p
<1>0. faults \in Nat /\ returned[p] \in Nat /\ raised[p] \in Nat
  BY DEF TypeInv, TypeOK
<1>1. ASSUME NEW d \in Clusters, MonitorStep(d) PROVE UNCHANGED <<history, faults>>
  BY <1>1 DEF MonitorStep, Get, Skip, Load, Store, AckExhausted, Ack
<1>2. ASSUME NEW d \in Clusters, Failure(d)
      PROVE  /\ unrecorded \subseteq unrecorded' /\ UNCHANGED <<returned, raised>>
             /\ faults' = faults + 1
  BY <1>2 DEF Failure, DatabaseError, PusherDies, MonitorDies, ClusterDies, WorkerDies, Fault, history
<1>3. ASSUME NEW d \in Clusters, PusherStep(d)
      PROVE  UNCHANGED history /\ faults' >= faults
  BY <1>0, <1>3 DEF PusherStep, DequeueOne, Dequeued, Reject, Unpack, Put
<1>4. ASSUME NEW d \in Clusters, NEW w \in Workers, Take(d, w) \/ Report(d, w)
      PROVE  UNCHANGED <<history, faults>>
  BY <1>4 DEF Take, Report
<1>5. ASSUME NEW q \in Packages, Submit(q) \/ LeaseEnds(q) PROVE UNCHANGED <<history, faults>>
  BY <1>5 DEF Submit, LeaseEnds
<1>6. CASE UNCHANGED vars
  BY <1>0, <1>6 DEF vars
<1>7. ASSUME NEW d \in Clusters, NEW w \in Workers, Execute(d, w)
      PROVE  /\ UNCHANGED <<unrecorded, faults>> /\ returned'[p] >= returned[p]
             /\ \/ returned'[p] = returned[p] /\ raised'[p] = raised[p]
                \/ /\ returned'[p] + raised'[p] = returned[p] + raised[p] + 1
                   /\ worker[d][w].task.id = p
  <2> DEFINE q == worker[d][w].task.id
  <2>1. q \in Packages
    BY <1>7, InHandType DEF Execute, Delivery, TypeInv, TypeOK
  <2>2. PICK ok \in BOOLEAN :
          /\ returned' = IF ok THEN [returned EXCEPT ![q] = @ + 1] ELSE returned
          /\ raised' = IF ok THEN raised ELSE [raised EXCEPT ![q] = @ + 1]
    BY <1>7 DEF Execute
  <2>3. UNCHANGED <<unrecorded, faults>>
    BY <1>7 DEF Execute
  <2> QED BY <1>0, <2>1, <2>2, <2>3 DEF TypeInv, TypeOK
<1>8. ASSUME UNCHANGED history
      PROVE  unrecorded' = unrecorded /\ returned'[p] = returned[p] /\ raised'[p] = raised[p]
  BY <1>8 DEF history
<1> QED BY <1>0, <1>1, <1>2, <1>3, <1>4, <1>5, <1>6, <1>7, <1>8 DEF Next, WorkerStep

LEMMA AccountedStays ==
  ASSUME FoundInv, [Next]_vars, NEW p \in Packages, Accounted(p)
  PROVE  Accounted(p)'
<1>1. /\ TypeInv /\ task[p] \in Row /\ task'[p] \in Row
      /\ returned[p] \in Nat /\ returned'[p] \in Nat /\ MAX_ATTEMPTS \in Nat
  BY TypeNext, PipelineAssumption DEF FoundInv, OnceInv, TypeInv, TypeOK
<1>2. /\ unrecorded \subseteq unrecorded' /\ returned'[p] >= returned[p]
  BY <1>1, HistoryGrows
<1>3. /\ task'[p].attempt_count >= task[p].attempt_count
      /\ task[p].success => task'[p].success
  BY RowGrows
<1> QED BY <1>1, <1>2, <1>3 DEF Accounted, Exhausted, Row

LEMMA MonitorAccountsNext ==
  ASSUME PatientRetry, AccountInv, [Next]_vars PROVE MonitorAccounts'
<1> SUFFICES ASSUME NEW c \in Clusters
             PROVE  LET r == monitor[c].result IN
                    /\ monitor'[c].pc = "exhausted" => Exhausted(task[r.id])'
                    /\ monitor'[c].pc = "ack" /\ Conclusive(r)' => Accounted(r.id)'
  BY DEF MonitorAccounts
<1> DEFINE r == monitor[c].result
<1>0. /\ FoundInv /\ TypeInv /\ TypeInv' /\ FoundIsCurrent /\ MonitorAccounts
      /\ OutcomesBacked /\ MAX_ATTEMPTS \in Nat /\ monitor[c] \in MonitorState
      /\ monitor' \in [Clusters -> MonitorState]
  BY TypeNext, PipelineAssumption DEF AccountInv, CauseInv, FoundInv, OnceInv, TypeInv, TypeOK
<1>1. ASSUME monitor[c].pc # "get"
      PROVE  r \in Outcome /\ r.id \in Packages /\ task[r.id] \in Row /\ task'[r.id] \in Row
  BY <1>0, <1>1, InHandType DEF TypeInv, TypeOK, Outcome
<1>2. CASE monitor'[c] = monitor[c]
  <2>1. CASE monitor[c].pc = "exhausted"
    <3>1. Exhausted(task[r.id])
      BY <1>0, <2>1 DEF MonitorAccounts
    <3>2. task'[r.id].attempt_count >= task[r.id].attempt_count
      BY <1>0, <1>1, <2>1, RowGrows
    <3>3. Exhausted(task'[r.id])
      BY <1>0, <1>1, <2>1, <3>1, <3>2 DEF Exhausted, Row
    <3> QED BY <1>2, <2>1, <3>3 DEF Exhausted
  <2>2. CASE monitor[c].pc = "ack"
    <3>1. Conclusive(r) => Accounted(r.id)
      BY <1>0, <2>2 DEF MonitorAccounts
    <3>2. Accounted(r.id) => Accounted(monitor[c].result.id)'
      <4>1. \A p \in Packages : Accounted(p) => Accounted(p)'
        BY <1>0, AccountedStays
      <4> HIDE DEF Accounted
      <4>2. Accounted(r.id) => Accounted(r.id)'
        <5>1. PICK p \in Packages : p = r.id
          BY <1>1, <2>2
        <5>2. Accounted(p) => Accounted(p)'
          BY <4>1
        <5>3. Accounted(p) = Accounted(r.id)
          BY <5>1
        <5>4. Accounted(p)' = Accounted(r.id)'
          BY <1>2, <5>1 DEF Accounted
        <5> QED BY <5>2, <5>3, <5>4
      <4> QED BY <4>2
    <3> QED BY <1>2, <2>2, <3>1, <3>2 DEF Conclusive
  <2> QED BY <1>2, <2>1, <2>2
<1>3. CASE monitor'[c] = Waiting
  BY <1>3 DEF Waiting
<1>4. CASE Get(c) \/ Load(c) \/ Ack(c)
  <2>1. monitor'[c].pc \in {"load", "store", "get"}
    BY <1>0, <1>4 DEF Get, Load, Ack, Waiting, TypeInv, TypeOK
  <2> QED BY <2>1
<1>5. CASE Skip(c)
  <2>1. monitor'[c].pc = "ack" /\ monitor'[c].result = r /\ returned' = returned
    BY <1>0, <1>5 DEF Skip, Saved, history, TypeInv, TypeOK
  <2>2. r.id \in Unsaved /\ r.success /\ returned[r.id] > 0
    BY <1>0, <1>5 DEF Skip, Unwanted, OutcomesBacked, Backed
  <2> QED BY <2>1, <2>2 DEF Accounted
<1>6. CASE Store(c)
  <2> DEFINE row == task_obj(task[r.id], r)
  <2>1. /\ task'[r.id] = row /\ row \in Row /\ task[r.id] \in Row
        /\ monitor'[c] = [pc |-> IF Exhausted(row) THEN "exhausted" ELSE "ack", result |-> r]
        /\ task[r.id].success => row = task[r.id]
        /\ ~task[r.id].success => /\ row.attempt_count = task[r.id].attempt_count + 1
                                  /\ row.success = r.success
    BY <1>0, <1>1, <1>6, StoreCurrent DEF Store
  <2> HIDE DEF row
  <2>2. Exhausted(task[r.id])' <=> Exhausted(row)
    BY <2>1 DEF Exhausted
  <2>3. monitor'[c].result = r
    BY <2>1
  <2>4. ASSUME Conclusive(r)
        PROVE  \/ task'[r.id].success
               \/ task'[r.id].attempt_count > 0 /\ r.id \in AckFailures
    BY <2>1, <2>4 DEF Conclusive, Row
  <2> QED BY <2>1, <2>2, <2>3, <2>4 DEF Conclusive, Accounted, Exhausted
<1>7. CASE AckExhausted(c)
  <2>1. monitor'[c] = [pc |-> "ack", result |-> r] /\ task' = task
    BY <1>0, <1>7 DEF AckExhausted, Saved, TypeInv, TypeOK
  <2>2. Exhausted(task[r.id]) /\ task[r.id].attempt_count > 0
    BY <1>0, <1>1, <1>7 DEF AckExhausted, MonitorAccounts, Exhausted, Row
  <2> QED BY <2>1, <2>2 DEF Accounted, Exhausted
<1>8. CASE DatabaseError(c)
  <2>1. monitor'[c] = [pc |-> "ack", result |-> r] /\ r.id \in unrecorded'
    BY <1>0, <1>8 DEF DatabaseError, Saved, TypeInv, TypeOK
  <2> QED BY <2>1 DEF Accounted
<1> QED BY <1>0, <1>2, <1>3, <1>4, <1>5, <1>6, <1>7, <1>8, MonitorSteps DEF MonitorStep

\* What leaves the broker was accounted for before.
LEMMA RemovalAccounted ==
  ASSUME AccountInv, [Next]_vars, NEW p \in Packages, lease'[p] = "gone"
  PROVE  lease[p] = "gone" \/ Accounted(p)
<1>0. /\ TypeInv /\ MonitorAccounts /\ FoundInv /\ MAX_ATTEMPTS \in Nat
  BY PipelineAssumption DEF AccountInv, FoundInv, OnceInv
<1>1. ASSUME NEW c \in Clusters, Ack(c) PROVE lease[p] = "gone" \/ Accounted(p)
  BY <1>0, <1>1 DEF Ack, Remove, MonitorAccounts
<1>2. ASSUME NEW c \in Clusters, AckExhausted(c) PROVE lease[p] = "gone" \/ Accounted(p)
  <2>1. lease[p] = "gone" \/ p = monitor[c].result.id
    BY <1>2 DEF AckExhausted, Remove
  <2>2. Exhausted(task[monitor[c].result.id])
    BY <1>0, <1>2 DEF AckExhausted, MonitorAccounts
  <2>3. task[p] \in Row
    BY <1>0 DEF TypeInv, TypeOK
  <2> QED BY <1>0, <2>1, <2>2, <2>3 DEF Accounted, Exhausted, Row
<1>3. ASSUME NEW c \in Clusters, Reject(c) PROVE lease[p] = "gone" \/ Accounted(p)
  BY <1>3 DEF Reject, Remove, Accounted
<1>4. ASSUME NEW c \in Clusters, NEW q \in Packages, DequeueOne(c, q) PROVE lease[p] = "gone"
  BY <1>0, <1>4, ClustersAssumption DEF DequeueOne, Claim, TypeInv, TypeOK, LeaseTypeOK
<1>5. ASSUME NEW q \in Packages, Submit(q) \/ LeaseEnds(q) PROVE lease[p] = "gone"
  BY <1>0, <1>5 DEF Submit, Enqueue, LeaseEnds, Expire, TypeInv, TypeOK, LeaseTypeOK
<1>6. ASSUME NEW c \in Clusters, Dequeued(c) \/ Unpack(c) \/ Put(c) PROVE lease' = lease
  BY <1>6 DEF Dequeued, Unpack, Put, brokerVars
<1>7. ASSUME NEW c \in Clusters, NEW w \in Workers, WorkerStep(c, w) PROVE lease' = lease
  BY <1>7 DEF WorkerStep, Take, Execute, Report, brokerVars
<1>8. ASSUME NEW c \in Clusters, Get(c) \/ Skip(c) \/ Load(c) \/ Store(c) PROVE lease' = lease
  BY <1>8 DEF Get, Skip, Load, Store, brokerVars
<1>9. ASSUME NEW c \in Clusters, Failure(c) PROVE lease' = lease
  BY <1>9 DEF Failure, DatabaseError, PusherDies, MonitorDies, ClusterDies, WorkerDies, brokerVars
<1>10. CASE UNCHANGED vars
  BY <1>10 DEF vars
<1> QED BY <1>1, <1>2, <1>3, <1>4, <1>5, <1>6, <1>7, <1>8, <1>9, <1>10
        DEF Next, PusherStep, MonitorStep

LEMMA AccountInit == Init => AccountInv
BY FoundInit, CauseInit DEF Init, AccountInv, MonitorAccounts, RemovedIsAccountedFor, Waiting, LeaseInit

LEMMA AccountNext == PatientRetry /\ AccountInv /\ [Next]_vars => AccountInv'
<1> SUFFICES ASSUME PatientRetry, AccountInv, [Next]_vars PROVE AccountInv'
  OBVIOUS
<1>1. FoundInv' /\ CauseInv' /\ MonitorAccounts'
  BY FoundNext, CauseNext, MonitorAccountsNext DEF AccountInv
<1>2. ASSUME NEW p \in Packages, lease'[p] = "gone" PROVE Accounted(p)'
  <2>1. Accounted(p)
    BY <1>2, RemovalAccounted DEF AccountInv, RemovedIsAccountedFor, Accounted
  <2> QED BY <2>1, AccountedStays DEF AccountInv
<1>3. RemovedIsAccountedFor'
  BY <1>2 DEF RemovedIsAccountedFor, Accounted
<1> QED BY <1>1, <1>3 DEF AccountInv

\* With a RETRY that exceeds the time in hand whatever has left the broker left the
\* row that explains it, for any packages, clusters, options and limits.
THEOREM RemovedAccounted == ASSUME PatientRetry PROVE Spec => []RemovedIsAccountedFor
<1>1. AccountInv => RemovedIsAccountedFor
  BY DEF AccountInv
<1> QED BY <1>1, AccountInit, AccountNext, PTL DEF Spec

-----------------------------------------------------------------------------
(* MAX_ATTEMPTS limits the executions of what does not succeed. *)

\* The latest execution of p, if any, is not yet counted, or p is not delivered
\* again unless something fails.
Executed(p) ==
  \/ lease[p] = "gone"
  \/ \E c \in Clusters, w \in Workers : worker[c][w].pc = "report" /\ InWorker(c, w, p)
  \/ \E c \in Clusters : Queued(resultQueue[c], p)
  \/ \E c \in Clusters : /\ InMonitor(c, p)
                         /\ monitor[c].pc = "ack" => Conclusive(monitor[c].result)

Executions(p) == returned[p] + raised[p]

\* Every execution is counted in the row, is about to be or was lost to a fault; who
\* may be executed again has an attempt left.
Limited(p) ==
  ~task[p].success =>
    /\ Executions(p) <= task[p].attempt_count + 1 + faults
    /\ Executions(p) <= MAX_ATTEMPTS + faults
    /\ ~Executed(p) => /\ Executions(p) <= task[p].attempt_count + faults
                       /\ Executions(p) + 1 <= MAX_ATTEMPTS + faults

LimitInv == FoundInv /\ \A p \in Packages : Limited(p)

\* Nothing but a fault and the monitor's count makes p executable again.
LEMMA ExecutedStays ==
  ASSUME FoundInv, [Next]_vars, NEW p \in Packages, Executed(p),
         \A c \in Clusters : ~Failure(c) /\ ~(Store(c) /\ monitor[c].result.id = p)
  PROVE  Executed(p)'
<1>0. TypeInv /\ PlaceInv(p) /\ lease \in [Packages -> {"new", "free", "gone"} \cup Clusters]
  BY DEF FoundInv, OnceInv, TypeInv, TypeOK, LeaseTypeOK
<1>1. ASSUME NEW q \in Packages, Submit(q) \/ LeaseEnds(q) PROVE Executed(p)'
  <2>1. /\ UNCHANGED <<worker, resultQueue, monitor>>
        /\ lease[p] = "gone" => lease'[p] = "gone"
    BY <1>0, <1>1, ClustersAssumption DEF Submit, LeaseEnds, Enqueue, Expire, Leased
  <2> QED BY <2>1 DEF Executed, InWorker, Queued, InMonitor, Conclusive
<1>2. ASSUME NEW c \in Clusters, PusherStep(c) PROVE Executed(p)'
  <2>1. UNCHANGED <<worker, resultQueue, monitor>>
    BY <1>2 DEF PusherStep, DequeueOne, Dequeued, Reject, Unpack, Put
  <2>2. lease[p] = "gone" => lease'[p] = "gone"
    BY <1>0, <1>2 DEF PusherStep, DequeueOne, Dequeued, Reject, Unpack, Put,
       Claim, Remove, Stored, brokerVars
  <2> QED BY <2>1, <2>2 DEF Executed, InWorker, Queued, InMonitor, Conclusive
<1>3. ASSUME NEW c \in Clusters, NEW w \in Workers, WorkerStep(c, w) PROVE Executed(p)'
  <2>1. lease' = lease /\ monitor' = monitor
    BY <1>3 DEF WorkerStep, Take, Execute, Report, brokerVars
  <2>2. CASE Take(c, w) \/ Execute(c, w)
    <3>1. /\ resultQueue' = resultQueue /\ worker[c][w].pc # "report"
          /\ \E x : worker' = [worker EXCEPT ![c][w] = x]
      BY <2>2 DEF Take, Execute
    <3>2. \A d \in Clusters, v \in Workers :
            worker[d][v].pc = "report" => worker'[d][v] = worker[d][v]
      BY <1>0, <3>1 DEF TypeInv, TypeOK
    <3> QED BY <2>1, <3>1, <3>2 DEF Executed, InWorker, Queued, InMonitor, Conclusive
  <2>3. CASE Report(c, w)
    <3> DEFINE q == resultQueue[c]
               x == [id |-> worker[c][w].task.id, success |-> worker[c][w].success]
    <3>1. q \in Seq(Outcome) /\ x \in Outcome /\ x.id = worker[c][w].task.id
      <4>1. worker[c][w] \in WorkerState /\ worker[c][w].pc = "report" /\ q \in Seq(Outcome)
        BY <1>0, <2>3 DEF Report, TypeInv, TypeOK
      <4> QED BY <4>1, InHandType DEF Outcome, Delivery
    <3>2. /\ \A d \in Clusters : d # c => resultQueue'[d] = resultQueue[d]
          /\ resultQueue'[c] = Append(q, x)
      BY <1>0, <2>3 DEF Report, TypeInv, TypeOK
    <3>3. \A d \in Clusters, v \in Workers : d # c \/ v # w => worker'[d][v] = worker[d][v]
      BY <1>0, <2>3 DEF Report, TypeInv, TypeOK
    <3>4. /\ DOMAIN Append(q, x) = 1..(Len(q) + 1) /\ Append(q, x)[Len(q) + 1] = x
          /\ \A j \in 1..Len(q) : Append(q, x)[j] = q[j]
          /\ DOMAIN q = 1..Len(q) /\ Len(q) \in Nat
      BY <3>1, QueueSlots
    <3> HIDE DEF q, x
    <3>5. \A d \in Clusters : Queued(resultQueue[d], p) => Queued(resultQueue'[d], p)
      BY <3>2, <3>4 DEF Queued, q
    <3>6. InWorker(c, w, p) => Queued(resultQueue'[c], p)
      BY <3>1, <3>2, <3>4 DEF Queued, InWorker
    <3> QED BY <2>1, <3>3, <3>5, <3>6 DEF Executed, InWorker, InMonitor, Conclusive, Queued
  <2> QED BY <1>3, <2>2, <2>3 DEF WorkerStep
<1>4. ASSUME NEW c \in Clusters, MonitorStep(c) PROVE Executed(p)'
  <2>1. worker' = worker
    BY <1>4 DEF MonitorStep, Get, Skip, Load, Store, AckExhausted, Ack
  <2>2. \A d \in Clusters : d # c => monitor'[d] = monitor[d] /\ resultQueue'[d] = resultQueue[d]
    BY <1>0, <1>4 DEF MonitorStep, Get, Skip, Load, Store, AckExhausted, Ack, TypeInv, TypeOK
  <2>3. lease[p] = "gone" => lease'[p] = "gone"
    BY <1>0, <1>4 DEF MonitorStep, Get, Skip, Load, Store, AckExhausted, Ack, Remove, Stored, brokerVars
  <2>4. CASE Get(c)
    <3> DEFINE q == resultQueue[c]
    <3>1. /\ resultQueue'[c] = Tail(q) /\ q # << >> /\ q \in Seq(Outcome) /\ monitor[c].pc = "get"
          /\ monitor'[c] = [pc |-> "load", result |-> Head(q)]
      BY <1>0, <2>4 DEF Get, TypeInv, TypeOK
    <3>2. /\ Head(q) = q[1] /\ DOMAIN q = 1..Len(q) /\ DOMAIN Tail(q) = 1..(Len(q) - 1)
          /\ Len(q) \in Nat
          /\ \A j \in DOMAIN Tail(q) : Tail(q)[j] = q[j + 1]
      <4>1. Tail(q) \in Seq(Outcome) /\ Len(Tail(q)) = Len(q) - 1
        BY <3>1, TakeHead
      <4> QED BY <3>1, <4>1, TakeHead, QueueSlots
    <3> HIDE DEF q
    <3>3. ASSUME NEW i \in DOMAIN q, q[i].id = p, i # 1 PROVE Queued(resultQueue'[c], p)
      <4>1. i - 1 \in DOMAIN Tail(q) /\ Tail(q)[i - 1] = q[i]
        BY <3>2, <3>3
      <4> QED BY <3>1, <3>3, <4>1 DEF Queued
    <3>4. Queued(q, p) => Queued(resultQueue'[c], p) \/ InMonitor(c, p)'
      BY <3>1, <3>2, <3>3 DEF Queued, InMonitor
    <3>5. \A d \in Clusters : Queued(resultQueue[d], p) =>
            \/ Queued(resultQueue'[d], p)
            \/ InMonitor(d, p)' /\ monitor'[d].pc # "ack"
      <4> TAKE d \in Clusters
      <4>1. CASE d = c
        BY <3>1, <3>4, <4>1 DEF q
      <4>2. CASE d # c
        BY <2>2, <4>2
      <4> QED BY <4>1, <4>2
    <3>6. \A d \in Clusters : InMonitor(d, p) => monitor'[d] = monitor[d]
      BY <2>2, <3>1 DEF InMonitor
    <3>7. CASE \E d \in Clusters : Queued(resultQueue[d], p)
      BY <3>5, <3>7 DEF Executed, Queued
    <3>8. CASE \E d \in Clusters : /\ InMonitor(d, p)
                                   /\ monitor[d].pc = "ack" => Conclusive(monitor[d].result)
      <4>1. PICK d \in Clusters : /\ InMonitor(d, p)
                                  /\ monitor[d].pc = "ack" => Conclusive(monitor[d].result)
        BY <3>8
      <4>2. /\ InMonitor(d, p)'
            /\ monitor'[d].pc = "ack" => Conclusive(monitor[d].result)'
        BY <3>6, <4>1 DEF InMonitor, Conclusive
      <4> QED BY <4>2 DEF Executed
    <3>9. CASE \/ lease[p] = "gone"
               \/ \E d \in Clusters, w \in Workers : worker[d][w].pc = "report" /\ InWorker(d, w, p)
      BY <2>1, <2>3, <3>9 DEF Executed, InWorker
    <3> QED BY <3>7, <3>8, <3>9 DEF Executed
  <2>5. CASE Skip(c) \/ Load(c) \/ Store(c)
    <3>1. resultQueue' = resultQueue /\ monitor'[c].result = monitor[c].result
          /\ monitor[c].pc # "get" /\ monitor'[c].pc # "get"
      BY <1>0, <2>5 DEF Skip, Load, Store, Saved, TypeInv, TypeOK
    <3>2. monitor[c].result.id = p => (monitor'[c].pc = "ack" => Conclusive(monitor[c].result))
      BY <1>0, <2>5 DEF Skip, Load, Saved, Unwanted, Conclusive, TypeInv, TypeOK
    <3> QED BY <2>1, <2>2, <2>3, <3>1, <3>2 DEF Executed, InWorker, InMonitor, Conclusive, Queued
  <2>6. CASE AckExhausted(c) \/ Ack(c)
    <3>1. resultQueue' = resultQueue /\ monitor[c].pc \in {"exhausted", "ack"}
      BY <2>6 DEF AckExhausted, Ack
    <3>2. ASSUME InMonitor(c, p), monitor[c].pc = "ack" => Conclusive(monitor[c].result)
          PROVE  lease'[p] = "gone"
      <4>1. At("monitor", c, 0, p) /\ "monitor" \in Kinds /\ 0 \in Slots
        BY <3>2 DEF At, Kinds, Slots
      <4>2. lease[p] # "new"
        BY <1>0, <4>1 DEF PlaceInv, Nowhere
      <4> QED BY <2>6, <2>3, <3>2, <4>2 DEF AckExhausted, Ack, Remove, Stored, InMonitor
    <3> QED BY <2>1, <2>2, <2>3, <3>1, <3>2 DEF Executed, InWorker, InMonitor, Conclusive, Queued
  <2> QED BY <1>4, <2>4, <2>5, <2>6 DEF MonitorStep
<1>5. CASE UNCHANGED vars
  BY <1>5 DEF vars, Executed, InWorker, InMonitor, Conclusive, Queued
<1> QED BY <1>1, <1>2, <1>3, <1>4, <1>5 DEF Next

LEMMA LimitInit == MAX_ATTEMPTS > 0 /\ Init => LimitInv
BY FoundInit, PipelineAssumption DEF Init, LimitInv, Limited, Executions, NoRow

LEMMA LimitNext == PatientRetry /\ MAX_ATTEMPTS > 0 /\ LimitInv /\ [Next]_vars => LimitInv'
<1> SUFFICES ASSUME PatientRetry, MAX_ATTEMPTS > 0, LimitInv, [Next]_vars,
                    NEW p \in Packages, ~task'[p].success
             PROVE  /\ Executions(p)' <= task'[p].attempt_count + 1 + faults'
                    /\ Executions(p)' <= MAX_ATTEMPTS + faults'
                    /\ ~Executed(p)' => /\ Executions(p)' <= task'[p].attempt_count + faults'
                                        /\ Executions(p)' + 1 <= MAX_ATTEMPTS + faults'
  BY FoundNext DEF LimitInv, Limited
<1>0. /\ FoundInv /\ TypeInv /\ FoundIsCurrent /\ PlaceInv(p) /\ Limited(p)
      /\ MAX_ATTEMPTS \in Nat /\ faults \in Nat /\ faults' \in Nat
      /\ task[p].attempt_count \in Nat /\ task'[p].attempt_count \in Nat
      /\ Executions(p) \in Nat /\ Executions(p)' \in Nat
  <2>1. /\ FoundInv /\ TypeInv /\ TypeInv' /\ FoundIsCurrent /\ PlaceInv(p) /\ Limited(p)
        /\ MAX_ATTEMPTS \in Nat
    BY TypeNext, PipelineAssumption DEF LimitInv, FoundInv, OnceInv
  <2>2. /\ task[p] \in Row /\ task'[p] \in Row /\ faults \in Nat /\ faults' \in Nat
        /\ returned[p] \in Nat /\ raised[p] \in Nat /\ returned'[p] \in Nat /\ raised'[p] \in Nat
    BY <2>1 DEF TypeInv, TypeOK
  <2> QED BY <2>1, <2>2 DEF Row, Executions
<1>1. /\ ~task[p].success /\ faults' >= faults
      /\ task'[p].attempt_count >= task[p].attempt_count
  BY <1>0, RowGrows, HistoryGrows
<1>2. CASE \E c \in Clusters, w \in Workers : Execute(c, w) /\ worker[c][w].task.id = p
  <2>1. PICK c \in Clusters, w \in Workers : Execute(c, w) /\ worker[c][w].task.id = p
    BY <1>2
  <2>2. At("worker", c, w, p) /\ {"worker", "result", "monitor"} \subseteq Kinds /\ w \in Slots
    BY <2>1 DEF Execute, At, InWorker, Kinds, Slots
  <2>3. ~Executed(p)
    <3>1. lease[p] # "gone"
      BY <1>0, <2>2 DEF PlaceInv, AckOnly
    <3>2. ~ \E d \in Clusters, v \in Workers : worker[d][v].pc = "report" /\ InWorker(d, v, p)
      <4>1. ASSUME NEW d \in Clusters, NEW v \in Workers, worker[d][v].pc = "report",
                   InWorker(d, v, p)
            PROVE  FALSE
        <5>1. At("worker", d, v, p) /\ v \in Slots
          BY <4>1 DEF At, Slots
        <5>2. d = c /\ v = w
          BY <1>0, <2>2, <5>1 DEF PlaceInv, Once
        <5> QED BY <2>1, <4>1, <5>2 DEF Execute
      <4> QED BY <4>1
    <3>3. ~ \E d \in Clusters : Queued(resultQueue[d], p)
      <4>1. ASSUME NEW d \in Clusters, NEW i \in DOMAIN resultQueue[d], resultQueue[d][i].id = p
            PROVE  FALSE
        <5>1. resultQueue[d] \in Seq(Outcome)
          BY <1>0 DEF TypeInv, TypeOK
        <5>2. At("result", d, i, p) /\ i \in Slots
          BY <4>1, <5>1, QueueSlots DEF At, Slots
        <5> QED BY <1>0, <2>2, <5>2 DEF PlaceInv, Once
      <4> QED BY <4>1 DEF Queued
    <3>4. ~ \E d \in Clusters : InMonitor(d, p)
      <4>1. ASSUME NEW d \in Clusters, InMonitor(d, p) PROVE FALSE
        <5>1. At("monitor", d, 0, p) /\ 0 \in Slots
          BY <4>1 DEF At, Slots
        <5> QED BY <1>0, <2>2, <5>1 DEF PlaceInv, Once
      <4> QED BY <4>1
    <3> QED BY <3>1, <3>2, <3>3, <3>4 DEF Executed
  <2>4. Executed(p)'
    <3>1. PICK ok \in BOOLEAN :
            worker' = [worker EXCEPT ![c][w] =
                         [pc |-> "report", task |-> worker[c][w].task, success |-> ok]]
      BY <2>1 DEF Execute
    <3>2. worker'[c][w] = [pc |-> "report", task |-> worker[c][w].task, success |-> ok]
      BY <1>0, <3>1 DEF TypeInv, TypeOK
    <3> QED BY <2>1, <3>2 DEF Executed, InWorker
  <2>5. Executions(p)' <= Executions(p) + 1
    <3>1. returned[p] \in Nat /\ raised[p] \in Nat
      BY <1>0 DEF TypeInv, TypeOK
    <3> QED BY <1>0, <3>1, HistoryGrows DEF Executions
  <2> QED BY <1>0, <1>1, <2>3, <2>4, <2>5 DEF Limited
<1>3. CASE ~ \E c \in Clusters, w \in Workers : Execute(c, w) /\ worker[c][w].task.id = p
  <2>1. Executions(p)' = Executions(p)
    BY <1>0, <1>3, HistoryGrows DEF Executions
  <2>2. CASE \E c \in Clusters : Failure(c)
    <3>1. faults' = faults + 1
      BY <2>2 DEF Failure, DatabaseError, PusherDies, MonitorDies, ClusterDies, WorkerDies, Fault
    <3> QED BY <1>0, <1>1, <2>1, <3>1 DEF Limited
  <2>3. ASSUME NEW c \in Clusters, Store(c), monitor[c].result.id = p
        PROVE  /\ Executions(p)' <= task'[p].attempt_count + 1 + faults'
               /\ Executions(p)' <= MAX_ATTEMPTS + faults'
               /\ ~Executed(p)' => /\ Executions(p)' <= task'[p].attempt_count + faults'
                                   /\ Executions(p)' + 1 <= MAX_ATTEMPTS + faults'
    <3> DEFINE row == task_obj(task[p], monitor[c].result)
    <3>1. /\ task'[p] = row /\ row.attempt_count = task[p].attempt_count + 1
          /\ monitor'[c] = [pc |-> IF Exhausted(row) THEN "exhausted" ELSE "ack",
                            result |-> monitor[c].result]
      BY <1>0, <1>1, <2>3, StoreCurrent
    <3> HIDE DEF row
    <3>2. ~Executed(p)' => ~Exhausted(row)
      BY <2>3, <3>1 DEF Executed, InMonitor
    <3>3. ~Exhausted(row) => row.attempt_count < MAX_ATTEMPTS
      BY <1>0, <3>1 DEF Exhausted
    <3> QED BY <1>0, <1>1, <2>1, <3>1, <3>2, <3>3 DEF Limited
  <2>4. CASE \A c \in Clusters : ~Failure(c) /\ ~(Store(c) /\ monitor[c].result.id = p)
    <3>1. ~Executed(p)' => ~Executed(p)
      BY <1>0, <2>4, ExecutedStays
    <3> QED BY <1>0, <1>1, <2>1, <3>1 DEF Limited
  <2> QED BY <2>2, <2>3, <2>4
<1> QED BY <1>2, <1>3

\* With a RETRY that exceeds the time in hand a package without a success in the Task
\* table is executed MAX_ATTEMPTS times at most, and once more for every fault.
THEOREM FailuresAreLimited == Spec => []FailuresLimited
<1>1. ASSUME LimitInv PROVE FailuresLimited
  BY <1>1 DEF LimitInv, Limited, Executions, FailuresLimited
<1>2. CASE PatientRetry /\ MAX_ATTEMPTS > 0
  BY <1>1, <1>2, LimitInit, LimitNext, PTL DEF Spec
<1>3. CASE ~(PatientRetry /\ MAX_ATTEMPTS > 0)
  <2>1. FailuresLimited
    BY <1>3 DEF FailuresLimited
  <2> QED BY <2>1, PTL
<1> QED BY <1>2, <1>3

-----------------------------------------------------------------------------
(* Executions on their way to the row. *)

\* The copy of p in this place was executed and is not counted yet.
Uncounted(k, c, i, p) ==
  /\ At(k, c, i, p)
  /\ \/ k = "worker" /\ worker[c][i].pc = "report"
     \/ k = "result"
     \/ k = "monitor" /\ monitor[c].pc \in {"load", "store"}

Pending(p) == {x \in Kinds \X Clusters \X Slots : Uncounted(x[1], x[2], x[3], p)}

\* Each execution is counted once at most: in the row, or on its way to it; also by a
\* monitor that adds to a row that is no longer what it found.
Counted(p) ==
  /\ IsFiniteSet(Pending(p))
  /\ task[p].attempt_count + Cardinality(Pending(p)) <= Executions(p)
  /\ \A c \in Clusters : InMonitor(c, p) =>
       /\ monitor[c].pc = "store" =>
            monitor[c].found.attempt_count + Cardinality(Pending(p)) <= Executions(p)
       /\ monitor[c].pc = "exhausted" => MAX_ATTEMPTS <= Executions(p)

CountInv == CauseInv /\ GivenUpLate /\ \A p \in Packages : Counted(p)

-----------------------------------------------------------------------------
(* How many are on their way. *)

\* There are no more after a step than before.
NoMorePending(p) == /\ IsFiniteSet(Pending(p)')
                    /\ Cardinality(Pending(p)') <= Cardinality(Pending(p))

LEMMA PendingFewer ==
  ASSUME NEW p \in Packages, IsFiniteSet(Pending(p)),
         \A k \in Kinds, c \in Clusters, i \in Slots :
           Uncounted(k, c, i, p)' => Uncounted(k, c, i, p)
  PROVE  NoMorePending(p)
<1>1. Pending(p)' \subseteq Pending(p)
  BY DEF Pending
<1> QED BY <1>1, FS_Subset DEF NoMorePending

\* An injection from the places after a step to the ones before it.
LEMMA PendingMoved ==
  ASSUME NEW p \in Packages, IsFiniteSet(Pending(p)), NEW f \in [Pending(p)' -> Pending(p)],
         \A x, y \in Pending(p)' : f[x] = f[y] => x = y
  PROVE  NoMorePending(p)
<1>1. f \in Injection(Pending(p)', Pending(p))
  BY DEF Injection, IsInjective
<1> QED BY <1>1, FS_Injection DEF NoMorePending

LEMMA PendingHanded ==
  ASSUME NEW p \in Packages, IsFiniteSet(Pending(p)), NEW c0 \in Clusters,
         NEW w \in Workers, NEW t \in Slots,
         \A k \in Kinds, c \in Clusters, i \in Slots : Uncounted(k, c, i, p)' =>
           \/ k = "result" /\ c = c0 /\ i = t /\ Uncounted("worker", c0, w, p)
           \/ ~(k = "worker" /\ c = c0 /\ i = w) /\ Uncounted(k, c, i, p)
  PROVE  NoMorePending(p)
<1> DEFINE from == <<"worker", c0, w>>
           to == <<"result", c0, t>>
           f == [x \in Pending(p)' |-> IF x = to /\ from \in Pending(p) THEN from ELSE x]
<1>1. from \in Kinds \X Clusters \X Slots
  BY DEF Kinds, Slots
<1>2. \A x \in Pending(p)' : \/ x = to /\ from \in Pending(p)
                             \/ x # from /\ x \in Pending(p)
  BY <1>1 DEF Pending
<1> HIDE DEF from, to
<1>3. f \in [Pending(p)' -> Pending(p)]
  BY <1>2
<1>4. \A x, y \in Pending(p)' : f[x] = f[y] => x = y
  BY <1>2
<1> HIDE DEF f
<1> QED BY <1>3, <1>4, PendingMoved

LEMMA PendingShifted ==
  ASSUME NEW p \in Packages, IsFiniteSet(Pending(p)), NEW c0 \in Clusters,
         \A k \in Kinds, c \in Clusters, i \in Slots : Uncounted(k, c, i, p)' =>
           \/ k = "monitor" /\ c = c0 /\ i = 0 /\ Uncounted("result", c0, 1, p)
           \/ ~(k = "result" /\ c = c0) /\ Uncounted(k, c, i, p)
           \/ k = "result" /\ c = c0 /\ i \in Nat \ {0} /\ Uncounted("result", c0, i + 1, p)
  PROVE  NoMorePending(p)
<1> DEFINE head == <<"result", c0, 1>>
           to == <<"monitor", c0, 0>>
           InQueue(x) == x[1] = "result" /\ x[2] = c0
           f == [x \in Pending(p)' |->
                   IF InQueue(x) THEN <<"result", c0, x[3] + 1>>
                   ELSE IF x = to /\ head \in Pending(p) THEN head ELSE x]
<1>1. /\ head \in Kinds \X Clusters \X Slots
      /\ \A i \in Nat : <<"result", c0, i + 1>> \in Kinds \X Clusters \X Slots
  BY DEF Kinds, Slots
<1>2. \A x \in Pending(p)' :
        \/ ~InQueue(x) /\ x = to /\ head \in Pending(p)
        \/ ~InQueue(x) /\ x \in Pending(p)
        \/ InQueue(x) /\ x[3] \in Nat \ {0} /\ <<"result", c0, x[3] + 1>> \in Pending(p)
           /\ x = <<"result", c0, x[3]>>
  BY <1>1 DEF Pending
<1>3. f \in [Pending(p)' -> Pending(p)]
  BY <1>2
<1>4. ASSUME NEW x \in Pending(p)', NEW y \in Pending(p)', f[x] = f[y] PROVE x = y
  <2>1. CASE InQueue(x) /\ InQueue(y)
    BY <1>2, <1>4, <2>1
  <2>2. CASE InQueue(x) /\ ~InQueue(y)
    BY <1>2, <1>4, <2>2
  <2>3. CASE ~InQueue(x) /\ InQueue(y)
    BY <1>2, <1>4, <2>3
  <2>4. CASE ~InQueue(x) /\ ~InQueue(y)
    BY <1>2, <1>4, <2>4
  <2> QED BY <2>1, <2>2, <2>3, <2>4
<1> HIDE DEF f
<1> QED BY <1>3, <1>4, PendingMoved

\* What processes do but for executing, reporting, getting and storing leaves what is
\* on its way where it is, or drops it.
LEMMA PendingDropped ==
  ASSUME NEW p \in Packages, IsFiniteSet(Pending(p)),
         \A c \in Clusters :
           /\ resultQueue'[c] = resultQueue[c] \/ resultQueue'[c] = << >>
           /\ \/ monitor'[c] = monitor[c]
              \/ monitor'[c].pc \in {"get", "ack", "exhausted"}
              \/ monitor[c].pc = "load" /\ monitor'[c].result = monitor[c].result
           /\ \A w \in Workers :
                worker'[c][w] = worker[c][w] \/ worker'[c][w].pc # "report"
  PROVE  NoMorePending(p)
<1> SUFFICES ASSUME NEW k \in Kinds, NEW c \in Clusters, NEW i \in Slots, Uncounted(k, c, i, p)'
             PROVE  Uncounted(k, c, i, p)
  BY PendingFewer
<1>0. DOMAIN << >> = {}
  OBVIOUS
<1>1. CASE k = "worker"
  BY <1>1 DEF Uncounted, At, InWorker
<1>2. CASE k = "result"
  BY <1>0, <1>2 DEF Uncounted, At
<1>3. CASE k = "monitor"
  BY <1>3 DEF Uncounted, At, InMonitor
<1> QED BY <1>1, <1>2, <1>3 DEF Uncounted

LEMMA PendingExecute ==
  ASSUME TypeInv, NEW p \in Packages, IsFiniteSet(Pending(p)),
         NEW c \in Clusters, NEW w \in Workers, Execute(c, w)
  PROVE  IF worker[c][w].task.id = p
         THEN IsFiniteSet(Pending(p)') /\ Cardinality(Pending(p)') <= Cardinality(Pending(p)) + 1
         ELSE NoMorePending(p)
<1> DEFINE x == <<"worker", c, w>>
<1>1. /\ UNCHANGED <<resultQueue, monitor, pusher, taskQueue>>
      /\ \A d \in Clusters, v \in Workers : d # c \/ v # w => worker'[d][v] = worker[d][v]
      /\ worker'[c][w].task = worker[c][w].task
  BY DEF Execute, TypeInv, TypeOK
<1>2. ASSUME NEW k \in Kinds, NEW d \in Clusters, NEW i \in Slots, Uncounted(k, d, i, p)'
      PROVE  \/ Uncounted(k, d, i, p)
             \/ k = "worker" /\ d = c /\ i = w /\ worker[c][w].task.id = p
  BY <1>1, <1>2 DEF Uncounted, At, InWorker, InMonitor
<1>3. CASE worker[c][w].task.id # p
  BY <1>2, <1>3, PendingFewer
<1>4. CASE worker[c][w].task.id = p
  <2>1. Pending(p)' \subseteq Pending(p) \cup {x}
    BY <1>2 DEF Pending
  <2>2. /\ IsFiniteSet(Pending(p) \cup {x}) /\ Cardinality(Pending(p)) \in Nat
        /\ Cardinality(Pending(p) \cup {x}) <= Cardinality(Pending(p)) + 1
    <3>1. Cardinality(Pending(p)) \in Nat
      BY FS_CardinalityType
    <3>2. /\ IsFiniteSet(Pending(p) \cup {x})
          /\ Cardinality(Pending(p) \cup {x}) =
               IF x \in Pending(p) THEN Cardinality(Pending(p)) ELSE Cardinality(Pending(p)) + 1
      BY FS_AddElement
    <3> QED BY <3>1, <3>2
  <2>3. /\ IsFiniteSet(Pending(p)')
        /\ Cardinality(Pending(p)') <= Cardinality(Pending(p) \cup {x})
        /\ Cardinality(Pending(p)') \in Nat /\ Cardinality(Pending(p) \cup {x}) \in Nat
    BY <2>1, <2>2, FS_Subset, FS_CardinalityType
  <2> QED BY <1>4, <2>2, <2>3
<1> QED BY <1>3, <1>4

LEMMA PendingReport ==
  ASSUME TypeInv, NEW p \in Packages, IsFiniteSet(Pending(p)),
         NEW c \in Clusters, NEW w \in Workers, Report(c, w)
  PROVE  NoMorePending(p)
<1> DEFINE t == Len(resultQueue[c]) + 1
<1>1. Handed(p, c, "worker", w, "result", t)
  BY WorkerMoves
<1>2. /\ monitor' = monitor /\ worker[c][w].pc = "report"
      /\ \A d \in Clusters, v \in Workers : d # c \/ v # w => worker'[d][v] = worker[d][v]
  BY DEF Report, TypeInv, TypeOK
<1>3. "worker" \in Kinds /\ "result" \in Kinds /\ w \in Slots /\ t \in Slots
  BY QueueSlots DEF Kinds, Slots, TypeInv, TypeOK
<1> HIDE DEF t
<1>4. ASSUME NEW k \in Kinds, NEW d \in Clusters, NEW i \in Slots, Uncounted(k, d, i, p)'
      PROVE  \/ k = "result" /\ d = c /\ i = t /\ Uncounted("worker", c, w, p)
             \/ ~(k = "worker" /\ d = c /\ i = w) /\ Uncounted(k, d, i, p)
  <2>1. \/ k = "result" /\ d = c /\ i = t /\ At("worker", c, w, p)
        \/ ~(k = "worker" /\ d = c /\ i = w) /\ At(k, d, i, p)
    BY <1>1, <1>4 DEF Handed, Uncounted
  <2>2. CASE k = "worker"
    <3>1. i \in Workers
      BY <2>1, <2>2 DEF At
    <3> QED BY <1>2, <1>4, <2>1, <2>2, <3>1 DEF Uncounted
  <2>3. CASE k # "worker"
    BY <1>2, <1>4, <2>1, <2>3 DEF Uncounted
  <2> QED BY <2>2, <2>3
<1> QED BY <1>3, <1>4, PendingHanded

LEMMA PendingGet ==
  ASSUME TypeInv, NEW p \in Packages, IsFiniteSet(Pending(p)), NEW c \in Clusters, Get(c)
  PROVE  NoMorePending(p)
<1>1. Shifted(p, c, "result", "monitor", 0)
  BY GetMoves
<1>2. /\ worker' = worker /\ monitor[c].pc = "get"
      /\ \A d \in Clusters : d # c => monitor'[d] = monitor[d]
  BY DEF Get, TypeInv, TypeOK
<1>3. ASSUME NEW k \in Kinds, NEW d \in Clusters, NEW i \in Slots, Uncounted(k, d, i, p)'
      PROVE  \/ k = "monitor" /\ d = c /\ i = 0 /\ Uncounted("result", c, 1, p)
             \/ ~(k = "result" /\ d = c) /\ Uncounted(k, d, i, p)
             \/ k = "result" /\ d = c /\ i \in Nat \ {0} /\ Uncounted("result", c, i + 1, p)
  <2>1. \/ k = "monitor" /\ d = c /\ i = 0 /\ At("result", c, 1, p)
        \/ ~(k = "result" /\ d = c) /\ At(k, d, i, p)
        \/ k = "result" /\ d = c /\ i \in Nat \ {0} /\ At("result", c, i + 1, p)
    BY <1>1, <1>3 DEF Shifted, Uncounted
  <2>2. CASE k = "worker"
    <3>1. Uncounted(k, d, i, p)
      BY <1>2, <1>3, <2>1, <2>2 DEF Uncounted
    <3> QED BY <2>2, <3>1
  <2>3. CASE k = "result"
    BY <2>1, <2>3 DEF Uncounted
  <2>4. CASE k = "monitor"
    <3>1. CASE d = c
      <4>0. ~InMonitor(c, p)
        BY <1>2 DEF InMonitor
      <4>1. ~At(k, d, i, p)
        BY <2>4, <3>1, <4>0 DEF At
      <4>2. i = 0 /\ At("result", c, 1, p)
        BY <2>1, <2>4, <4>1
      <4> QED BY <2>4, <3>1, <4>2 DEF Uncounted
    <3>2. CASE d # c
      <4>1. At(k, d, i, p) /\ monitor'[d] = monitor[d]
        BY <1>2, <2>1, <2>4, <3>2
      <4>2. monitor[d].pc \in {"load", "store"}
        BY <1>3, <2>4, <4>1 DEF Uncounted
      <4> QED BY <2>4, <4>1, <4>2 DEF Uncounted
    <3> QED BY <3>1, <3>2
  <2> QED BY <1>3, <2>2, <2>3, <2>4 DEF Uncounted
<1> QED BY <1>3, PendingShifted

\* Storing takes one away.
LEMMA PendingStore ==
  ASSUME TypeInv, NEW p \in Packages, IsFiniteSet(Pending(p)), NEW c \in Clusters,
         Store(c), monitor[c].result.id = p
  PROVE  IsFiniteSet(Pending(p)') /\ Cardinality(Pending(p)') + 1 <= Cardinality(Pending(p))
<1> DEFINE x == <<"monitor", c, 0>>
<1>1. /\ UNCHANGED <<worker, resultQueue>> /\ monitor[c].pc = "store"
      /\ \A d \in Clusters : d # c => monitor'[d] = monitor[d]
      /\ monitor'[c].pc \in {"exhausted", "ack"}
  BY DEF Store, Saved, TypeInv, TypeOK
<1>2. ASSUME NEW k \in Kinds, NEW d \in Clusters, NEW i \in Slots, Uncounted(k, d, i, p)'
      PROVE  Uncounted(k, d, i, p) /\ ~(k = "monitor" /\ d = c)
  BY <1>1, <1>2 DEF Uncounted, At, InWorker, InMonitor
<1>3. x \in Pending(p)
  BY <1>1 DEF Pending, Uncounted, At, InMonitor, Kinds, Slots
<1>4. Pending(p)' \subseteq Pending(p) \ {x}
  BY <1>2 DEF Pending
<1>5. /\ IsFiniteSet(Pending(p) \ {x}) /\ Cardinality(Pending(p)) \in Nat
      /\ Cardinality(Pending(p) \ {x}) = Cardinality(Pending(p)) - 1
  BY <1>3, FS_RemoveElement, FS_CardinalityType
<1>6. /\ IsFiniteSet(Pending(p)') /\ Cardinality(Pending(p)') \in Nat
      /\ Cardinality(Pending(p)') <= Cardinality(Pending(p) \ {x})
  BY <1>4, <1>5, FS_Subset, FS_CardinalityType
<1> QED BY <1>5, <1>6

LEMMA PendingSteps ==
  ASSUME TypeInv, [Next]_vars, NEW p \in Packages, IsFiniteSet(Pending(p))
  PROVE  \/ NoMorePending(p)
         \/ /\ IsFiniteSet(Pending(p)')
            /\ Cardinality(Pending(p)') <= Cardinality(Pending(p)) + 1
            /\ \E c \in Clusters, w \in Workers : Execute(c, w) /\ worker[c][w].task.id = p
<1>1. ASSUME NEW q \in Packages, Submit(q) \/ LeaseEnds(q) PROVE NoMorePending(p)
  <2>1. UNCHANGED <<worker, resultQueue, monitor>>
    BY <1>1 DEF Submit, LeaseEnds
  <2> QED BY <2>1, PendingDropped
<1>2. ASSUME NEW c \in Clusters, PusherStep(c) PROVE NoMorePending(p)
  <2>1. UNCHANGED <<worker, resultQueue, monitor>>
    BY <1>2 DEF PusherStep, DequeueOne, Dequeued, Reject, Unpack, Put
  <2> QED BY <2>1, PendingDropped
<1>3. ASSUME NEW c \in Clusters, NEW w \in Workers, Take(c, w) PROVE NoMorePending(p)
  <2>1. /\ UNCHANGED <<resultQueue, monitor>>
        /\ \A d \in Clusters, v \in Workers :
             worker'[d][v] = worker[d][v] \/ worker'[d][v].pc # "report"
    BY <1>3 DEF Take, TypeInv, TypeOK
  <2> QED BY <2>1, PendingDropped
<1>4. ASSUME NEW c \in Clusters, Skip(c) \/ Load(c) \/ Store(c) \/ AckExhausted(c) \/ Ack(c)
      PROVE  NoMorePending(p)
  <2>1. UNCHANGED <<worker, resultQueue>>
    BY <1>4 DEF Skip, Load, Store, AckExhausted, Ack
  <2>2. \A d \in Clusters :
          \/ monitor'[d] = monitor[d]
          \/ monitor'[d].pc \in {"get", "ack", "exhausted"}
          \/ monitor[d].pc = "load" /\ monitor'[d].result = monitor[d].result
    BY <1>4 DEF Skip, Load, Store, AckExhausted, Ack, Saved, Waiting, TypeInv, TypeOK
  <2> QED BY <2>1, <2>2, PendingDropped
<1>5. ASSUME NEW c \in Clusters, Failure(c) PROVE NoMorePending(p)
  <2>1. \A d \in Clusters :
          /\ resultQueue'[d] = resultQueue[d] \/ resultQueue'[d] = << >>
          /\ monitor'[d] = monitor[d] \/ monitor'[d].pc \in {"get", "ack"}
          /\ \A w \in Workers :
               worker'[d][w] = worker[d][w] \/ worker'[d][w].pc # "report"
    <3>1. CASE DatabaseError(c) \/ PusherDies(c) \/ MonitorDies(c)
      BY <3>1 DEF DatabaseError, PusherDies, MonitorDies, Saved, Waiting, TypeInv, TypeOK
    <3>2. CASE ClusterDies(c)
      BY <3>2 DEF ClusterDies, Idle, Waiting, TypeInv, TypeOK
    <3>3. ASSUME NEW w \in Workers, WorkerDies(c, w)
          PROVE  /\ UNCHANGED <<resultQueue, monitor>>
                 /\ \A d \in Clusters, v \in Workers :
                      worker'[d][v] = worker[d][v] \/ worker'[d][v].pc # "report"
      BY <3>3 DEF WorkerDies, Idle, TypeInv, TypeOK
    <3> QED BY <1>5, <3>1, <3>2, <3>3 DEF Failure
  <2> QED BY <2>1, PendingDropped
<1>6. CASE UNCHANGED vars
  BY <1>6, PendingDropped DEF vars
<1> QED BY <1>1, <1>2, <1>3, <1>4, <1>5, <1>6, PendingExecute, PendingReport, PendingGet
        DEF Next, WorkerStep, MonitorStep

-----------------------------------------------------------------------------
(* The invariant. *)

LEMMA CountInit == Init => CountInv
<1> SUFFICES ASSUME Init PROVE CountInv
  OBVIOUS
<1>1. CauseInv /\ GivenUpLate
  BY CauseInit DEF Init, LeaseInit, GivenUpLate
<1>2. ASSUME NEW p \in Packages PROVE Counted(p)
  <2>1. \A c \in Clusters : ~InMonitor(c, p)
    BY DEF Init, InMonitor, Waiting
  <2>2. Pending(p) = {}
    <3>1. ASSUME NEW k \in Kinds, NEW c \in Clusters, NEW i \in Slots PROVE ~Uncounted(k, c, i, p)
      <4>1. DOMAIN << >> = {}
        OBVIOUS
      <4> QED BY <2>1, <4>1 DEF Init, Uncounted, At, InWorker, Idle
    <3> QED BY <3>1 DEF Pending
  <2>3. IsFiniteSet(Pending(p)) /\ Cardinality(Pending(p)) = 0
    BY <2>2, FS_EmptySet
  <2>4. task[p].attempt_count = 0 /\ Executions(p) = 0
    BY DEF Init, NoRow, Executions
  <2> QED BY <2>1, <2>3, <2>4 DEF Counted
<1> QED BY <1>1, <1>2 DEF CountInv

\* A step of save_task: the row counts one more than what was found, at most.
LEMMA StoreCounts ==
  ASSUME TypeInv, NEW c \in Clusters, Store(c)
  PROVE  LET p == monitor[c].result.id
             n == monitor[c].found.attempt_count IN
         /\ p \in Packages /\ n \in Nat
         /\ \/ task'[p] = task[p]
            \/ task'[p].attempt_count = n + 1
         /\ monitor'[c].result = monitor[c].result
         /\ monitor'[c].pc \in {"exhausted", "ack"}
         /\ monitor'[c].pc = "exhausted" => MAX_ATTEMPTS <= n + 1
<1> DEFINE r == monitor[c].result
           found == monitor[c].found
           row == task_obj(found, r)
<1>1. r \in Outcome /\ r.id \in Packages /\ found \in Row /\ found.attempt_count \in Nat
  BY InHandType DEF Store, TypeInv, TypeOK, Outcome, Row
<1>2. IF Saves(found) THEN row.attempt_count = found.attempt_count + 1 ELSE row = found
  BY <1>1 DEF task_obj
<1>3. /\ task' = task \/ (Saves(found) /\ task' = [task EXCEPT ![r.id] = row])
      /\ monitor'[c].result = r
      /\ \/ monitor'[c].pc = "ack"
         \/ monitor'[c].pc = "exhausted" /\ Exhausted(row)
  BY DEF Store, Saved, TypeInv, TypeOK
<1> HIDE DEF row
<1>4. task'[r.id] = task[r.id] \/ (Saves(found) /\ task'[r.id] = row)
  BY <1>1, <1>3 DEF TypeInv, TypeOK
<1>5. Exhausted(row) => MAX_ATTEMPTS <= found.attempt_count + 1
  BY <1>1, <1>2, PipelineAssumption DEF Exhausted
<1> QED BY <1>1, <1>2, <1>3, <1>4, <1>5

LEMMA ExecuteCounts ==
  ASSUME TypeInv, NEW p \in Packages, NEW c \in Clusters, NEW w \in Workers,
         Execute(c, w), worker[c][w].task.id = p
  PROVE  Executions(p)' = Executions(p) + 1
<1>1. PICK ok \in BOOLEAN :
        /\ returned' = IF ok THEN [returned EXCEPT ![p] = @ + 1] ELSE returned
        /\ raised' = IF ok THEN raised ELSE [raised EXCEPT ![p] = @ + 1]
  BY DEF Execute
<1>2. returned \in [Packages -> Nat] /\ raised \in [Packages -> Nat]
  BY DEF TypeInv, TypeOK
<1> QED BY <1>1, <1>2 DEF Executions

\* What comes to be on its way was just executed.
LEMMA PendingExecuted ==
  ASSUME TypeInv, [Next]_vars, NEW p \in Packages, IsFiniteSet(Pending(p))
  PROVE  /\ IsFiniteSet(Pending(p)') /\ Executions(p)' >= Executions(p)
         /\ Cardinality(Pending(p)') + Executions(p) <= Cardinality(Pending(p)) + Executions(p)'
<1>0. Executions(p) \in Nat /\ Executions(p)' \in Nat
  BY TypeNext DEF Executions, TypeInv, TypeOK
<1>1. Executions(p)' = Executions(p) \/ Executions(p)' = Executions(p) + 1
  BY HistoryGrows DEF Executions
<1>2. Cardinality(Pending(p)) \in Nat
  BY FS_CardinalityType
<1>3. CASE NoMorePending(p)
  <2>1. Cardinality(Pending(p)') \in Nat
    BY <1>3, FS_CardinalityType DEF NoMorePending
  <2> QED BY <1>0, <1>1, <1>2, <1>3, <2>1 DEF NoMorePending
<1>4. CASE ~NoMorePending(p)
  <2>1. PICK c \in Clusters, w \in Workers : Execute(c, w) /\ worker[c][w].task.id = p
    BY <1>4, PendingSteps
  <2>2. IsFiniteSet(Pending(p)') /\ Cardinality(Pending(p)') <= Cardinality(Pending(p)) + 1
    BY <1>4, PendingSteps
  <2>3. Executions(p)' = Executions(p) + 1
    BY <2>1, ExecuteCounts
  <2>4. Cardinality(Pending(p)') \in Nat
    BY <2>2, FS_CardinalityType
  <2> QED BY <1>0, <1>2, <2>2, <2>3, <2>4
<1> QED BY <1>3, <1>4

\* Where one fewer is on its way there is room for one more in the row; where no more
\* are on their way than were executed the row may stay as it is.
LEMMA FewerCount ==
  ASSUME NEW n \in Nat, NEW x \in Nat, NEW y \in Nat, NEW e \in Nat, NEW f \in Nat,
         y + 1 <= x, n + x <= e, f >= e
  PROVE  n + y <= f /\ n + 1 + y <= f /\ n + 1 <= f
OBVIOUS

LEMMA KeptCount ==
  ASSUME NEW n \in Nat, NEW x \in Nat, NEW y \in Nat, NEW e \in Nat, NEW f \in Nat,
         y + e <= x + f, n + x <= e
  PROVE  n + y <= f
OBVIOUS

LEMMA CountedNext ==
  ASSUME TypeInv, [Next]_vars, NEW p \in Packages, Counted(p)
  PROVE  Counted(p)'
<1> DEFINE P == Cardinality(Pending(p))
           E == Executions(p)
<1>0. /\ MAX_ATTEMPTS \in Nat
      /\ task[p].attempt_count \in Nat /\ task'[p].attempt_count \in Nat
      /\ E \in Nat /\ E' \in Nat
      /\ \A c \in Clusters : monitor[c].pc = "store" => monitor[c].found.attempt_count \in Nat
  <2>1. TypeInv' /\ MAX_ATTEMPTS \in Nat
    BY TypeNext, PipelineAssumption
  <2>2. /\ task[p] \in Row /\ task'[p] \in Row
        /\ returned[p] \in Nat /\ raised[p] \in Nat /\ returned'[p] \in Nat /\ raised'[p] \in Nat
        /\ \A c \in Clusters : monitor[c].pc = "store" => monitor[c].found \in Row
    BY <2>1, InHandType DEF TypeInv, TypeOK
  <2> QED BY <2>1, <2>2 DEF Row, Executions
<1>1. /\ IsFiniteSet(Pending(p)') /\ E' >= E /\ P' + E <= P + E'
  BY PendingExecuted DEF Counted
<1>2. P \in Nat /\ P' \in Nat
  BY <1>1, FS_CardinalityType DEF Counted
<1>3. /\ IsFiniteSet(Pending(p)) /\ task[p].attempt_count + P <= E
      /\ \A c \in Clusters : InMonitor(c, p) =>
           /\ monitor[c].pc = "store" => monitor[c].found.attempt_count + P <= E
           /\ monitor[c].pc = "exhausted" => MAX_ATTEMPTS <= E
  BY DEF Counted
<1> SUFFICES
      /\ task'[p].attempt_count + P' <= E'
      /\ \A d \in Clusters : InMonitor(d, p)' =>
           /\ monitor'[d].pc = "store" => monitor'[d].found.attempt_count + P' <= E'
           /\ monitor'[d].pc = "exhausted" => MAX_ATTEMPTS <= E'
  BY <1>1 DEF Counted
<1> HIDE DEF P, E
<1>4. ASSUME NEW d \in Clusters, monitor'[d] = monitor[d], InMonitor(d, p)'
      PROVE  /\ monitor'[d].pc = "store" => monitor'[d].found.attempt_count + P' <= E'
             /\ monitor'[d].pc = "exhausted" => MAX_ATTEMPTS <= E'
  <2>1. InMonitor(d, p)
    BY <1>4 DEF InMonitor
  <2>2. CASE monitor[d].pc = "store"
    <3>1. monitor[d].found.attempt_count + P <= E /\ monitor[d].found.attempt_count \in Nat
      BY <1>0, <1>3, <2>1, <2>2
    <3>2. monitor[d].found.attempt_count + P' <= E'
      BY <1>0, <1>1, <1>2, <3>1, KeptCount
    <3> QED BY <1>4, <2>2, <3>2
  <2>3. CASE monitor[d].pc = "exhausted"
    BY <1>0, <1>1, <1>3, <1>4, <2>1, <2>3
  <2> QED BY <1>4, <2>2, <2>3
<1>5. CASE \E c \in Clusters : Store(c) /\ monitor[c].result.id = p
  <2>1. PICK e \in Clusters : Store(e) /\ monitor[e].result.id = p
    BY <1>5
  <2>2. P' + 1 <= P
    BY <1>3, <2>1, PendingStore DEF P
  <2> DEFINE n == monitor[e].found.attempt_count
  <2>3. /\ n \in Nat /\ monitor'[e].pc \in {"exhausted", "ack"}
        /\ task'[p] = task[p] \/ task'[p].attempt_count = n + 1
        /\ monitor'[e].pc = "exhausted" => MAX_ATTEMPTS <= n + 1
    BY <2>1, StoreCounts
  <2>4. InMonitor(e, p) /\ monitor[e].pc = "store"
    BY <2>1 DEF Store, InMonitor
  <2>5. n + P <= E
    BY <1>3, <2>4
  <2> HIDE DEF n
  <2>6. /\ task[p].attempt_count \in Nat /\ task[p].attempt_count + P <= E
        /\ P \in Nat /\ P' \in Nat /\ E \in Nat /\ E' \in Nat /\ E' >= E
        /\ n \in Nat /\ MAX_ATTEMPTS \in Nat
    BY <1>0, <1>1, <1>2, <1>3, <2>3
  <2>7. /\ task[p].attempt_count + P' <= E'
        /\ n + 1 + P' <= E' /\ n + 1 <= E'
    BY <2>2, <2>5, <2>6, FewerCount
  <2>8. task'[p].attempt_count + P' <= E'
    BY <2>3, <2>7
  <2>9. monitor'[e].pc = "exhausted" => MAX_ATTEMPTS <= E'
    BY <2>3, <2>6, <2>7
  <2>10. \A d \in Clusters : d # e => monitor'[d] = monitor[d]
    BY <2>1 DEF Store, TypeInv, TypeOK
  <2> QED BY <1>1, <1>4, <2>3, <2>8, <2>9, <2>10
<1>6. CASE ~ \E c \in Clusters : Store(c) /\ monitor[c].result.id = p
  <2>1. task'[p] = task[p]
    BY <1>6, RowSteps
  <2>2. task'[p].attempt_count + P' <= E'
    <3>1. /\ task[p].attempt_count \in Nat /\ task[p].attempt_count + P <= E
          /\ P \in Nat /\ P' \in Nat /\ E \in Nat /\ E' \in Nat /\ P' + E <= P + E'
      BY <1>0, <1>1, <1>2, <1>3
    <3> QED BY <2>1, <3>1, KeptCount
  <2>3. ASSUME NEW d \in Clusters, InMonitor(d, p)', monitor'[d] # monitor[d]
        PROVE  /\ monitor'[d].pc = "store" => monitor'[d].found = task[p]
               /\ monitor'[d].pc # "exhausted"
    <3>1. MonitorStep(d) \/ DatabaseError(d)
      BY <2>3, MonitorSteps DEF Waiting, InMonitor
    <3>2. CASE Load(d)
      <4>1. /\ monitor'[d].pc = "store" /\ monitor'[d].result = monitor[d].result
            /\ monitor'[d].found = task[monitor[d].result.id]
        BY <3>2 DEF Load, TypeInv, TypeOK
      <4> QED BY <2>3, <4>1 DEF InMonitor
    <3>3. CASE Store(d)
      <4>1. monitor'[d].result = monitor[d].result
        BY <3>3, StoreCounts
      <4> QED BY <1>6, <2>3, <3>3, <4>1 DEF InMonitor
    <3>4. CASE Get(d) \/ Skip(d) \/ AckExhausted(d) \/ Ack(d) \/ DatabaseError(d)
      <4>1. monitor'[d].pc \in {"load", "ack", "get"}
        BY <3>4 DEF Get, Skip, AckExhausted, Ack, DatabaseError, Saved, Waiting, TypeInv, TypeOK
      <4> QED BY <4>1
    <3> QED BY <3>1, <3>2, <3>3, <3>4 DEF MonitorStep
  <2>4. ASSUME NEW d \in Clusters, InMonitor(d, p)', monitor'[d] # monitor[d]
        PROVE  /\ monitor'[d].pc = "store" => monitor'[d].found.attempt_count + P' <= E'
               /\ monitor'[d].pc = "exhausted" => MAX_ATTEMPTS <= E'
    BY <2>1, <2>2, <2>3, <2>4
  <2> QED BY <1>1, <1>4, <2>2, <2>4
<1> QED BY <1>5, <1>6

\* Only these steps remove a package.
LEMMA RemovalSteps ==
  ASSUME TypeInv, [Next]_vars, NEW p \in Packages, lease'[p] = "gone"
  PROVE  lease[p] = "gone" \/ \E c \in Clusters : Ack(c) \/ AckExhausted(c) \/ Reject(c)
<1>1. ASSUME NEW c \in Clusters, NEW q \in Packages, DequeueOne(c, q) PROVE lease[p] = "gone"
  BY <1>1, ClustersAssumption DEF DequeueOne, Claim, TypeInv, TypeOK, LeaseTypeOK
<1>2. ASSUME NEW q \in Packages, Submit(q) \/ LeaseEnds(q) PROVE lease[p] = "gone"
  BY <1>2, ClustersAssumption DEF Submit, Enqueue, LeaseEnds, Expire, TypeInv, TypeOK, LeaseTypeOK
<1>3. ASSUME NEW c \in Clusters, Dequeued(c) \/ Unpack(c) \/ Put(c) PROVE lease' = lease
  BY <1>3 DEF Dequeued, Unpack, Put, brokerVars
<1>4. ASSUME NEW c \in Clusters, NEW w \in Workers, WorkerStep(c, w) PROVE lease' = lease
  BY <1>4 DEF WorkerStep, Take, Execute, Report, brokerVars
<1>5. ASSUME NEW c \in Clusters, Get(c) \/ Skip(c) \/ Load(c) \/ Store(c) PROVE lease' = lease
  BY <1>5 DEF Get, Skip, Load, Store, brokerVars
<1>6. ASSUME NEW c \in Clusters, Failure(c) PROVE lease' = lease
  BY <1>6 DEF Failure, DatabaseError, PusherDies, MonitorDies, ClusterDies, WorkerDies, brokerVars
<1>7. CASE UNCHANGED vars
  BY <1>7 DEF vars
<1> QED BY <1>1, <1>2, <1>3, <1>4, <1>5, <1>6, <1>7 DEF Next, PusherStep, MonitorStep

\* What is removed had its attempts, or it is one of the exceptions.
LEMMA GivenUpNext ==
  ASSUME CountInv, [Next]_vars PROVE GivenUpLate'
<1> SUFFICES ASSUME NEW p \in Packages, lease'[p] = "gone",
                    p \notin Tampered \cup AckFailures, returned'[p] = 0
             PROVE  raised'[p] >= MAX_ATTEMPTS
  BY DEF GivenUpLate
<1>0. /\ TypeInv /\ OutcomesBacked /\ GivenUpLate /\ Counted(p) /\ MAX_ATTEMPTS \in Nat
      /\ returned[p] \in Nat /\ raised[p] \in Nat /\ returned'[p] \in Nat /\ raised'[p] \in Nat
  BY TypeNext, PipelineAssumption DEF CountInv, CauseInv, TypeInv, TypeOK
<1>1. returned[p] = 0 /\ raised'[p] >= raised[p]
  BY <1>0, HistoryGrows
<1>2. CASE lease[p] = "gone"
  BY <1>0, <1>1, <1>2 DEF GivenUpLate
<1>3. ASSUME NEW c \in Clusters, Ack(c), lease[p] # "gone" PROVE FALSE
  <2>1. p = monitor[c].result.id /\ Conclusive(monitor[c].result) /\ monitor[c].pc = "ack"
    BY <1>3 DEF Ack, Remove
  <2> QED BY <1>0, <1>1, <2>1 DEF Conclusive, OutcomesBacked, Backed
<1>4. ASSUME NEW c \in Clusters, AckExhausted(c), lease[p] # "gone"
      PROVE  raised[p] >= MAX_ATTEMPTS
  <2>1. p = monitor[c].result.id /\ monitor[c].pc = "exhausted"
    BY <1>4 DEF AckExhausted, Remove
  <2>2. MAX_ATTEMPTS <= Executions(p)
    BY <1>0, <2>1 DEF Counted, InMonitor
  <2> QED BY <1>0, <1>1, <2>2 DEF Executions
<1>5. ASSUME NEW c \in Clusters, Reject(c), lease[p] # "gone" PROVE FALSE
  BY <1>5 DEF Reject, Remove
<1>6. lease[p] = "gone" \/ \E c \in Clusters : Ack(c) \/ AckExhausted(c) \/ Reject(c)
  BY <1>0, RemovalSteps
<1> QED BY <1>0, <1>1, <1>2, <1>3, <1>4, <1>5, <1>6

LEMMA CountNext == CountInv /\ [Next]_vars => CountInv'
<1> SUFFICES ASSUME CountInv, [Next]_vars PROVE CountInv'
  OBVIOUS
<1>1. CauseInv' /\ TypeInv
  BY CauseNext DEF CountInv, CauseInv
<1>2. \A p \in Packages : Counted(p)'
  BY <1>1, CountedNext DEF CountInv
<1> QED BY <1>1, <1>2, GivenUpNext DEF CountInv

\* However many clusters execute a package at once, however late their monitors write
\* and whatever dies, a Task row never counts more attempts than were executed.
THEOREM AttemptsWereRunAlways == Spec => []AttemptsWereRun
<1>1. ASSUME CountInv PROVE AttemptsWereRun
  <2> SUFFICES ASSUME NEW p \in Packages PROVE task[p].attempt_count <= returned[p] + raised[p]
    BY DEF AttemptsWereRun
  <2>1. Counted(p) /\ task[p].attempt_count \in Nat /\ returned[p] \in Nat /\ raised[p] \in Nat
    BY <1>1 DEF CountInv, CauseInv, TypeInv, TypeOK, Row
  <2>2. Cardinality(Pending(p)) \in Nat
    BY <2>1, FS_CardinalityType DEF Counted
  <2> QED BY <2>1, <2>2 DEF Counted, Executions
<1> QED BY <1>1, CountInit, CountNext, PTL DEF Spec

\* MAX_ATTEMPTS never gives up early, also where the row is written by several
\* monitors that have read it at different times.
THEOREM NeverGivenUpEarly == Spec => []GivenUpLate
<1>1. CountInv => GivenUpLate
  BY DEF CountInv
<1> QED BY <1>1, CountInit, CountNext, PTL DEF Spec
=============================================================================
