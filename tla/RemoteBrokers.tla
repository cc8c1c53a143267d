--------------------------- MODULE RemoteBrokers ---------------------------
(***************************************************************************)
(* The brokers that keep their queue in a service: MongoDB, Amazon SQS and *)
(* IronMQ, which hand packages out under leases, and Redis, which does     *)
(* not: its dequeue pops.  One module for the four, since they differ in a *)
(* few operators.  What MongoDB is asked to do is in the code; how SQS and *)
(* IronMQ hide a message for RETRY seconds is taken from the calls.        *)
(***************************************************************************)
EXTENDS Integers, FiniteSets, Sequences, SequencesExt

CONSTANTS Packages, Clusters,
          RETRY,     \* Conf.RETRY
          BULK,      \* Conf.BULK
          MaxTime    \* bound: the model's clock stops here

ASSUME RetryAssumption == RETRY \in Nat \ {0}
ASSUME BulkAssumption == BULK \in Nat \ {0}
ASSUME MaxTimeAssumption == MaxTime \in Nat
ASSUME ClusterAssumption == Clusters \cap {"new", "free", "gone"} = {}

VARIABLES kind,      \* the broker get_broker has chosen
          now,       \* the clock all hosts share
          sent,      \* the packages enqueued, in order
          queue,     \* what the service stores, in the order of sent
          lock,      \* lock[p]: when p was handed out, RETRY ago if never
          batch,     \* batch[c]: <<package, time>> of what a dequeue has got so far
          held,      \* held[c]: the same for what c has in hand
          holder,    \* history: who was handed p last
          concluded, \* history: deleted by a receipt or purged
          popped     \* history: what Redis has handed out

vars == <<kind, now, sent, queue, lock, batch, held, holder, concluded, popped>>

Settings == {"iron_mq", "sqs", "orm", "mongo"}

\* The broker class for a set of configured settings; orm is OrmBroker's.
get_broker(conf) == CASE "iron_mq" \in conf -> "iron_mq"
                      [] "iron_mq" \notin conf /\ "sqs" \in conf -> "sqs"
                      [] conf \cap {"iron_mq", "sqs", "orm"} = {"orm"} -> "orm"
                      [] conf = {"mongo"} -> "mongo"
                      [] OTHER -> "redis"

Brokers == {get_broker(conf) : conf \in SUBSET Settings} \ {"orm"}

TypeOK == /\ kind \in Brokers
          /\ now \in 0..MaxTime
          /\ sent \in Seq(Packages) /\ queue \subseteq ToSet(sent)
          /\ lock \in [Packages -> (-RETRY)..MaxTime]
          /\ batch \in [Clusters -> SUBSET (Packages \X (0..MaxTime))]
          /\ held \in [Clusters -> SUBSET (Packages \X (0..MaxTime))]
          /\ holder \in [Packages -> Clusters \cup {"free"}]
          /\ concluded \subseteq ToSet(sent)
          /\ popped \subseteq ToSet(sent)

Init == /\ kind \in Brokers
        /\ now = 0
        /\ sent = <<>> /\ queue = {} /\ popped = {}
        /\ lock = [p \in Packages |-> -RETRY]
        /\ batch = [c \in Clusters |-> {}]
        /\ held = [c \in Clusters |-> {}]
        /\ holder = [p \in Packages |-> "free"]
        /\ concluded = {}

-----------------------------------------------------------------------------
Receipts == kind # "redis"

\* _timeout(): what was handed out by then is available again.
timeout == now - RETRY

\* queue_size and lock_size count these.
Unlocked == {p \in queue : Receipts => lock[p] <= timeout}
Locked == {p \in queue : Receipts /\ lock[p] > timeout}

Tick == /\ now < MaxTime
        /\ now' = now + 1
        /\ UNCHANGED <<kind, sent, queue, lock, batch, held, holder, concluded, popped>>

enqueue(p) == /\ p \notin ToSet(sent)
              /\ sent' = Append(sent, p)
              /\ queue' = queue \cup {p}
              /\ lock' = [lock EXCEPT ![p] = timeout]
              /\ UNCHANGED <<kind, now, batch, held, holder, concluded, popped>>

-----------------------------------------------------------------------------
\* How many packages one dequeue returns at most: SQS never gives more than 10.
Batch == CASE kind \in {"redis", "mongo"} -> 1
           [] kind = "sqs" -> IF BULK > 10 THEN 10 ELSE BULK
           [] kind = "iron_mq" -> BULK

IsHead(p) == \E i \in DOMAIN sent : sent[i] = p /\ \A j \in 1..(i - 1) : sent[j] \notin queue

\* Faulty variant: documents are found whatever their lock.
OfferedLocked(p) == p \in queue /\ (~Receipts => IsHead(p))

\* blpop takes the head, the others any that is available.
Offered(p) == p \in Unlocked /\ (~Receipts => IsHead(p))

\* Faulty variant: every broker's dequeue removes what it returns.
RemainsPopped(p) == queue \ {p}

Remains(p) == IF Receipts THEN queue ELSE queue \ {p}

\* Faulty variant: the lock is set to _timeout() as in enqueue, not to now.
TakenTimeout == timeout

\* find_one_and_update sets the lock to timezone.now().
Taken == now

\* The service hands p out; a batch is gathered one by one, as others interleave.
Receive(c, p) ==
  /\ Cardinality(batch[c]) < Batch
  /\ Offered(p)
  /\ queue' = Remains(p)
  /\ lock' = [lock EXCEPT ![p] = Taken]
  /\ holder' = [holder EXCEPT ![p] = c]
  /\ batch' = [batch EXCEPT ![c] = @ \cup {<<p, now>>}]
  /\ popped' = IF Receipts THEN popped ELSE popped \cup {p}
  /\ UNCHANGED <<kind, now, sent, held, concluded>>

\* dequeue returns.
Return(c) == /\ batch[c] # {}
             /\ held' = [held EXCEPT ![c] = @ \cup batch[c]]
             /\ batch' = [batch EXCEPT ![c] = {}]
             /\ UNCHANGED <<kind, now, sent, queue, lock, holder, concluded, popped>>

\* Monitor and pusher let go of r with acknowledge or fail, all of them delete;
\* without a receipt nothing is called, and Redis would do nothing.  SQS and
\* IronMQ may refuse a receipt whose time has passed: the pusher's and the
\* monitor's call ignores that.
Delete(c, r) ==
  /\ r \in held[c]
  /\ held' = [held EXCEPT ![c] = @ \ {r}]
  /\ \/ /\ Receipts
        /\ queue' = queue \ {r[1]}
        /\ concluded' = concluded \cup {r[1]}
     \/ /\ kind = "redis" \/ (kind \in {"sqs", "iron_mq"} /\ r[2] <= timeout)
        /\ UNCHANGED <<queue, concluded>>
  /\ UNCHANGED <<kind, now, sent, lock, batch, holder, popped>>

\* delete_queue, and purge_queue, which empties the queue in its own way.
Purge == /\ queue # {}
         /\ queue' = {}
         /\ concluded' = concluded \cup queue
         /\ UNCHANGED <<kind, now, sent, lock, batch, held, holder, popped>>

\* The cluster dies with what it has in hand.
Crash(c) == /\ batch[c] \cup held[c] # {}
            /\ batch' = [batch EXCEPT ![c] = {}]
            /\ held' = [held EXCEPT ![c] = {}]
            /\ UNCHANGED <<kind, now, sent, queue, lock, holder, concluded, popped>>

Next == \/ Tick
        \/ Purge
        \/ \E p \in Packages : enqueue(p)
        \/ \E c \in Clusters : \/ Return(c) \/ Crash(c)
                               \/ \E p \in Packages : Receive(c, p)
                               \/ \E r \in held[c] : Delete(c, r)

Spec == Init /\ [][Next]_vars

-----------------------------------------------------------------------------
\* A broker with receipts never has the same package in two hands under leases
\* that both run, although anyone may delete it at any time.
OneLiveLease ==
  Receipts => \A c, d \in Clusters : \A x \in batch[c] \cup held[c], y \in batch[d] \cup held[d] :
                (x[1] = y[1] /\ x[2] > timeout /\ y[2] > timeout) => c = d /\ x = y

\* With receipts a package is in the service until somebody has deleted it, also
\* when all who had it in hand have died.  Redis keeps what it has not handed out.
KeptUntilConcluded ==
  \A p \in ToSet(sent) : \/ p \in queue \cup concluded
                         \/ ~Receipts /\ p \in popped

\* Each of the four implements the lease contract the rest of the system uses;
\* a Redis pop is both a claim and a removal, so there nothing is ever leased.
leaseBar == [p \in Packages |-> IF p \notin ToSet(sent) THEN "new"
                                ELSE IF p \in Unlocked THEN "free"
                                ELSE IF p \in Locked THEN holder[p] ELSE "gone"]

Lease == INSTANCE LeaseBroker WITH lease <- leaseBar

ImplementsLease == Lease!LeaseSpec
=============================================================================
