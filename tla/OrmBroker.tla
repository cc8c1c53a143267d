----------------------------- MODULE OrmBroker -----------------------------
(***************************************************************************)
(* The ORM broker (django_q/brokers/orm.py): the queue is the OrmQ table   *)
(* and a row's lock timestamp is both its version and its lease.  dequeue  *)
(* reads up to BULK rows whose lock has passed in one SELECT and then, row *)
(* by row, tries to move the lock RETRY into the future with an UPDATE     *)
(* that names the lock it read; another cluster may get there first.       *)
(***************************************************************************)
EXTENDS Integers, FiniteSets

CONSTANTS Packages,  \* primary keys, in the order of nothing in particular
          Clusters,  \* the pushers that dequeue, one per cluster
          RETRY,     \* Conf.RETRY, the length of a lease
          BULK,      \* Conf.BULK, the rows one SELECT returns at most
          MaxTime    \* bound: the model's clock stops here

ASSUME RetryAssumption == RETRY \in Nat \ {0}
ASSUME BulkAssumption == BULK \in Nat \ {0}
ASSUME MaxTimeAssumption == MaxTime \in Nat
ASSUME ClusterAssumption == Clusters \cap {"new", "free", "gone"} = {}

VARIABLES now,     \* timezone.now(), the clock all hosts share
          used,    \* the primary keys handed out so far
          table,   \* the rows in OrmQ
          lock,    \* lock[p]: row p's lock column
          seen,    \* seen[c]: <<id, lock>> of the SELECT's rows yet to be updated
          got,     \* got[c]: what this dequeue has claimed so far
          held,    \* held[c]: the claims c's callers may still acknowledge
          holder   \* history: whose UPDATE moved row p's lock last

vars == <<now, used, table, lock, seen, got, held, holder>>

\* A claim is <<id, lock written>>; dequeue returns the ids only.
Claims == Packages \X Nat

TypeOK == /\ now \in Nat
          /\ used \subseteq Packages
          /\ table \subseteq used
          /\ lock \in [Packages -> Nat]
          /\ seen \in [Clusters -> SUBSET Claims]
          /\ got \in [Clusters -> SUBSET Claims]
          /\ held \in [Clusters -> SUBSET Claims]
          /\ holder \in [Packages -> Clusters \cup {"free"}]

Init == /\ now = 0
        /\ used = {}
        /\ table = {}
        /\ lock = [p \in Packages |-> 0]
        /\ seen = [c \in Clusters |-> {}]
        /\ got = [c \in Clusters |-> {}]
        /\ held = [c \in Clusters |-> {}]
        /\ holder = [p \in Packages |-> "free"]

-----------------------------------------------------------------------------
timeout == now + RETRY

\* queue_size and lock_size count these rows.
Unlocked == {p \in table : lock[p] <= now}
Locked == {p \in table : lock[p] > now}

Tick == /\ now < MaxTime
        /\ now' = now + 1
        /\ UNCHANGED <<used, table, lock, seen, got, held, holder>>

enqueue(p) == /\ p \notin used
              /\ used' = used \cup {p}
              /\ table' = table \cup {p}
              /\ lock' = [lock EXCEPT ![p] = now]
              /\ UNCHANGED <<now, seen, got, held, holder>>

\* Faulty variant: rows are selected whatever their lock.
DequeueableLocked == table

\* What the SELECT may return: the query has no order, so any BULK rows.
Dequeueable == {p \in table : lock[p] < now}

Select(c) ==
  /\ seen[c] = {} /\ got[c] = {}
  /\ \E S \in SUBSET Dequeueable :
       /\ S # {}
       /\ Cardinality(S) = BULK \/ (S = Dequeueable /\ Cardinality(S) <= BULK)
       /\ seen' = [seen EXCEPT ![c] = {<<p, lock[p]>> : p \in S}]
  /\ UNCHANGED <<now, used, table, lock, got, held, holder>>

\* Faulty variant: an UPDATE that does not name the lock it read.
MatchesId(r) == r[1] \in table

\* The row the UPDATE's filter(id, lock) still finds.
Matches(r) == r[1] \in table /\ lock[r[1]] = r[2]

\* The UPDATE of one row, which takes the row or finds it changed.
Update(c, r) ==
  /\ r \in seen[c]
  /\ seen' = [seen EXCEPT ![c] = @ \ {r}]
  /\ \/ /\ Matches(r)
        /\ lock' = [lock EXCEPT ![r[1]] = timeout]
        /\ holder' = [holder EXCEPT ![r[1]] = c]
        /\ got' = [got EXCEPT ![c] = @ \cup {<<r[1], timeout>>}]
     \/ /\ ~Matches(r)
        /\ UNCHANGED <<lock, holder, got>>
  /\ UNCHANGED <<now, used, table, held>>

\* dequeue returns its task_list to the pusher.
Return(c) == /\ seen[c] = {} /\ got[c] # {}
             /\ held' = [held EXCEPT ![c] = @ \cup got[c]]
             /\ got' = [got EXCEPT ![c] = {}]
             /\ UNCHANGED <<now, used, table, lock, seen, holder>>

\* acknowledge, delete and fail delete by primary key: the claim may be old.
delete(c, r) == /\ r \in held[c]
                /\ held' = [held EXCEPT ![c] = @ \ {r}]
                /\ table' = table \ {r[1]}
                /\ UNCHANGED <<now, used, lock, seen, got, holder>>

purge_queue == /\ table # {}
               /\ table' = {}
               /\ UNCHANGED <<now, used, lock, seen, got, held, holder>>

\* The cluster dies: what it had read and claimed is forgotten.
Crash(c) == /\ seen[c] \cup got[c] \cup held[c] # {}
            /\ seen' = [seen EXCEPT ![c] = {}]
            /\ got' = [got EXCEPT ![c] = {}]
            /\ held' = [held EXCEPT ![c] = {}]
            /\ UNCHANGED <<now, used, table, lock, holder>>

Next == \/ Tick
        \/ purge_queue
        \/ \E p \in Packages : enqueue(p)
        \/ \E c \in Clusters :
             \/ Select(c) \/ Return(c) \/ Crash(c)
             \/ \E r \in seen[c] : Update(c, r)
             \/ \E r \in held[c] : delete(c, r)

Spec == Init /\ [][Next]_vars

-----------------------------------------------------------------------------
\* Two clusters never hold the same package under leases that both run: the
\* comment in dequeue, "else don't process, as another cluster has been faster
\* than us on that task", must cover every interleaving of SELECTs and UPDATEs,
\* also after crashes and with claims that outlived their lease.
OneLiveLease ==
  \A c, d \in Clusters :
    \A x \in got[c] \cup held[c], y \in got[d] \cup held[d] :
      (x[1] = y[1] /\ x[2] > now /\ y[2] > now) => c = d /\ x = y

\* The ORM broker implements the abstract lease broker.  A row is free exactly
\* when queue_size counts it, and leased, to the cluster whose UPDATE won,
\* exactly when lock_size does.
leaseBar == [p \in Packages |->
               IF p \notin used THEN "new"
               ELSE IF p \notin table THEN "gone"
               ELSE IF p \in Unlocked THEN "free" ELSE holder[p]]

Lease == INSTANCE LeaseBroker WITH lease <- leaseBar

ImplementsLease == Lease!LeaseSpec
=============================================================================
