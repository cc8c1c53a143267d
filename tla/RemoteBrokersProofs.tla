------------------------ MODULE RemoteBrokersProofs ------------------------
(***************************************************************************)
(* RemoteBrokers for any packages, clusters, RETRY and BULK, whichever     *)
(* broker is chosen: type correctness, exclusive leases, that nothing is   *)
(* lost, and the step simulation by which each implements LeaseBroker.     *)
(***************************************************************************)
EXTENDS RemoteBrokers, TLAPS

Claims == Packages \X (0..MaxTime)

Claimed(c) == batch[c] \cup held[c]

\* What is claimed has been sent: a package still to be sent is in no hand.
ClaimsSent == \A c \in Clusters : \A x \in Claimed(c) : x[1] \in ToSet(sent)

\* The lock column knows of every lease that runs, and of its holder; a service
\* that hands out a package whose lock has passed ends no lease that runs.
LiveIsLock ==
  Receipts => \A c \in Clusters : \A x \in Claimed(c) :
                x[2] > timeout => lock[x[1]] = x[2] /\ holder[x[1]] = c

\* Only what was handed out is locked.
LockedIsHeld == \A p \in Locked : holder[p] \in Clusters

RemoteInv == TypeOK /\ ClaimsSent /\ LiveIsLock /\ LockedIsHeld /\ KeptUntilConcluded

-----------------------------------------------------------------------------
LEMMA ClaimParts ==
  ASSUME NEW x \in Claims
  PROVE  x[1] \in Packages /\ x[2] \in 0..MaxTime /\ x = <<x[1], x[2]>>
BY DEF Claims

\* What is sent, before and after one more.
LEMMA SentSet ==
  ASSUME NEW s \in Seq(Packages), NEW p \in Packages
  PROVE  /\ ToSet(s) \subseteq Packages
         /\ Append(s, p) \in Seq(Packages)
         /\ ToSet(Append(s, p)) = ToSet(s) \cup {p}
<1>1. /\ DOMAIN s = 1..Len(s) /\ Len(s) \in Nat
      /\ \A i \in 1..Len(s) : s[i] \in Packages
  OBVIOUS
<1>2. /\ Append(s, p) \in Seq(Packages)
      /\ DOMAIN Append(s, p) = 1..(Len(s) + 1)
      /\ \A i \in 1..Len(s) : Append(s, p)[i] = s[i]
      /\ Append(s, p)[Len(s) + 1] = p
  OBVIOUS
<1>3. ASSUME NEW q PROVE q \in ToSet(Append(s, p)) <=> q \in ToSet(s) \/ q = p
  <2>1. q \in ToSet(Append(s, p)) => q \in ToSet(s) \/ q = p
    <3> SUFFICES ASSUME NEW i \in 1..(Len(s) + 1), q = Append(s, p)[i]
                 PROVE  q \in ToSet(s) \/ q = p
      BY <1>2 DEF ToSet
    <3>1. i \in 1..Len(s) \/ i = Len(s) + 1
      BY <1>1
    <3> QED BY <1>1, <1>2, <3>1 DEF ToSet
  <2>2. q \in ToSet(s) => q \in ToSet(Append(s, p))
    <3> SUFFICES ASSUME NEW i \in 1..Len(s), q = s[i]
                 PROVE  q \in ToSet(Append(s, p))
      BY <1>1 DEF ToSet
    <3>1. i \in 1..(Len(s) + 1) /\ Append(s, p)[i] = q
      BY <1>1, <1>2
    <3> QED BY <1>2, <3>1 DEF ToSet
  <2>3. p \in ToSet(Append(s, p))
    <3>1. Len(s) + 1 \in 1..(Len(s) + 1)
      BY <1>1
    <3> QED BY <1>2, <3>1 DEF ToSet
  <2> QED BY <2>1, <2>2, <2>3
<1>4. ToSet(s) \subseteq Packages
  BY <1>1 DEF ToSet
<1> QED BY <1>2, <1>3, <1>4

LEMMA QueueType == ASSUME TypeOK PROVE queue \subseteq Packages /\ ToSet(sent) \subseteq Packages
<1>1. /\ DOMAIN sent = 1..Len(sent)
      /\ \A i \in 1..Len(sent) : sent[i] \in Packages
  BY DEF TypeOK
<1>2. ToSet(sent) \subseteq Packages
  BY <1>1 DEF ToSet
<1> QED BY <1>2 DEF TypeOK

LEMMA TimeoutType ==
  ASSUME TypeOK PROVE now \in Nat /\ timeout \in Int /\ timeout < now /\ RETRY \in Nat
BY RetryAssumption, MaxTimeAssumption DEF TypeOK, timeout

-----------------------------------------------------------------------------
LEMMA InitInv == Init => RemoteInv
<1> SUFFICES ASSUME Init PROVE RemoteInv
  OBVIOUS
<1>1. ToSet(<< >>) = {}
  BY DEF ToSet
<1>2. TypeOK
  BY <1>1, RetryAssumption, MaxTimeAssumption DEF Init, TypeOK
<1>3. ClaimsSent /\ LiveIsLock /\ KeptUntilConcluded
  BY <1>1 DEF Init, ClaimsSent, LiveIsLock, Claimed, KeptUntilConcluded
<1>4. LockedIsHeld
  BY DEF Init, LockedIsHeld, Locked
<1> QED BY <1>2, <1>3, <1>4 DEF RemoteInv

LEMMA TickInv == RemoteInv /\ Tick => RemoteInv'
<1> SUFFICES ASSUME RemoteInv, Tick PROVE RemoteInv'
  OBVIOUS
<1> USE DEF RemoteInv
<1>0. UNCHANGED <<kind, sent, queue, lock, batch, held, holder, concluded, popped>>
  BY DEF Tick
<1>1. now' = now + 1 /\ now' \in 0..MaxTime
  BY MaxTimeAssumption DEF Tick, TypeOK
<1>2. TypeOK'
  BY <1>0, <1>1 DEF TypeOK
<1>3. ClaimsSent' /\ KeptUntilConcluded'
  BY <1>0 DEF ClaimsSent, Claimed, KeptUntilConcluded, Receipts
<1>4. timeout' = timeout + 1 /\ timeout \in Int
  BY <1>1, TimeoutType DEF timeout, TypeOK
<1>5. LiveIsLock'
  <2> SUFFICES ASSUME Receipts, NEW c \in Clusters, NEW x \in Claimed(c), x[2] > timeout + 1
               PROVE  lock[x[1]] = x[2] /\ holder[x[1]] = c
    BY <1>0, <1>4 DEF LiveIsLock, Claimed, Receipts
  <2>1. x[2] \in Int
    BY ClaimParts DEF TypeOK, Claims, Claimed
  <2>2. x[2] > timeout
    BY <2>1, <1>4
  <2> QED BY <2>2 DEF LiveIsLock
<1>6. LockedIsHeld'
  <2>1. ASSUME NEW p \in Locked' PROVE p \in Locked /\ holder'[p] = holder[p]
    <3>1. p \in queue /\ Receipts /\ lock[p] > timeout + 1
      BY <1>0, <1>4, <2>1 DEF Locked, Receipts
    <3>2. p \in Packages
      BY <3>1, QueueType
    <3>3. lock[p] > timeout
      BY <3>1, <3>2, <1>4 DEF TypeOK
    <3> QED BY <3>1, <3>3, <1>0 DEF Locked
  <2> QED BY <2>1, <1>0 DEF LockedIsHeld
<1> QED BY <1>2, <1>3, <1>5, <1>6

LEMMA EnqueueInv == ASSUME NEW p \in Packages PROVE RemoteInv /\ enqueue(p) => RemoteInv'
<1> SUFFICES ASSUME RemoteInv, enqueue(p) PROVE RemoteInv'
  OBVIOUS
<1> USE DEF RemoteInv
<1>0. /\ p \notin ToSet(sent) /\ queue' = queue \cup {p}
      /\ lock' = [lock EXCEPT ![p] = timeout]
      /\ UNCHANGED <<kind, now, batch, held, holder, concluded, popped>>
  BY DEF enqueue
<1>1. sent' \in Seq(Packages) /\ ToSet(sent') = ToSet(sent) \cup {p}
  BY SentSet DEF enqueue, TypeOK
<1>2. timeout \in (-RETRY)..MaxTime /\ timeout' = timeout
  BY <1>0, RetryAssumption, MaxTimeAssumption DEF timeout, TypeOK
<1>3. TypeOK'
  BY <1>0, <1>1, <1>2 DEF TypeOK
<1>4. ClaimsSent'
  BY <1>0, <1>1 DEF ClaimsSent, Claimed
<1>5. LiveIsLock'
  <2> SUFFICES ASSUME Receipts, NEW c \in Clusters, NEW x \in Claimed(c), x[2] > timeout
               PROVE  lock'[x[1]] = x[2] /\ holder[x[1]] = c
    BY <1>0, <1>2 DEF LiveIsLock, Claimed, Receipts
  <2>1. x[1] # p
    BY <1>0 DEF ClaimsSent
  <2>2. x[1] \in Packages
    BY ClaimParts DEF TypeOK, Claims, Claimed
  <2> QED BY <1>0, <2>1, <2>2 DEF LiveIsLock, TypeOK
<1>6. LockedIsHeld'
  <2>1. ASSUME NEW q \in Locked' PROVE q \in Locked
    <3>1. /\ q \in queue \cup {p} /\ Receipts /\ lock'[q] > timeout
      BY <1>0, <1>2, <2>1 DEF Locked, Receipts
    <3>2. q # p
      BY <1>0, <1>2, <3>1 DEF TypeOK
    <3>3. q \in queue /\ q \in Packages
      BY <3>1, <3>2, SentSet DEF TypeOK
    <3> QED BY <1>0, <3>1, <3>2, <3>3 DEF Locked, TypeOK
  <2> QED BY <1>0, <2>1 DEF LockedIsHeld
<1>7. KeptUntilConcluded'
  BY <1>0, <1>1 DEF KeptUntilConcluded, Receipts
<1> QED BY <1>3, <1>4, <1>5, <1>6, <1>7

LEMMA ReceiveInv ==
  ASSUME NEW c \in Clusters, NEW p \in Packages PROVE RemoteInv /\ Receive(c, p) => RemoteInv'
<1> SUFFICES ASSUME RemoteInv, Receive(c, p) PROVE RemoteInv'
  OBVIOUS
<1> USE DEF RemoteInv
<1>0. /\ p \in Unlocked
      /\ queue' = IF Receipts THEN queue ELSE queue \ {p}
      /\ lock' = [lock EXCEPT ![p] = now]
      /\ holder' = [holder EXCEPT ![p] = c]
      /\ batch' = [batch EXCEPT ![c] = @ \cup {<<p, now>>}]
      /\ popped' = IF Receipts THEN popped ELSE popped \cup {p}
      /\ UNCHANGED <<kind, now, sent, held, concluded>>
  BY DEF Receive, Offered, Remains, Taken
<1>1. p \in queue /\ p \in ToSet(sent) /\ (Receipts => lock[p] <= timeout)
  BY <1>0 DEF Unlocked, TypeOK
<1>2. now \in 0..MaxTime /\ now \in (-RETRY)..MaxTime /\ timeout' = timeout
  BY <1>0, RetryAssumption, MaxTimeAssumption DEF TypeOK, timeout
<1>3. TypeOK'
  BY <1>0, <1>1, <1>2 DEF TypeOK
<1>4. \A d \in Clusters : \A x \in Claimed(d)' :
        x \in Claimed(d) \/ (d = c /\ x = <<p, now>>)
  BY <1>0 DEF Claimed, TypeOK
<1>5. ClaimsSent'
  BY <1>0, <1>1, <1>4 DEF ClaimsSent
<1>6. LiveIsLock'
  <2> SUFFICES ASSUME Receipts, NEW d \in Clusters, NEW x \in Claimed(d)', x[2] > timeout
               PROVE  lock'[x[1]] = x[2] /\ holder'[x[1]] = d
    BY <1>0, <1>2 DEF LiveIsLock, Receipts
  <2>1. CASE x \in Claimed(d)
    <3>1. x[1] \in Packages
      BY <2>1, ClaimParts DEF TypeOK, Claims, Claimed
    <3>2. lock[x[1]] = x[2] /\ holder[x[1]] = d
      BY <2>1 DEF LiveIsLock
    <3>3. x[1] # p
      BY <3>2, <1>1, TimeoutType DEF TypeOK
    <3> QED BY <1>0, <3>1, <3>2, <3>3 DEF TypeOK
  <2>2. CASE d = c /\ x = <<p, now>>
    BY <1>0, <2>2 DEF TypeOK
  <2> QED BY <1>4, <2>1, <2>2
<1>7. LockedIsHeld'
  <2>1. ASSUME NEW q \in Locked', q # p PROVE q \in Locked /\ holder'[q] = holder[q]
    <3>1. q \in queue /\ q \in Packages /\ Receipts /\ lock'[q] > timeout
      BY <1>0, <1>2, <2>1, SentSet DEF Locked, Receipts, TypeOK
    <3> QED BY <1>0, <2>1, <3>1 DEF Locked, TypeOK
  <2>2. holder'[p] = c
    BY <1>0 DEF TypeOK
  <2> QED BY <2>1, <2>2 DEF LockedIsHeld
<1>8. KeptUntilConcluded'
  BY <1>0 DEF KeptUntilConcluded, Receipts
<1> QED BY <1>3, <1>5, <1>6, <1>7, <1>8

\* Steps that pass claims on, or forget them, and packages that are concluded.
LEMMA HandOverInv ==
  ASSUME RemoteInv, TypeOK',
         UNCHANGED <<kind, now, sent, lock, holder, popped>>,
         queue' \subseteq queue, queue \cup concluded \subseteq queue' \cup concluded',
         \A c \in Clusters : Claimed(c)' \subseteq Claimed(c)
  PROVE  RemoteInv'
<1>1. ClaimsSent'
  BY DEF RemoteInv, ClaimsSent
<1>2. LiveIsLock'
  BY DEF RemoteInv, LiveIsLock, Receipts, timeout
<1>3. LockedIsHeld'
  BY DEF RemoteInv, LockedIsHeld, Locked, Receipts, timeout
<1>4. KeptUntilConcluded'
  BY DEF RemoteInv, KeptUntilConcluded, Receipts
<1> QED BY <1>1, <1>2, <1>3, <1>4 DEF RemoteInv

LEMMA DeleteInv ==
  ASSUME NEW c \in Clusters, NEW r \in held[c] PROVE RemoteInv /\ Delete(c, r) => RemoteInv'
<1> SUFFICES ASSUME RemoteInv, Delete(c, r) PROVE RemoteInv'
  OBVIOUS
<1>1. /\ held' = [held EXCEPT ![c] = @ \ {r}]
      /\ UNCHANGED <<kind, now, sent, lock, batch, holder, popped>>
      /\ \/ queue' = queue \ {r[1]} /\ concluded' = concluded \cup {r[1]}
         \/ UNCHANGED <<queue, concluded>>
  BY DEF Delete
<1>2. r[1] \in ToSet(sent)
  BY DEF RemoteInv, ClaimsSent, Claimed
<1>3. TypeOK'
  BY <1>1, <1>2 DEF RemoteInv, TypeOK
<1>4. \A d \in Clusters : Claimed(d)' \subseteq Claimed(d)
  BY <1>1 DEF RemoteInv, TypeOK, Claimed
<1>5. queue' \subseteq queue /\ queue \cup concluded \subseteq queue' \cup concluded'
  BY <1>1
<1> QED BY <1>1, <1>3, <1>4, <1>5, HandOverInv

LEMMA NextInv == RemoteInv /\ [Next]_vars => RemoteInv'
<1> SUFFICES ASSUME RemoteInv, [Next]_vars PROVE RemoteInv'
  OBVIOUS
<1>1. CASE Tick
  BY <1>1, TickInv
<1>2. CASE Purge
  <2>1. TypeOK'
    BY <1>2 DEF Purge, RemoteInv, TypeOK
  <2>2. queue' \subseteq queue /\ queue \cup concluded \subseteq queue' \cup concluded'
    BY <1>2 DEF Purge
  <2> QED BY <1>2, <2>1, <2>2, HandOverInv DEF Purge, Claimed
<1>3. ASSUME NEW p \in Packages, enqueue(p) PROVE RemoteInv'
  BY <1>3, EnqueueInv
<1>4. ASSUME NEW c \in Clusters, Return(c) PROVE RemoteInv'
  <2>1. TypeOK'
    BY <1>4 DEF Return, RemoteInv, TypeOK
  <2>2. \A d \in Clusters : Claimed(d)' \subseteq Claimed(d)
    BY <1>4 DEF Return, RemoteInv, TypeOK, Claimed
  <2> QED BY <1>4, <2>1, <2>2, HandOverInv DEF Return
<1>5. ASSUME NEW c \in Clusters, Crash(c) PROVE RemoteInv'
  <2>1. TypeOK'
    BY <1>5 DEF Crash, RemoteInv, TypeOK
  <2>2. \A d \in Clusters : Claimed(d)' \subseteq Claimed(d)
    BY <1>5 DEF Crash, RemoteInv, TypeOK, Claimed
  <2> QED BY <1>5, <2>1, <2>2, HandOverInv DEF Crash
<1>6. ASSUME NEW c \in Clusters, NEW p \in Packages, Receive(c, p) PROVE RemoteInv'
  BY <1>6, ReceiveInv
<1>7. ASSUME NEW c \in Clusters, NEW r \in held[c], Delete(c, r) PROVE RemoteInv'
  BY <1>7, DeleteInv
<1>8. CASE UNCHANGED vars
  <2>1. TypeOK'
    BY <1>8 DEF vars, RemoteInv, TypeOK
  <2> QED BY <1>8, <2>1, HandOverInv DEF vars, Claimed
<1> QED BY <1>1, <1>2, <1>3, <1>4, <1>5, <1>6, <1>7, <1>8 DEF Next

\* The invariant holds of every behaviour.
LEMMA InvAlways == Spec => []RemoteInv
BY InitInv, NextInv, PTL DEF Spec

-----------------------------------------------------------------------------
\* The state of the remote brokers is well typed, whichever is chosen.
THEOREM TypeCorrect == Spec => []TypeOK
<1>1. RemoteInv => TypeOK
  BY DEF RemoteInv
<1> QED BY <1>1, InvAlways, PTL

\* MongoDB, SQS and IronMQ never have a package under two leases that both run,
\* for any number of clusters that dequeue, delete late and die.
THEOREM ExclusiveLeases == Spec => []OneLiveLease
<1>1. RemoteInv => OneLiveLease
  <2> SUFFICES ASSUME RemoteInv, Receipts, NEW c \in Clusters, NEW d \in Clusters,
                      NEW x \in Claimed(c), NEW y \in Claimed(d),
                      x[1] = y[1], x[2] > timeout, y[2] > timeout
               PROVE  c = d /\ x = y
    BY DEF OneLiveLease, Claimed
  <2>1. /\ lock[x[1]] = x[2] /\ holder[x[1]] = c
        /\ lock[y[1]] = y[2] /\ holder[y[1]] = d
    BY DEF RemoteInv, LiveIsLock
  <2>2. x = <<x[1], x[2]>> /\ y = <<y[1], y[2]>>
    BY ClaimParts DEF RemoteInv, TypeOK, Claimed, Claims
  <2> QED BY <2>1, <2>2
<1> QED BY <1>1, InvAlways, PTL

\* A broker with receipts stores every package until somebody deletes it, Redis
\* until it hands it out, whoever dies.
THEOREM NothingLost == Spec => []KeptUntilConcluded
<1>1. RemoteInv => KeptUntilConcluded
  BY DEF RemoteInv
<1> QED BY <1>1, InvAlways, PTL

-----------------------------------------------------------------------------
(* The refinement: each step is a step of LeaseBroker on leaseBar, or none. *)

\* Every stored package is locked or not.
LEMMA LockedOrNot == ASSUME RemoteInv PROVE /\ queue = Unlocked \cup Locked
                                            /\ Unlocked \cap Locked = {}
<1>1. ASSUME NEW p \in queue PROVE (Receipts => lock[p] <= timeout) <=> ~(Receipts /\ lock[p] > timeout)
  <2>1. lock[p] \in Int /\ timeout \in Int
    BY <1>1, QueueType, TimeoutType DEF RemoteInv, TypeOK
  <2> QED BY <2>1
<1> QED BY <1>1 DEF Unlocked, Locked

\* What leaseBar says of a package by what is known of it.
LEMMA BarValues ==
  ASSUME RemoteInv, NEW p \in Packages
  PROVE  /\ p \notin ToSet(sent) => leaseBar[p] = "new"
         /\ p \in ToSet(sent) /\ p \notin queue => leaseBar[p] = "gone"
         /\ p \in Unlocked => leaseBar[p] = "free"
         /\ p \in Locked => leaseBar[p] = holder[p] /\ holder[p] \in Clusters
<1>1. /\ queue \subseteq ToSet(sent)
      /\ Unlocked \subseteq queue /\ Locked \subseteq queue /\ Unlocked \cap Locked = {}
  BY LockedOrNot DEF RemoteInv, TypeOK
<1>2. p \in Locked => holder[p] \in Clusters
  BY DEF RemoteInv, LockedIsHeld
<1> QED BY <1>1, <1>2 DEF leaseBar

LEMMA BarStored ==
  ASSUME RemoteInv, NEW p \in Packages PROVE leaseBar[p] \notin {"new", "gone"} <=> p \in queue
<1>1. queue \subseteq ToSet(sent) /\ queue = Unlocked \cup Locked
  BY LockedOrNot DEF RemoteInv, TypeOK
<1> QED BY <1>1, BarValues, ClusterAssumption

\* A step that concerns one package only changes leaseBar there only.
LEMMA BarChanges ==
  ASSUME NEW p \in Packages,
         \A q \in Packages \ {p} : /\ q \in ToSet(sent') <=> q \in ToSet(sent)
                                   /\ q \in Unlocked' <=> q \in Unlocked
                                   /\ q \in Locked' <=> q \in Locked
                                   /\ holder'[q] = holder[q]
  PROVE  leaseBar' = [leaseBar EXCEPT ![p] = leaseBar'[p]]
<1>1. \A q \in Packages \ {p} : leaseBar'[q] = leaseBar[q]
  BY DEF leaseBar
<1>2. /\ leaseBar' = [q \in Packages |-> leaseBar'[q]]
      /\ \A v : [leaseBar EXCEPT ![p] = v] = [q \in Packages |-> IF q = p THEN v ELSE leaseBar[q]]
  BY DEF leaseBar
<1> QED BY <1>1, <1>2

LEMMA BarInit == Init => Lease!LeaseInit
<1>1. ToSet(<< >>) = {}
  BY DEF ToSet
<1> QED BY <1>1 DEF Init, Lease!LeaseInit, leaseBar

\* The clock: the leases that run out at the new time expire together.
LEMMA TickRefines == RemoteInv /\ Tick => \E S \in SUBSET Packages : Lease!Expire(S)
<1> SUFFICES ASSUME RemoteInv, Tick PROVE \E S \in SUBSET Packages : Lease!Expire(S)
  OBVIOUS
<1> DEFINE S == Locked \cap Unlocked'
<1>0. RemoteInv' /\ UNCHANGED <<kind, sent, queue, lock, holder>>
  BY TickInv DEF Tick
<1>1. S \in SUBSET Packages
  BY QueueType DEF RemoteInv, Locked
<1>2. \A p \in S : leaseBar[p] \in Clusters
  BY <1>1, BarValues
<1>3. timeout' = timeout + 1 /\ timeout \in Int
  BY TimeoutType, RetryAssumption DEF Tick, timeout, RemoteInv, TypeOK
<1>4. ASSUME NEW p \in queue
      PROVE  /\ p \in Locked <=> p \notin Unlocked
             /\ p \in Locked' <=> p \notin Unlocked'
             /\ p \in Unlocked => p \in Unlocked'
  <2>1. lock[p] \in Int
    BY QueueType DEF RemoteInv, TypeOK
  <2> QED BY <1>0, <1>3, <2>1 DEF Unlocked, Locked, Receipts
<1>5. ASSUME NEW p \in Packages
      PROVE  leaseBar'[p] = IF p \in S THEN "free" ELSE leaseBar[p]
  <2>1. CASE p \in queue
    <3>1. p \in ToSet(sent)
      BY <2>1 DEF RemoteInv, TypeOK
    <3> QED BY <1>0, <1>4, <2>1, <3>1 DEF leaseBar
  <2>2. CASE p \notin queue
    BY <1>0, <2>2 DEF leaseBar, Unlocked, Locked
  <2> QED BY <2>1, <2>2
<1>6. leaseBar' = [p \in Packages |-> IF p \in S THEN "free" ELSE leaseBar[p]]
  BY <1>5 DEF leaseBar
<1> QED BY <1>1, <1>2, <1>6 DEF Lease!Expire, Lease!Leased

LEMMA EnqueueRefines == ASSUME NEW p \in Packages PROVE RemoteInv /\ enqueue(p) => Lease!Enqueue(p)
<1> SUFFICES ASSUME RemoteInv, enqueue(p) PROVE Lease!Enqueue(p)
  OBVIOUS
<1>0. /\ RemoteInv' /\ p \notin ToSet(sent) /\ queue' = queue \cup {p}
      /\ lock' = [lock EXCEPT ![p] = timeout]
      /\ UNCHANGED <<kind, now, holder>>
  BY EnqueueInv DEF enqueue
<1>1. ToSet(sent') = ToSet(sent) \cup {p}
  BY SentSet DEF enqueue, RemoteInv, TypeOK
<1>2. leaseBar[p] = "new"
  BY <1>0, BarValues
<1>3. timeout' = timeout /\ timeout \in Int /\ lock'[p] = timeout
  BY <1>0, TimeoutType DEF timeout, RemoteInv, TypeOK
<1>4. p \in Unlocked'
  BY <1>0, <1>3 DEF Unlocked
<1>5. leaseBar'[p] = "free"
  BY <1>1, <1>4 DEF leaseBar
<1>6. ASSUME NEW q \in Packages \ {p}
      PROVE  /\ q \in Unlocked' <=> q \in Unlocked
             /\ q \in Locked' <=> q \in Locked
  <2>1. lock'[q] = lock[q]
    BY <1>0 DEF RemoteInv, TypeOK
  <2> QED BY <2>1, <1>0, <1>3 DEF Unlocked, Locked, Receipts
<1>7. leaseBar' = [leaseBar EXCEPT ![p] = "free"]
  BY <1>0, <1>1, <1>5, <1>6, BarChanges
<1> QED BY <1>2, <1>7 DEF Lease!Enqueue

\* Handing out under a lease is the claim; a Redis pop removes.
LEMMA ReceiveRefines ==
  ASSUME NEW c \in Clusters, NEW p \in Packages, RemoteInv, Receive(c, p)
  PROVE  Lease!Claim(c, p) \/ Lease!Remove({p})
<1>0. /\ p \in Unlocked
      /\ queue' = IF Receipts THEN queue ELSE queue \ {p}
      /\ lock' = [lock EXCEPT ![p] = now]
      /\ holder' = [holder EXCEPT ![p] = c]
      /\ UNCHANGED <<kind, now, sent>>
  BY DEF Receive, Offered, Remains, Taken
<1>1. leaseBar[p] = "free" /\ p \in queue /\ p \in ToSet(sent)
  BY <1>0, BarValues DEF Unlocked, RemoteInv, TypeOK
<1>2. timeout' = timeout /\ timeout < now /\ now \in Nat /\ timeout \in Int
  BY <1>0, TimeoutType DEF timeout, RemoteInv
<1>3. ASSUME NEW q \in Packages \ {p}
      PROVE  /\ q \in Unlocked' <=> q \in Unlocked
             /\ q \in Locked' <=> q \in Locked
             /\ holder'[q] = holder[q]
  <2>1. lock'[q] = lock[q] /\ holder'[q] = holder[q]
    BY <1>0 DEF RemoteInv, TypeOK
  <2> QED BY <2>1, <1>0, <1>2 DEF Unlocked, Locked, Receipts
<1>4. leaseBar' = [leaseBar EXCEPT ![p] = leaseBar'[p]]
  BY <1>0, <1>3, BarChanges
<1>5. CASE Receipts
  <2>1. lock'[p] = now /\ holder'[p] = c
    BY <1>0 DEF RemoteInv, TypeOK
  <2>2. p \in Locked' /\ p \notin Unlocked'
    BY <1>0, <1>1, <1>2, <1>5, <2>1 DEF Locked, Unlocked, Receipts
  <2>3. leaseBar'[p] = c
    BY <1>0, <1>1, <2>1, <2>2 DEF leaseBar
  <2> QED BY <1>1, <1>4, <2>3 DEF Lease!Claim
<1>6. CASE ~Receipts
  <2>1. p \notin Unlocked' /\ p \notin Locked'
    BY <1>0, <1>6 DEF Unlocked, Locked
  <2>2. leaseBar'[p] = "gone"
    BY <1>0, <1>1, <2>1 DEF leaseBar
  <2>3. leaseBar' = [q \in Packages |-> IF q = p THEN "gone" ELSE leaseBar[q]]
    BY <1>4, <2>2 DEF leaseBar
  <2> QED BY <1>1, <2>3 DEF Lease!Remove, Lease!Stored
<1> QED BY <1>5, <1>6

\* Deleting, whoever asks: what is not stored stays as it is.
LEMMA DeleteRefines ==
  ASSUME RemoteInv, NEW S \in SUBSET Packages, queue' = queue \ S,
         UNCHANGED <<kind, now, sent, lock, holder>>
  PROVE  Lease!Remove(S)
<1>1. leaseBar' = [p \in Packages |-> IF p \in S /\ p \in queue THEN "gone" ELSE leaseBar[p]]
  BY DEF leaseBar, Unlocked, Locked, Receipts, timeout, RemoteInv, TypeOK
<1> QED BY <1>1, BarStored DEF Lease!Remove, Lease!Stored

LEMMA StepRefines == RemoteInv /\ [Next]_vars => [Lease!LeaseNext]_leaseBar
<1> SUFFICES ASSUME RemoteInv, [Next]_vars PROVE Lease!LeaseNext \/ UNCHANGED leaseBar
  OBVIOUS
<1> USE DEF Lease!LeaseNext
<1>1. CASE Tick
  BY <1>1, TickRefines
<1>2. CASE Purge
  <2>1. queue \in SUBSET Packages
    BY QueueType DEF RemoteInv
  <2>2. Lease!Remove(queue)
    BY <1>2, <2>1, DeleteRefines DEF Purge
  <2> QED BY <2>1, <2>2
<1>3. ASSUME NEW p \in Packages, enqueue(p) PROVE Lease!LeaseNext
  BY <1>3, EnqueueRefines
<1>4. ASSUME NEW c \in Clusters, Return(c) \/ Crash(c) PROVE UNCHANGED leaseBar
  BY <1>4 DEF Return, Crash, leaseBar, Unlocked, Locked, Receipts, timeout
<1>5. ASSUME NEW c \in Clusters, NEW p \in Packages, Receive(c, p) PROVE Lease!LeaseNext
  <2>1. {p} \in SUBSET Packages
    OBVIOUS
  <2> QED BY <1>5, <2>1, ReceiveRefines
<1>6. ASSUME NEW c \in Clusters, NEW r \in held[c], Delete(c, r)
      PROVE  Lease!LeaseNext \/ UNCHANGED leaseBar
  <2>1. {r[1]} \in SUBSET Packages
    BY QueueType DEF RemoteInv, ClaimsSent, Claimed
  <2>2. UNCHANGED <<kind, now, sent, lock, holder>>
    BY <1>6 DEF Delete
  <2>3. CASE queue' = queue \ {r[1]}
    BY <2>1, <2>2, <2>3, DeleteRefines
  <2>4. CASE UNCHANGED queue
    BY <2>2, <2>4 DEF leaseBar, Unlocked, Locked, Receipts, timeout
  <2> QED BY <1>6, <2>3, <2>4 DEF Delete
<1>7. CASE UNCHANGED vars
  BY <1>7 DEF vars, leaseBar, Unlocked, Locked, Receipts, timeout
<1> QED BY <1>1, <1>2, <1>3, <1>4, <1>5, <1>6, <1>7 DEF Next

\* MongoDB, SQS, IronMQ and Redis each implement the lease broker the pipeline is
\* built on, for any number of clusters and packages.
THEOREM Implementation == Spec => ImplementsLease
  BY BarInit, StepRefines, InvAlways, PTL DEF Spec, ImplementsLease, Lease!LeaseSpec
=============================================================================
