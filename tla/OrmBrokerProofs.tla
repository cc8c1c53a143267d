-------------------------- MODULE OrmBrokerProofs --------------------------
(***************************************************************************)
(* OrmBroker for any packages, clusters, RETRY, BULK and length of time:   *)
(* type correctness, exclusive leases, and the step simulation by which it *)
(* implements LeaseBroker.                                                 *)
(***************************************************************************)
EXTENDS OrmBroker, TLAPS

Claimed(c) == got[c] \cup held[c]

\* What a SELECT has read are locks that had passed.
SeenPassed == \A c \in Clusters : \A r \in seen[c] : r[2] < now

\* Claims and SELECTs are of rows that have been in the table.
ClaimsUsed == \A c \in Clusters : \A r \in seen[c] \cup Claimed(c) : r[1] \in used

\* The lock column knows of every lease that runs, and of its holder.  So a
\* claim that is written over was of a lease that had run out.
LiveIsLock ==
  \A c \in Clusters : \A x \in Claimed(c) :
    x[2] > now => lock[x[1]] = x[2] /\ holder[x[1]] = c

\* Only an UPDATE moves a lock ahead of the clock.
LockedIsHeld == \A p \in table : lock[p] > now => holder[p] \in Clusters

LeaseInv == TypeOK /\ SeenPassed /\ ClaimsUsed /\ LiveIsLock /\ LockedIsHeld

-----------------------------------------------------------------------------
LEMMA PairEta ==
  ASSUME NEW r \in Claims
  PROVE  r[1] \in Packages /\ r[2] \in Nat /\ r = <<r[1], r[2]>>
BY DEF Claims

\* The steps below consider one action each.
LEMMA InitInv == Init => LeaseInv
BY DEF Init, LeaseInv, TypeOK, SeenPassed, ClaimsUsed, Claimed, LiveIsLock, LockedIsHeld, Claims

LEMMA TickInv == LeaseInv /\ Tick => LeaseInv'
<1> SUFFICES ASSUME LeaseInv, Tick PROVE LeaseInv'
  OBVIOUS
<1> USE DEF LeaseInv, Tick
<1>1. TypeOK'
  BY DEF TypeOK
<1>2. SeenPassed'
  <2> SUFFICES ASSUME NEW c \in Clusters, NEW r \in seen[c] PROVE r[2] < now + 1
    BY DEF SeenPassed
  <2>1. r \in Claims
    BY DEF TypeOK
  <2> QED BY <2>1, PairEta DEF SeenPassed, TypeOK
<1>3. ClaimsUsed'
  BY DEF ClaimsUsed, Claimed
<1>4. LiveIsLock'
  <2> SUFFICES ASSUME NEW c \in Clusters, NEW x \in Claimed(c), x[2] > now + 1
               PROVE  lock[x[1]] = x[2] /\ holder[x[1]] = c
    BY DEF LiveIsLock, Claimed
  <2>1. x \in Claims
    BY DEF TypeOK, Claimed
  <2> QED BY <2>1, PairEta DEF LiveIsLock, TypeOK
<1>5. LockedIsHeld'
  BY DEF LockedIsHeld, TypeOK
<1> QED BY <1>1, <1>2, <1>3, <1>4, <1>5

LEMMA EnqueueInv == ASSUME NEW p \in Packages PROVE LeaseInv /\ enqueue(p) => LeaseInv'
<1> SUFFICES ASSUME LeaseInv, enqueue(p) PROVE LeaseInv'
  OBVIOUS
<1> USE DEF LeaseInv, enqueue
<1>1. TypeOK'
  BY DEF TypeOK
<1>2. SeenPassed'
  BY DEF SeenPassed
<1>3. ClaimsUsed'
  BY DEF ClaimsUsed, Claimed
<1>4. LiveIsLock'
  <2> SUFFICES ASSUME NEW c \in Clusters, NEW x \in Claimed(c), x[2] > now
               PROVE  lock'[x[1]] = x[2] /\ holder[x[1]] = c
    BY DEF LiveIsLock, Claimed
  <2>1. x[1] # p
    BY DEF ClaimsUsed
  <2>2. x[1] \in Packages
    BY PairEta DEF TypeOK, Claimed
  <2> QED BY <2>1, <2>2 DEF LiveIsLock, TypeOK
<1>5. LockedIsHeld'
  BY DEF LockedIsHeld, TypeOK
<1> QED BY <1>1, <1>2, <1>3, <1>4, <1>5

LEMMA SelectInv == ASSUME NEW c \in Clusters PROVE LeaseInv /\ Select(c) => LeaseInv'
<1> SUFFICES ASSUME LeaseInv, Select(c) PROVE LeaseInv'
  OBVIOUS
<1> USE DEF LeaseInv
<1> PICK S \in SUBSET Dequeueable : seen' = [seen EXCEPT ![c] = {<<p, lock[p]>> : p \in S}]
  BY DEF Select
<1>0. UNCHANGED <<now, used, table, lock, got, held, holder>>
  BY DEF Select
<1>1. \A p \in S : p \in table /\ p \in Packages /\ lock[p] \in Nat /\ lock[p] < now /\ p \in used
  BY DEF Dequeueable, TypeOK
<1>2. \A d \in Clusters : \A r \in seen'[d] :
        r \in seen[d] \/ \E p \in S : r = <<p, lock[p]>>
  BY DEF TypeOK
<1>3. TypeOK'
  <2>1. {<<p, lock[p]>> : p \in S} \in SUBSET Claims
    BY <1>1 DEF Claims
  <2> QED BY <2>1, <1>0 DEF TypeOK
<1>4. SeenPassed'
  BY <1>0, <1>1, <1>2 DEF SeenPassed
<1>5. ClaimsUsed'
  BY <1>0, <1>1, <1>2 DEF ClaimsUsed, Claimed
<1>6. LiveIsLock' /\ LockedIsHeld'
  BY <1>0 DEF LiveIsLock, LockedIsHeld, Claimed
<1> QED BY <1>3, <1>4, <1>5, <1>6

LEMMA UpdateInv ==
  ASSUME NEW c \in Clusters, NEW r \in seen[c] PROVE LeaseInv /\ Update(c, r) => LeaseInv'
<1> SUFFICES ASSUME LeaseInv, Update(c, r) PROVE LeaseInv'
  OBVIOUS
<1> USE DEF LeaseInv
<1>0. /\ seen' = [seen EXCEPT ![c] = @ \ {r}]
      /\ UNCHANGED <<now, used, table, held>>
  BY DEF Update
<1>1. r[1] \in Packages /\ r[2] \in Nat /\ r[1] \in used /\ r[2] < now
  BY PairEta DEF TypeOK, ClaimsUsed, SeenPassed
<1>2. SeenPassed'
  BY <1>0 DEF SeenPassed, TypeOK
<1>3. CASE Matches(r)
  <2>1. /\ lock' = [lock EXCEPT ![r[1]] = now + RETRY]
        /\ holder' = [holder EXCEPT ![r[1]] = c]
        /\ got' = [got EXCEPT ![c] = @ \cup {<<r[1], now + RETRY>>}]
        /\ lock[r[1]] = r[2]
    BY <1>3 DEF Update, Matches, timeout
  <2>2. now + RETRY \in Nat /\ <<r[1], now + RETRY>> \in Claims
    BY <1>1, RetryAssumption DEF TypeOK, Claims
  <2>3. \A d \in Clusters : \A x \in Claimed(d)' :
          x \in Claimed(d) \/ (d = c /\ x = <<r[1], now + RETRY>>)
    BY <1>0, <2>1 DEF Claimed, TypeOK
  <2>4. TypeOK'
    BY <1>0, <2>1, <2>2, <1>1 DEF TypeOK
  <2>5. ClaimsUsed'
    BY <1>0, <1>1, <2>3 DEF ClaimsUsed, TypeOK
  <2>6. LiveIsLock'
    <3> SUFFICES ASSUME NEW d \in Clusters, NEW x \in Claimed(d)', x[2] > now
                 PROVE  lock'[x[1]] = x[2] /\ holder'[x[1]] = d
      BY <1>0 DEF LiveIsLock
    <3>1. CASE x \in Claimed(d)
      <4>1. x[1] \in Packages
        BY <3>1, PairEta DEF TypeOK, Claimed
      <4>2. lock[x[1]] = x[2] /\ holder[x[1]] = d
        BY <3>1 DEF LiveIsLock
      <4>3. x[1] # r[1]
        BY <4>2, <2>1, <1>1 DEF TypeOK
      <4> QED BY <4>1, <4>2, <4>3, <2>1 DEF TypeOK
    <3>2. CASE d = c /\ x = <<r[1], now + RETRY>>
      BY <3>2, <2>1, <1>1 DEF TypeOK
    <3> QED BY <3>1, <3>2, <2>3
  <2>7. LockedIsHeld'
    BY <1>0, <2>1, <1>1 DEF LockedIsHeld, TypeOK
  <2> QED BY <1>2, <2>4, <2>5, <2>6, <2>7
<1>4. CASE ~Matches(r)
  <2>1. UNCHANGED <<lock, holder, got>>
    BY <1>4 DEF Update
  <2>2. TypeOK'
    BY <1>0, <2>1 DEF TypeOK
  <2>3. ClaimsUsed'
    BY <1>0, <2>1 DEF ClaimsUsed, Claimed, TypeOK
  <2>4. LiveIsLock' /\ LockedIsHeld'
    BY <1>0, <2>1 DEF LiveIsLock, LockedIsHeld, Claimed
  <2> QED BY <1>2, <2>2, <2>3, <2>4
<1> QED BY <1>3, <1>4

\* Steps that only pass claims on, or forget them.
LEMMA HandOverInv ==
  ASSUME LeaseInv, TypeOK',
         UNCHANGED <<now, used, lock, holder>>, table' \subseteq table,
         \A c \in Clusters : seen'[c] \subseteq seen[c] /\ Claimed(c)' \subseteq Claimed(c)
  PROVE  LeaseInv'
<1>1. SeenPassed'
  BY DEF LeaseInv, SeenPassed
<1>2. ClaimsUsed'
  BY DEF LeaseInv, ClaimsUsed
<1>3. LiveIsLock'
  BY DEF LeaseInv, LiveIsLock
<1>4. LockedIsHeld'
  BY DEF LeaseInv, LockedIsHeld
<1> QED BY <1>1, <1>2, <1>3, <1>4 DEF LeaseInv

LEMMA NextInv == LeaseInv /\ [Next]_vars => LeaseInv'
<1> SUFFICES ASSUME LeaseInv, [Next]_vars PROVE LeaseInv'
  OBVIOUS
<1>1. CASE Tick
  BY <1>1, TickInv
<1>2. CASE purge_queue
  <2>1. TypeOK'
    BY <1>2 DEF purge_queue, LeaseInv, TypeOK
  <2> QED BY <1>2, <2>1, HandOverInv DEF purge_queue, Claimed
<1>3. ASSUME NEW p \in Packages, enqueue(p) PROVE LeaseInv'
  BY <1>3, EnqueueInv
<1>4. ASSUME NEW c \in Clusters, Select(c) PROVE LeaseInv'
  BY <1>4, SelectInv
<1>5. ASSUME NEW c \in Clusters, Return(c) PROVE LeaseInv'
  <2>1. TypeOK'
    BY <1>5 DEF Return, LeaseInv, TypeOK
  <2>2. \A d \in Clusters : seen'[d] \subseteq seen[d] /\ Claimed(d)' \subseteq Claimed(d)
    BY <1>5 DEF Return, Claimed, LeaseInv, TypeOK
  <2> QED BY <1>5, <2>1, <2>2, HandOverInv DEF Return
<1>6. ASSUME NEW c \in Clusters, Crash(c) PROVE LeaseInv'
  <2>1. TypeOK'
    BY <1>6 DEF Crash, LeaseInv, TypeOK
  <2>2. \A d \in Clusters : seen'[d] \subseteq seen[d] /\ Claimed(d)' \subseteq Claimed(d)
    BY <1>6 DEF Crash, Claimed, LeaseInv, TypeOK
  <2> QED BY <1>6, <2>1, <2>2, HandOverInv DEF Crash
<1>7. ASSUME NEW c \in Clusters, NEW r \in seen[c], Update(c, r) PROVE LeaseInv'
  BY <1>7, UpdateInv
<1>8. ASSUME NEW c \in Clusters, NEW r \in held[c], delete(c, r) PROVE LeaseInv'
  <2>1. TypeOK'
    BY <1>8 DEF delete, LeaseInv, TypeOK
  <2>2. \A d \in Clusters : seen'[d] \subseteq seen[d] /\ Claimed(d)' \subseteq Claimed(d)
    BY <1>8 DEF delete, Claimed, LeaseInv, TypeOK
  <2> QED BY <1>8, <2>1, <2>2, HandOverInv DEF delete
<1>9. CASE UNCHANGED vars
  <2>1. TypeOK'
    BY <1>9 DEF vars, LeaseInv, TypeOK
  <2> QED BY <1>9, <2>1, HandOverInv DEF vars, Claimed
<1> QED BY <1>1, <1>2, <1>3, <1>4, <1>5, <1>6, <1>7, <1>8, <1>9 DEF Next

\* The invariant holds of every behaviour.
LEMMA InvAlways == Spec => []LeaseInv
BY InitInv, NextInv, PTL DEF Spec

-----------------------------------------------------------------------------
\* The rows, SELECT results and claims of the ORM broker are well typed.
THEOREM TypeCorrect == Spec => []TypeOK
<1>1. LeaseInv => TypeOK
  BY DEF LeaseInv
<1> QED BY <1>1, InvAlways, PTL

\* Whatever the number of clusters and however their SELECTs and UPDATEs
\* interleave, no package is under two leases that both run.
THEOREM ExclusiveLeases == Spec => []OneLiveLease
<1>1. LeaseInv => OneLiveLease
  <2> SUFFICES ASSUME LeaseInv, NEW c \in Clusters, NEW d \in Clusters,
                      NEW x \in Claimed(c), NEW y \in Claimed(d),
                      x[1] = y[1], x[2] > now, y[2] > now
               PROVE  c = d /\ x = y
    BY DEF OneLiveLease, Claimed
  <2>1. /\ lock[x[1]] = x[2] /\ holder[x[1]] = c
        /\ lock[y[1]] = y[2] /\ holder[y[1]] = d
    BY DEF LeaseInv, LiveIsLock
  <2>2. x = <<x[1], x[2]>> /\ y = <<y[1], y[2]>>
    BY PairEta DEF LeaseInv, TypeOK, Claimed
  <2> QED BY <2>1, <2>2
<1> QED BY <1>1, InvAlways, PTL

-----------------------------------------------------------------------------
(* The refinement: each step is a step of LeaseBroker on leaseBar, or none. *)

\* What leaseBar says of a row by what is known of it.
LEMMA BarValues ==
  ASSUME LeaseInv, NEW p \in Packages
  PROVE  /\ p \notin used => leaseBar[p] = "new"
         /\ p \in used /\ p \notin table => leaseBar[p] = "gone"
         /\ p \in table /\ lock[p] <= now => leaseBar[p] = "free"
         /\ p \in table /\ lock[p] > now => leaseBar[p] = holder[p] /\ holder[p] \in Clusters
  BY DEF LeaseInv, LockedIsHeld, TypeOK, leaseBar, Unlocked

LEMMA BarStored ==
  ASSUME LeaseInv, NEW p \in Packages
  PROVE  leaseBar[p] \notin {"new", "gone"} <=> p \in table
<1>1. p \in table => lock[p] <= now \/ lock[p] > now
  BY DEF LeaseInv, TypeOK
<1>2. table \subseteq used
  BY DEF LeaseInv, TypeOK
<1> QED BY <1>1, <1>2, BarValues, ClusterAssumption

\* A step that concerns one row only changes leaseBar there only.
LEMMA BarChanges ==
  ASSUME NEW p \in Packages, p \in used', p \in table',
         \A q \in Packages \ {p} : /\ q \in used' <=> q \in used
                                   /\ q \in table' <=> q \in table
                                   /\ q \in Unlocked' <=> q \in Unlocked
                                   /\ holder'[q] = holder[q]
  PROVE  /\ p \in Unlocked' => leaseBar' = [leaseBar EXCEPT ![p] = "free"]
         /\ p \notin Unlocked' => leaseBar' = [leaseBar EXCEPT ![p] = holder'[p]]
<1>1. \A q \in Packages \ {p} : leaseBar'[q] = leaseBar[q]
  BY DEF leaseBar
<1>2. leaseBar'[p] = IF p \in Unlocked' THEN "free" ELSE holder'[p]
  BY DEF leaseBar
<1>3. /\ leaseBar' = [q \in Packages |-> leaseBar'[q]]
      /\ \A v : [leaseBar EXCEPT ![p] = v] = [q \in Packages |-> IF q = p THEN v ELSE leaseBar[q]]
  BY DEF leaseBar
<1> QED BY <1>1, <1>2, <1>3

LEMMA BarInit == Init => Lease!LeaseInit
  BY DEF Init, Lease!LeaseInit, leaseBar

\* The clock: the leases that run out at the new time expire together.
LEMMA TickRefines == LeaseInv /\ Tick => \E S \in SUBSET Packages : Lease!Expire(S)
<1> SUFFICES ASSUME LeaseInv, Tick PROVE \E S \in SUBSET Packages : Lease!Expire(S)
  OBVIOUS
<1> DEFINE S == {p \in table : lock[p] > now /\ lock[p] <= now + 1}
<1>1. S \in SUBSET Packages
  BY DEF LeaseInv, TypeOK
<1>2. \A p \in S : leaseBar[p] \in Clusters
  BY <1>1, BarValues
<1>3. leaseBar' = [p \in Packages |-> IF p \in S THEN "free" ELSE leaseBar[p]]
  BY DEF Tick, leaseBar, Unlocked, LeaseInv, TypeOK
<1> QED BY <1>1, <1>2, <1>3 DEF Lease!Expire, Lease!Leased

LEMMA EnqueueRefines ==
  ASSUME NEW p \in Packages PROVE LeaseInv /\ enqueue(p) => Lease!Enqueue(p)
<1> SUFFICES ASSUME LeaseInv, enqueue(p) PROVE Lease!Enqueue(p)
  OBVIOUS
<1>1. leaseBar[p] = "new"
  BY BarValues DEF enqueue
<1>2. p \in used' /\ p \in Unlocked'
  BY DEF enqueue, Unlocked, LeaseInv, TypeOK
<1>3. \A q \in Packages \ {p} : /\ q \in used' <=> q \in used
                                /\ q \in table' <=> q \in table
                                /\ q \in Unlocked' <=> q \in Unlocked
                                /\ holder'[q] = holder[q]
  BY DEF enqueue, Unlocked, LeaseInv, TypeOK
<1>4. p \in table'
  BY DEF enqueue
<1>5. leaseBar' = [leaseBar EXCEPT ![p] = "free"]
  BY <1>2, <1>3, <1>4, BarChanges
<1> QED BY <1>1, <1>5 DEF Lease!Enqueue

\* The UPDATE that finds the row as it was read is the claim.
LEMMA UpdateRefines ==
  ASSUME NEW c \in Clusters, NEW r \in seen[c]
  PROVE  LeaseInv /\ Update(c, r) => (\E p \in Packages : Lease!Claim(c, p)) \/ UNCHANGED leaseBar
<1> SUFFICES ASSUME LeaseInv, Update(c, r)
             PROVE  (\E p \in Packages : Lease!Claim(c, p)) \/ UNCHANGED leaseBar
  OBVIOUS
<1>0. UNCHANGED <<now, used, table>>
  BY DEF Update
<1>1. r[1] \in Packages /\ r[2] < now
  BY PairEta DEF LeaseInv, TypeOK, SeenPassed
<1>2. CASE Matches(r)
  <2>1. /\ lock' = [lock EXCEPT ![r[1]] = now + RETRY]
        /\ holder' = [holder EXCEPT ![r[1]] = c]
        /\ r[1] \in table /\ lock[r[1]] = r[2]
    BY <1>2 DEF Update, Matches, timeout
  <2>2. leaseBar[r[1]] = "free"
    BY <2>1, <1>1, BarValues DEF LeaseInv, TypeOK
  <2>3. ~(lock'[r[1]] <= now')
    <3>1. lock'[r[1]] = now + RETRY
      BY <1>1, <2>1 DEF LeaseInv, TypeOK
    <3>2. now \in Nat /\ RETRY \in Nat \ {0} /\ now' = now
      BY <1>0, RetryAssumption DEF LeaseInv, TypeOK
    <3>3. ~(now + RETRY <= now)
      BY <3>2
    <3> QED BY <3>1, <3>2, <3>3
  <2>4. /\ r[1] \in used' /\ r[1] \in table' /\ r[1] \notin Unlocked'
        /\ holder'[r[1]] = c
    <3>1. r[1] \in used /\ r[1] \in table
      BY <2>1 DEF LeaseInv, TypeOK
    <3>2. holder'[r[1]] = c
      BY <1>1, <2>1 DEF LeaseInv, TypeOK
    <3> QED BY <1>0, <3>1, <3>2, <2>3 DEF Unlocked
  <2>5. \A q \in Packages \ {r[1]} : /\ q \in used' <=> q \in used
                                     /\ q \in table' <=> q \in table
                                     /\ q \in Unlocked' <=> q \in Unlocked
                                     /\ holder'[q] = holder[q]
    BY <1>0, <1>1, <2>1 DEF Unlocked, LeaseInv, TypeOK
  <2>6. leaseBar' = [leaseBar EXCEPT ![r[1]] = c]
    BY <1>1, <2>4, <2>5, BarChanges
  <2> QED BY <1>1, <2>2, <2>6 DEF Lease!Claim
<1>3. CASE ~Matches(r)
  BY <1>0, <1>3 DEF Update, leaseBar, Unlocked
<1> QED BY <1>2, <1>3

\* Deleting rows, whoever asks: what is not in the table stays as it is.
LEMMA DeleteRefines ==
  ASSUME LeaseInv, NEW S \in SUBSET Packages, table' = table \ S,
         UNCHANGED <<now, used, lock, holder>>
  PROVE  Lease!Remove(S)
<1>1. leaseBar' = [p \in Packages |-> IF p \in S /\ p \in table THEN "gone" ELSE leaseBar[p]]
  BY DEF leaseBar, Unlocked, LeaseInv, TypeOK
<1> QED BY <1>1, BarStored DEF Lease!Remove, Lease!Stored

LEMMA StepRefines == LeaseInv /\ [Next]_vars => [Lease!LeaseNext]_leaseBar
<1> SUFFICES ASSUME LeaseInv, [Next]_vars PROVE Lease!LeaseNext \/ UNCHANGED leaseBar
  OBVIOUS
<1> USE DEF Lease!LeaseNext
<1>1. CASE Tick
  BY <1>1, TickRefines
<1>2. CASE purge_queue
  <2>1. table \in SUBSET Packages
    BY DEF LeaseInv, TypeOK
  <2>2. Lease!Remove(table)
    BY <1>2, <2>1, DeleteRefines DEF purge_queue
  <2> QED BY <2>1, <2>2
<1>3. ASSUME NEW p \in Packages, enqueue(p) PROVE Lease!LeaseNext
  BY <1>3, EnqueueRefines
<1>4. ASSUME NEW c \in Clusters, Select(c) \/ Return(c) \/ Crash(c) PROVE UNCHANGED leaseBar
  BY <1>4 DEF Select, Return, Crash, leaseBar, Unlocked
<1>5. ASSUME NEW c \in Clusters, NEW r \in seen[c], Update(c, r)
      PROVE  Lease!LeaseNext \/ UNCHANGED leaseBar
  BY <1>5, UpdateRefines
<1>6. ASSUME NEW c \in Clusters, NEW r \in held[c], delete(c, r) PROVE Lease!LeaseNext
  <2>1. {r[1]} \in SUBSET Packages
    BY PairEta DEF LeaseInv, TypeOK
  <2>2. Lease!Remove({r[1]})
    BY <1>6, <2>1, DeleteRefines DEF delete
  <2> QED BY <2>1, <2>2
<1>7. CASE UNCHANGED vars
  BY <1>7 DEF vars, leaseBar, Unlocked
<1> QED BY <1>1, <1>2, <1>3, <1>4, <1>5, <1>6, <1>7 DEF Next

\* The ORM broker's SELECT and conditional UPDATE implement the lease broker
\* that Pipeline is built on, for any number of clusters and packages.
THEOREM Implementation == Spec => ImplementsLease
  BY BarInit, StepRefines, InvAlways, PTL DEF Spec, ImplementsLease, Lease!LeaseSpec
=============================================================================
