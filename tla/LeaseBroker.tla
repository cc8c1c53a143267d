---------------------------- MODULE LeaseBroker ----------------------------
(***************************************************************************)
(* What a receipt-keeping broker (ORM, Mongo, SQS, IronMQ) promises the    *)
(* clusters that share it.  A package is handed to one cluster at a time   *)
(* under a lease of RETRY seconds, becomes available again when the lease  *)
(* runs out, and is gone for good once anyone acknowledges or deletes it.  *)
(***************************************************************************)
CONSTANTS Packages,   \* every package that may ever be enqueued
          Clusters    \* the clusters that dequeue from the broker

ASSUME ClustersAssumption == Clusters \cap {"new", "free", "gone"} = {}

VARIABLE lease        \* lease[p] is "new", "free", "gone" or p's leaseholder

Leased(p) == lease[p] \in Clusters
Stored(p) == lease[p] \notin {"new", "gone"}

LeaseTypeOK == lease \in [Packages -> {"new", "free", "gone"} \cup Clusters]

LeaseInit == lease = [p \in Packages |-> "new"]

Enqueue(p) == /\ lease[p] = "new"
              /\ lease' = [lease EXCEPT ![p] = "free"]

\* Faulty variant: a stored package is claimed whatever lease it is under.
ClaimStored(c, p) == /\ Stored(p)
                     /\ lease' = [lease EXCEPT ![p] = c]

Claim(c, p) == /\ lease[p] = "free"
               /\ lease' = [lease EXCEPT ![p] = c]

\* Leases run out, several at once when the clock passes them together.
Expire(S) == /\ \A p \in S : Leased(p)
             /\ lease' = [p \in Packages |-> IF p \in S THEN "free" ELSE lease[p]]

\* acknowledge, delete and fail: whoever asks and whatever lease there is; a
\* package the broker does not store is left as it is.
Remove(S) == lease' = [p \in Packages |->
                         IF p \in S /\ Stored(p) THEN "gone" ELSE lease[p]]

LeaseNext == \/ \E p \in Packages : Enqueue(p)
             \/ \E c \in Clusters, p \in Packages : Claim(c, p)
             \/ \E S \in SUBSET Packages : Expire(S) \/ Remove(S)

LeaseSpec == LeaseInit /\ [][LeaseNext]_lease
=============================================================================
