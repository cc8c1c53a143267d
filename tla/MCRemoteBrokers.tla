-------------------------- MODULE MCRemoteBrokers --------------------------
(* RemoteBrokers with clusters that may be exchanged for each other. *)
EXTENDS RemoteBrokers, TLC

Symmetry == Permutations(Clusters)
=============================================================================
