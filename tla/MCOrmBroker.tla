---------------------------- MODULE MCOrmBroker ----------------------------
(* Model values and symmetry for checking OrmBroker with TLC. *)
EXTENDS OrmBroker, TLC

Symmetry == Permutations(Packages) \cup Permutations(Clusters)
=============================================================================
