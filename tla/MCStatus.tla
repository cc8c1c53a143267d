------------------------------ MODULE MCStatus ------------------------------
(* Status with two clusters, one of them busy. *)
EXTENDS Status
=============================================================================
