--------------------------- MODULE MCWorkerTimer ---------------------------
(* WorkerTimer with small timeouts; LimitAndNone has the -1 a .cfg cannot. *)
EXTENDS WorkerTimer

LimitAndNone == {2, -1}
=============================================================================
