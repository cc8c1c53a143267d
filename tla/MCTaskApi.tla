------------------------------ MODULE MCTaskApi ------------------------------
(* TaskApi, and with it Results, on small instances. *)
EXTENDS TaskApi

Setting(limit, per, cached) == [SAVE_LIMIT |-> limit, SAVE_LIMIT_PER |-> per, CACHED |-> cached]

MCSettings == {Setting(0, "None", FALSE), Setting(1, "None", FALSE), Setting(1, "name", FALSE),
               Setting(1, "group", FALSE), Setting(-1, "None", TRUE), Setting(0, "None", TRUE)}

\* Limits differ in which rows go; for a caller one is enough.
MCApiSettings == {Setting(0, "None", FALSE), Setting(1, "None", FALSE), Setting(0, "None", TRUE)}

Symmetry == Permutations(Monitors)
=============================================================================
