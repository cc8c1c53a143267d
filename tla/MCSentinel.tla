----------------------------- MODULE MCSentinel -----------------------------
(* Sentinel as it is; the constants are in the configurations. *)
EXTENDS Sentinel
=============================================================================
