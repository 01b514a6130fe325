---------------------------- MODULE MCApiAccess ----------------------------
(* ApiAccess, and with it DeviceAuth, on a small instance.                 *)
EXTENDS ApiAccess
=============================================================================
