-------------------------------- MODULE MCSystem --------------------------------
(* The daemon and the supervisor together, on a small instance. *)
EXTENDS System
=================================================================================
