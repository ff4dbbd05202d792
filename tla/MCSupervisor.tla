------------------------------ MODULE MCSupervisor ------------------------------
(* The supervisor with the most general callers, two generations. *)
EXTENDS Supervisor
=================================================================================
