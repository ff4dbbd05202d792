------------------------------- MODULE MCDaemon -------------------------------
(* The daemon on small instances: a few clients, two dictations. *)
EXTENDS Daemon, TLC

Symmetry == Permutations(Clients)
===============================================================================
