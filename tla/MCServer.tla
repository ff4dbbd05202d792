------------------------------- MODULE MCServer -------------------------------
(* The socket on a small instance: two daemons, two connections, one permit.  *)
EXTENDS Server
===============================================================================
