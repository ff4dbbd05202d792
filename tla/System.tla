--------------------------------- MODULE System ---------------------------------
(***************************************************************************)
(* The daemon with the supervisor behind it instead of the supervisor's    *)
(* contract: what main.rs builds.  They share the command channel, the     *)
(* replies and the watched status, and nothing else.                       *)
(***************************************************************************)
EXTENDS Daemon

VARIABLES phase, finals, slot, canceledGen, active  \* as in module Supervisor

supervisor == <<phase, finals, slot, canceledGen, active>>

Sup == INSTANCE Supervisor

SystemInit == Init /\ Sup!Init

\* accepted and canceled show what the supervisor really holds.
SystemNext ==
  \/ /\ \/ \E c \in Clients, op \in Commands \cap Operation : IssueCommand(c, op)
        \/ SignalShutdown
        \/ ActorNext
        \/ TaskNext
     /\ UNCHANGED supervisor
  \/ /\ Sup!SupervisorNext
     /\ accepted' = Sup!Accepted' /\ canceled' = canceledGen'
     /\ UNCHANGED daemonVars

systemVars == <<vars, supervisor>>

SystemSpec == SystemInit /\ [][SystemNext]_systemVars

\* Each half is scheduled as in its own module.
FairSystem == SystemSpec /\ DaemonFairness /\ Sup!SupervisorFairness
-------------------------------------------------------------------------------
\* The daemon and the supervisor together are the daemon with the contract:
\* what was checked of the one on its own holds of the two together.
ImplementsDaemon == Spec
=================================================================================
