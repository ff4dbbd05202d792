------------------------------ MODULE MCSupervisorLive ----------------------------
(* The supervisor with callers that listen until each reply has come: for the *)
(* liveness properties, on two generations.                                    *)
EXTENDS Supervisor

CONSTANT MaxQueued  \* bound on the command channel; the code's holds 32

ListeningCaller ==
  /\ Len(commands) < MaxQueued
  /\ UNCHANGED <<private, status, unseen>>
  /\ \/ \E r \in Contract!Request :
          /\ oneshot[r] = "closed"
          /\ Contract!SendRequest(r)
          /\ UNCHANGED cancelReply
     \/ \E g \in Contract!Generations :
          /\ cancelReply # "open"
          /\ Contract!SendCancel(g)
          /\ UNCHANGED oneshot
     \/ \E r \in Contract!Request :
          /\ oneshot[r] \in {"text", "nothing", "error"}
          /\ oneshot' = Contract!Closed({r})
          /\ UNCHANGED <<commands, cancelReply>>

LiveSpec ==
  /\ Init
  /\ [][SupervisorNext \/ ListeningCaller]_supervisorVars
  /\ SupervisorFairness
=================================================================================
