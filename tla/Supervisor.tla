------------------------------- MODULE Supervisor -------------------------------
(***************************************************************************)
(* The supervisor task of src/transcription.rs (supervise_worker): it owns *)
(* the worker process that holds the speech model, the queue of requests   *)
(* the worker has not been given yet, and the status the daemon watches.   *)
(* It serves one request at a time and goes on taking commands meanwhile;  *)
(* while it (re)starts a worker it takes none.                             *)
(***************************************************************************)
EXTENDS Naturals, Sequences, SequencesExt

CONSTANTS MaxGeneration, Faults

VARIABLES
  phase,        \* where supervise_worker is
  finals,       \* RequestQueue.finals: generations, FIFO
  slot,         \* RequestQueue.preview: a generation, or None
  canceledGen,  \* RequestQueue.canceled_generation
  active,       \* the request the worker works on, or NoRequest
  commands, oneshot, cancelReply, status, unseen  \* shared with the callers

private == <<phase, finals, slot, canceledGen, active>>
supervisorVars == <<private, commands, oneshot, cancelReply, status, unseen>>

None == 0
NoRequest == [kind |-> "none", gen |-> None]
Preview(g) == [kind |-> "preview", gen |-> g]
Final(g) == [kind |-> "final", gen |-> g]

\* The requests the supervisor holds: queued, or with the worker.
Accepted ==
  {Final(finals[i]) : i \in DOMAIN finals}
    \cup (IF slot = None THEN {} ELSE {Preview(slot)})
    \cup ({active} \ {NoRequest})

\* The contract of module Transcriber, with this queue behind it.
Contract == INSTANCE Transcriber WITH accepted <- Accepted, canceled <- canceledGen

TypeOK ==
  /\ phase \in {"restart", "starting", "idle", "running", "fatal"}
  /\ finals \in Seq(Contract!Generations)
  /\ slot \in Contract!Generations \cup {None}
  /\ active \in Contract!Request \cup {NoRequest}
  /\ phase = "running" <=> active # NoRequest
  /\ Contract!ServiceTypeOK
-------------------------------------------------------------------------------
Init ==
  /\ phase = "restart"
  /\ finals = <<>> /\ slot = None /\ canceledGen = None /\ active = NoRequest
  /\ Contract!ServiceInit

Announce(value) == status' = value /\ unseen' = TRUE
Answered(requests, result) == Contract!Answered(requests, result)
Queued == finals # <<>> \/ slot # None
-------------------------------------------------------------------------------
(* RequestQueue *)

\* (Mutant: off by one.)
CanceledEarlier(r) == r.gen < canceledGen
Canceled(r) == r.gen <= canceledGen

\* push: a canceled generation is turned away; a preview takes the slot from
\* the one before it; a final decode makes its own preview pointless.
Push(r) ==
  /\ \/ /\ Canceled(r)
        /\ oneshot' = Answered({r}, "nothing")
        /\ UNCHANGED <<finals, slot>>
     \/ /\ ~Canceled(r)
        /\ r.kind = "preview"
        /\ slot' = r.gen
        /\ oneshot' = Answered({Preview(slot)} \ {r}, "nothing")
        /\ UNCHANGED finals
     \/ /\ ~Canceled(r)
        /\ r.kind = "final"
        /\ finals' = Append(finals, r.gen)
        /\ IF slot = r.gen
           THEN slot' = None /\ oneshot' = Answered({Preview(slot)}, "nothing")
           ELSE UNCHANGED <<slot, oneshot>>
  /\ UNCHANGED canceledGen

\* rest is finals without those up to the bound, in their order (SelectSeq, said
\* without recursion).
Retained(rest, bound) ==
  LET kept == {i \in DOMAIN finals : finals[i] > bound}
  IN \E place \in Bijection(1 .. Cardinality(kept), kept) :
       /\ \A i, j \in DOMAIN place : i < j => place[i] < place[j]
       /\ rest = [i \in DOMAIN place |-> finals[place[i]]]

\* cancel: everything queued up to the highest canceled generation goes.
Purge(g, alsoAnswered) ==
  LET bound == Contract!Larger(canceledGen, g)
      gone == {Final(finals[i]) : i \in DOMAIN finals} \cup {Preview(slot)}
  IN /\ canceledGen' = bound
     /\ Retained(finals', bound)
     /\ slot' = IF slot <= bound THEN None ELSE slot
     /\ oneshot' = Answered({r \in gone : r.gen <= bound} \cup alsoAnswered,
                            "nothing")

\* pop: finals first.  supervise_worker then drops the request if its generation
\* was canceled; CanceledIsGone says that it never is.
\* (Mutants: the queue keeps what it hands out; a preview overtakes the finals.)
PeekFinal ==
  /\ finals # <<>>
  /\ active' = Final(Head(finals))
  /\ UNCHANGED <<finals, slot>>

PopFinal ==
  /\ finals # <<>>
  /\ active' = Final(Head(finals))
  /\ finals' = Tail(finals)
  /\ UNCHANGED slot

PopPreviewAnyway ==
  /\ slot # None
  /\ active' = Preview(slot)
  /\ slot' = None
  /\ UNCHANGED finals

PopPreview ==
  /\ finals = <<>>
  /\ slot # None
  /\ active' = Preview(slot)
  /\ slot' = None
  /\ UNCHANGED finals

Pop ==
  /\ phase = "idle"
  /\ PopFinal \/ PopPreview
  /\ phase' = "running"
  /\ UNCHANGED <<canceledGen, commands, oneshot, cancelReply, status, unseen>>
-------------------------------------------------------------------------------
(* Starting a worker *)
StartWorker ==
  /\ phase = "restart"
  /\ phase' = "starting"
  /\ Announce("Loading")
  /\ UNCHANGED <<finals, slot, canceledGen, active, commands, oneshot,
                 cancelReply>>

WorkerReady ==
  /\ phase = "starting"
  /\ phase' = "idle"
  /\ Announce("Ready")
  /\ UNCHANGED <<finals, slot, canceledGen, active, commands, oneshot,
                 cancelReply>>

\* start_worker failed: serve_fatal_worker takes over for good.
\* (Mutant: without telling anybody.)
WorkerFailsSilently ==
  /\ "load" \in Faults
  /\ phase = "starting"
  /\ phase' = "fatal"
  /\ UNCHANGED <<finals, slot, canceledGen, active, commands, oneshot,
                 cancelReply, status, unseen>>

WorkerFailsToLoad ==
  /\ "load" \in Faults
  /\ phase = "starting"
  /\ phase' = "fatal"
  /\ Announce("Unavailable")
  /\ UNCHANGED <<finals, slot, canceledGen, active, commands, oneshot,
                 cancelReply>>
-------------------------------------------------------------------------------
(* Idle: commands are taken only when nothing is queued *)
IdleExit ==
  /\ "exit" \in Faults
  /\ phase = "idle"
  /\ ~Queued
  /\ phase' = "restart"
  /\ Announce("Loading")
  /\ UNCHANGED <<finals, slot, canceledGen, active, commands, oneshot,
                 cancelReply>>

Take == commands # <<>> /\ commands' = Tail(commands)

IdleRequest ==
  /\ phase = "idle"
  /\ ~Queued
  /\ Take
  /\ Head(commands).kind # "cancel"
  /\ Push(Head(commands))
  /\ UNCHANGED <<phase, active, cancelReply, status, unseen>>

IdleCancel ==
  /\ phase = "idle"
  /\ ~Queued
  /\ Take
  /\ Head(commands).kind = "cancel"
  /\ Purge(Head(commands).gen, {})
  /\ cancelReply' = "inactive"
  /\ UNCHANGED <<phase, active, status, unseen>>
-------------------------------------------------------------------------------
(* run_supervised_request *)

\* A usable answer; an inference error does not cost the worker.
\* (Mutant: the answered request stays with the worker.)
WorkerKeepsRequest ==
  /\ phase = "running"
  /\ \E result \in {"text", "nothing", "error"} :
       oneshot' = Answered({active}, result)
  /\ phase' = "idle"
  /\ UNCHANGED <<finals, slot, canceledGen, active, commands, cancelReply,
                 status, unseen>>

WorkerAnswers ==
  /\ phase = "running"
  /\ \E result \in {"text", "nothing", "error"} :
       oneshot' = Answered({active}, result)
  /\ phase' = "idle"
  /\ active' = NoRequest
  /\ UNCHANGED <<finals, slot, canceledGen, commands, cancelReply, status,
                 unseen>>

\* The request could not be written, the answer is not usable, or the deadline
\* passed: the request fails and the worker is replaced.
WorkerBreaks ==
  /\ "protocol" \in Faults
  /\ phase = "running"
  /\ oneshot' = Answered({active}, "error")
  /\ phase' = "restart"
  /\ active' = NoRequest
  /\ Announce("Loading")
  /\ UNCHANGED <<finals, slot, canceledGen, commands, cancelReply>>

RunningRequest ==
  /\ phase = "running"
  /\ Take
  /\ Head(commands).kind # "cancel"
  /\ Push(Head(commands))
  /\ UNCHANGED <<phase, active, cancelReply, status, unseen>>

\* A cancellation of the active request kills the worker.
RunningCancel ==
  /\ phase = "running"
  /\ Take
  /\ Head(commands).kind = "cancel"
  /\ LET g == Head(commands).gen
     IN \/ /\ active.gen <= g
           /\ Purge(g, {active})
           /\ active' = NoRequest
           /\ phase' = "restart"
           /\ Announce("Loading")
           /\ cancelReply' = "active"
        \/ /\ active.gen > g
           /\ Purge(g, {})
           /\ cancelReply' = "inactive"
           /\ UNCHANGED <<active, phase, status, unseen>>
-------------------------------------------------------------------------------
(* serve_fatal_worker: new commands are answered, the queue is left as it is *)
\* (Mutant: a cancellation is not answered.)
FatalSilence ==
  /\ phase = "fatal"
  /\ Take
  /\ UNCHANGED <<private, oneshot, cancelReply, status, unseen>>

FatalCommand ==
  /\ phase = "fatal"
  /\ Take
  /\ \/ /\ Head(commands).kind # "cancel"
        /\ oneshot' = Answered({Head(commands)}, "error")
        /\ UNCHANGED cancelReply
     \/ /\ Head(commands).kind = "cancel"
        /\ cancelReply' = "inactive"
        /\ UNCHANGED oneshot
  /\ UNCHANGED <<private, status, unseen>>

SupervisorNext ==
  \/ Pop \/ StartWorker \/ WorkerReady \/ WorkerFailsToLoad
  \/ IdleExit \/ IdleRequest \/ IdleCancel
  \/ WorkerAnswers \/ WorkerBreaks \/ RunningRequest \/ RunningCancel
  \/ FatalCommand

\* Any callers that keep to the contract.
Caller ==
  /\ UNCHANGED <<private, status, unseen>>
  /\ \/ \E r \in Contract!Request : Contract!CallerSends(r)
     \/ \E g \in Contract!Generations : Contract!CallerCancels(g)
     \/ Contract!CallerReceives

Next == SupervisorNext \/ Caller
Spec == Init /\ [][Next]_supervisorVars

\* The load and inference deadlines bound what the supervisor waits for.  While
\* a request runs, select! polls the command channel and the worker's answer in
\* random order, so a waiting command is taken before long (SF).
SupervisorFairness ==
  /\ WF_supervisorVars(Pop)
  /\ WF_supervisorVars(StartWorker)
  /\ WF_supervisorVars(WorkerReady \/ WorkerFailsToLoad)
  /\ WF_supervisorVars(WorkerAnswers \/ WorkerBreaks)
  /\ SF_supervisorVars(IdleRequest \/ IdleCancel \/ RunningRequest
                         \/ RunningCancel \/ FatalCommand)
-------------------------------------------------------------------------------
(* Properties *)

\* Nothing of a canceled generation is queued or with the worker, whatever the
\* order in which its requests and its cancellation arrived.
CanceledIsGone == \A r \in Accepted : r.gen > canceledGen

\* Every request is held in one place and is not answered while it is held.
HeldOnce ==
  /\ IsInjective(finals)
  /\ active # NoRequest =>
       ~(active.kind = "final" /\ Contains(finals, active.gen))
  /\ \A r \in Accepted : oneshot[r] \in {"open", "closed"}

\* While there is hope for a model, a final decode is answered, and it is not
\* starved by the previews; cancel() always returns; a restart ends.
FinalsAreAnswered ==
  \A g \in Contract!Generations :
    oneshot[Final(g)] = "open" ~> oneshot[Final(g)] # "open" \/ phase = "fatal"
CancelsAreAnswered == cancelReply = "open" ~> cancelReply # "open"
RestartsEnd == status = "Loading" ~> status # "Loading"

\* What the daemon may rely on (module Transcriber).
KeepsPromises == Contract!ServiceSpec
=================================================================================
