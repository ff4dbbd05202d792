------------------------------ MODULE Transcriber ------------------------------
(***************************************************************************)
(* What the speech-to-text supervisor promises the daemon: the contract    *)
(* behind ParakeetTranscriber (transcription.rs).  Callers put requests    *)
(* and cancellations on one FIFO channel; every request carries a oneshot  *)
(* reply; the model's status is a watch value.  The channel holds 32 and   *)
(* this daemon never fills it, so its limit is left out.  Module           *)
(* Supervisor is the code behind the contract and is checked to implement  *)
(* it; module Daemon is built on the contract alone.                       *)
(***************************************************************************)
EXTENDS Naturals, Sequences

CONSTANTS
  MaxGeneration,  \* bound on the dictation counter
  Faults          \* what may go wrong with a worker

ASSUME MaxGenerationAssumption == MaxGeneration \in Nat \ {0}
ASSUME FaultsAssumption == Faults \subseteq {"exit", "protocol", "load"}

VARIABLES
  commands,     \* channel to the supervisor: requests and cancellations, FIFO
  accepted,     \* requests taken from the channel and not answered yet
  canceled,     \* highest generation whose cancellation was handled
  oneshot,      \* the reply of each request, as its caller's end sees it
  cancelReply,  \* the reply of the cancellation under way
  status,       \* the watch value: is a worker with a loaded model running?
  unseen        \* the watch value was set since the watcher last looked

service == <<commands, accepted, canceled, oneshot, cancelReply, status, unseen>>
-------------------------------------------------------------------------------
None == 0
Generations == 1 .. MaxGeneration
Request == [kind : {"preview", "final"}, gen : Generations]
Command == [kind : {"preview", "final", "cancel"}, gen : Generations]
Preview(g) == [kind |-> "preview", gen |-> g]
Final(g) == [kind |-> "final", gen |-> g]

Reply == {"closed", "open", "text", "nothing", "error"}

ServiceTypeOK ==
  /\ commands \in Seq(Command)
  /\ accepted \in SUBSET Request
  /\ canceled \in Generations \cup {None}
  /\ oneshot \in [Request -> Reply]
  /\ cancelReply \in {"closed", "open", "active", "inactive"}
  /\ status \in {"Loading", "Ready", "Unavailable"}
  /\ unseen \in BOOLEAN

\* A reply reaches its caller only while the caller still holds the receiver.
Answered(requests, result) ==
  [r \in Request |->
     IF r \in requests /\ oneshot[r] = "open" THEN result ELSE oneshot[r]]

SetStatus(value) == status' = value /\ unseen' = TRUE

Larger(a, b) == IF a < b THEN b ELSE a
-------------------------------------------------------------------------------
(* The caller's half: ParakeetTranscriber::enqueue and ::cancel. *)
InChannel == {commands[i] : i \in DOMAIN commands}

\* Drop the receivers of these requests (a task ended or was aborted).
Closed(requests) ==
  [r \in Request |-> IF r \in requests THEN "closed" ELSE oneshot[r]]

SendRequest(r) ==
  /\ commands' = Append(commands, r)
  /\ oneshot' = [oneshot EXCEPT ![r] = "open"]

\* The sender is gone as soon as its request is sent: nobody listens.
SendOrphan(r) ==
  /\ commands' = Append(commands, r)
  /\ oneshot' = Closed({r})

SendCancel(g) ==
  /\ commands' = Append(commands, [kind |-> "cancel", gen |-> g])
  /\ cancelReply' = "open"

\* What a caller may do.  There are never two copies of a request under way:
\* a caller asks again only when the earlier request was answered.
CallerSends(r) ==
  /\ r \notin InChannel \cup accepted
  /\ oneshot[r] = "closed"
  /\ SendRequest(r) \/ SendOrphan(r)
  /\ UNCHANGED cancelReply

DropsReceivers ==
  \E dropped \in SUBSET {r \in Request : oneshot[r] # "closed"} :
    oneshot' = Closed(dropped)

\* There is never a second cancellation before the first was answered.
CallerCancels(g) ==
  /\ cancelReply = "closed"
  /\ DropsReceivers
  /\ SendCancel(g)

CallerReceives ==
  /\ DropsReceivers
  /\ \/ UNCHANGED cancelReply
     \/ /\ cancelReply \in {"active", "inactive"}
        /\ cancelReply' = "closed"
  /\ UNCHANGED commands

\* The watcher's changed(): it marks the current value as seen.
WatcherLooks ==
  /\ unseen
  /\ unseen' = FALSE
  /\ UNCHANGED <<commands, accepted, canceled, oneshot, cancelReply, status>>

CallerNext ==
  \/ /\ \/ \E r \in Request : CallerSends(r)
        \/ \E g \in Generations : CallerCancels(g)
        \/ CallerReceives
     /\ UNCHANGED <<accepted, canceled, status, unseen>>
  \/ WatcherLooks
-------------------------------------------------------------------------------
(* The supervisor's half.  Nothing is taken or answered while Loading. *)
ServiceInit ==
  /\ commands = <<>>
  /\ accepted = {}
  /\ canceled = None
  /\ oneshot = [r \in Request |-> "closed"]
  /\ cancelReply = "closed"
  /\ status = "Loading"
  /\ unseen = FALSE

\* A request is queued; previews it supersedes are answered "nothing".
Accept ==
  /\ status = "Ready"
  /\ commands # <<>>
  /\ Head(commands).kind # "cancel"
  /\ Head(commands).gen > canceled
  /\ \E superseded \in SUBSET {r \in accepted : r.kind = "preview"} :
       /\ accepted' = (accepted \ superseded) \cup {Head(commands)}
       /\ oneshot' = Answered(superseded, "nothing")
  /\ commands' = Tail(commands)
  /\ UNCHANGED <<canceled, cancelReply, status, unseen>>

\* A request is turned away: its generation was canceled, or there is no model.
Refuse ==
  /\ commands # <<>>
  /\ Head(commands).kind # "cancel"
  /\ \/ /\ status = "Ready"
        /\ Head(commands).gen <= canceled
        /\ oneshot' = Answered({Head(commands)}, "nothing")
     \/ /\ status = "Unavailable"
        /\ oneshot' = Answered({Head(commands)}, "error")
  /\ commands' = Tail(commands)
  /\ UNCHANGED <<accepted, canceled, cancelReply, status, unseen>>

\* A cancellation ends every request of that and of earlier generations.  The
\* reply "active" says that the worker was busy with one of them and restarts.
CancelRequests ==
  /\ status = "Ready"
  /\ commands # <<>>
  /\ Head(commands).kind = "cancel"
  /\ LET g == Head(commands).gen
         ended == {r \in accepted : r.gen <= Larger(canceled, g)}
     IN /\ canceled' = Larger(canceled, g)
        /\ accepted' = accepted \ ended
        /\ oneshot' = Answered(ended, "nothing")
        /\ \/ /\ ended # {}
              /\ cancelReply' = "active"
              /\ SetStatus("Loading")
           \/ /\ cancelReply' = "inactive"
              /\ UNCHANGED <<status, unseen>>
  /\ commands' = Tail(commands)

\* (Mutant: the supervisor without a model leaves the caller waiting.)
CancelUnanswered ==
  /\ status = "Unavailable"
  /\ commands # <<>>
  /\ Head(commands).kind = "cancel"
  /\ commands' = Tail(commands)
  /\ UNCHANGED <<accepted, canceled, oneshot, cancelReply, status, unseen>>

CancelUnavailable ==
  /\ status = "Unavailable"
  /\ commands # <<>>
  /\ Head(commands).kind = "cancel"
  /\ cancelReply' = "inactive"
  /\ commands' = Tail(commands)
  /\ UNCHANGED <<accepted, canceled, oneshot, status, unseen>>

\* A worker's answer; a broken or late one costs the worker.
AnswerText(r) ==
  /\ status = "Ready"
  /\ r \in accepted
  /\ accepted' = accepted \ {r}
  /\ oneshot' = Answered({r}, "text")
  /\ UNCHANGED <<commands, canceled, cancelReply, status, unseen>>

AnswerWithoutText(r) ==
  /\ status = "Ready"
  /\ r \in accepted
  /\ accepted' = accepted \ {r}
  /\ \/ /\ oneshot' = Answered({r}, "nothing")
        /\ UNCHANGED <<status, unseen>>
     \/ /\ oneshot' = Answered({r}, "error")
        /\ \/ UNCHANGED <<status, unseen>>
           \/ "protocol" \in Faults /\ SetStatus("Loading")
  /\ UNCHANGED <<commands, canceled, cancelReply>>

\* The worker exits while it has nothing to do.
WorkerLost ==
  /\ "exit" \in Faults
  /\ status = "Ready"
  /\ accepted = {}
  /\ SetStatus("Loading")
  /\ UNCHANGED <<commands, accepted, canceled, oneshot, cancelReply>>

\* start_worker announces Loading, then Ready; or the failure is final.
Load(outcome) ==
  /\ status = "Loading"
  /\ outcome = "Unavailable" => "load" \in Faults
  /\ SetStatus(outcome)
  /\ UNCHANGED <<commands, accepted, canceled, oneshot, cancelReply>>

ServiceNext ==
  \/ Accept \/ Refuse \/ CancelRequests \/ CancelUnavailable
  \/ \E r \in Request : AnswerText(r) \/ AnswerWithoutText(r)
  \/ WorkerLost
  \/ \E outcome \in {"Loading", "Ready", "Unavailable"} : Load(outcome)

ServiceSpec == ServiceInit /\ [][ServiceNext \/ CallerNext]_service
===============================================================================
