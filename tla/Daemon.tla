-------------------------------- MODULE Daemon --------------------------------
(***************************************************************************)
(* The dictation daemon of src/daemon.rs: one actor that owns the          *)
(* dictation, its bounded inbox, and the tasks that talk to it (client     *)
(* connections, the pipeline of a finished recording, the preview and      *)
(* level loops of a running one, the model watcher, the waiter of a        *)
(* cancellation).  Tasks run concurrently; the actor handles one message   *)
(* at a time but is suspended inside a message while it awaits the         *)
(* supervisor's reply to a cancellation.                                   *)
(*                                                                         *)
(* Abstractions: a transcript, a preview or a level is the generation of   *)
(* the dictation it comes from; an event's notices are their codes; the    *)
(* output target travels with the generation and is left out.              *)
(***************************************************************************)
EXTENDS Transcriber

CONSTANTS
  Clients,        \* client connections; each has one command under way
  Nobody,         \* stands for the caller of a message that is no command
  InboxCapacity,  \* mpsc::channel(16) in the code
  Loops,          \* which background loops a recording has; the code has both
  Commands,       \* the commands clients issue, and "shutdown"
  Observed        \* commands whose reply is kept once it was sent

ASSUME ClientsAssumption == Nobody \notin Clients
ASSUME InboxCapacityAssumption == InboxCapacity \in Nat \ {0}
ASSUME LoopsAssumption == Loops \subseteq {"preview", "level"}

VARIABLES
  actor,        \* where the actor is: "ready", in an await of cancel(), "stopped"
  cancelJob,    \* a suspended cancel(): what it cancels and for whom
  recording,    \* generation of the active recording, or None
  pipeline,     \* generation of the pipeline, or None
  canceling,    \* canceling_generation
  generation,   \* number of dictations started
  lastPreview,  \* last_preview, as the generation it was decoded from
  level,        \* the level published, as the generation it was measured in
  modelStatus,  \* model_status, the actor's copy of the watch value
  event,        \* the value of the events watch
  waiters,      \* clients parked in completion_waiters
  latest,       \* latest_transcript, as its generation
  inbox,        \* the actor's mailbox
  task,         \* the pipeline task: its generation, where it is, its result
  previewLoop,  \* where the preview loop of each generation is
  levelLoop,    \* where the level loop of each generation is
  dying,        \* loops that were aborted and have at most one poll to finish
  restartWait,  \* where the waiter of each canceled generation is
  watcher,      \* the status the model watcher is sending, or its phase
  client,       \* each client's command, how far it is, and its reply
  shutdown,     \* the shutdown signal was received
  outcome,      \* history: how each dictation ended
  output        \* history: dictations whose text left the daemon

dictation == <<recording, pipeline, canceling, generation>>
shown == <<lastPreview, level, event, latest>>
loops == <<previewLoop, levelLoop, dying>>
helpers == <<restartWait, watcher>>
sessions == <<waiters, client, shutdown>>
history == <<outcome, output>>
vars == <<actor, cancelJob, dictation, shown, modelStatus, inbox, task, loops,
          helpers, sessions, history, service>>
-------------------------------------------------------------------------------
(* Messages and events *)
Operation == {"start", "stop", "toggle", "cancel", "configure"}
ASSUME CommandsAssumption ==
  Commands \subseteq Operation \cup {"shutdown"} /\ Observed \subseteq Operation

Message ==
  [kind : {"command"}, client : Clients]
    \cup [kind : {"progress", "preview", "level", "captureEnded",
                  "cancellationFinished"}, gen : Generations]
    \cup [kind : {"completed"}, gen : Generations,
          result : {"delivered", "undelivered", "failed"}]
    \cup [kind : {"modelStatus"}, status : {"Loading", "Ready", "Unavailable"}]
    \cup [kind : {"shutdown"}]

State == {"Loading", "Idle", "Recording", "Transcribing", "Refining",
          "Canceling", "Error"}
Code == {"model_unavailable", "recording_busy", "microphone_start_failed",
         "microphone_finish_failed", "pipeline_failed", "delivery_failed",
         "canceled", "dictation_canceled", "configuration_refused"}
Event == [state : State, partial : Generations \cup {None},
          transcript : Generations \cup {None}, notices : SUBSET Code]

\* What a client connection waits for, or got.
Session == [op : Operation, phase : {"idle", "sent", "answered"}, reply : Event]

Ev(state) ==
  [state |-> state, partial |-> None, transcript |-> None, notices |-> {}]
Notify(ev, code) == [ev EXCEPT !.notices = @ \cup {code}]
ErrorEv(state, code) == Notify(Ev(state), code)
Active(state, partial) == [Ev(state) EXCEPT !.partial = partial]

Task == [gen : Generations \cup {None},
         phase : {"none", "started", "transcribing", "transcribed", "refining",
                  "reporting"},
         result : {"none", "delivered", "undelivered", "failed"}]
NoTask == [gen |-> None, phase |-> "none", result |-> "none"]
NoJob == [gen |-> None, by |-> Nobody]

TypeOK ==
  /\ ServiceTypeOK
  /\ actor \in {"ready", "cancelRecording", "cancelPipeline", "stopped"}
  /\ cancelJob \in [gen : Generations \cup {None}, by : Clients \cup {Nobody}]
  /\ recording \in Generations \cup {None}
  /\ pipeline \in Generations \cup {None}
  /\ canceling \in Generations \cup {None}
  /\ generation \in 0 .. MaxGeneration
  /\ lastPreview \in Generations \cup {None}
  /\ level \in Generations \cup {None}
  /\ modelStatus \in {"Loading", "Ready", "Unavailable"}
  /\ event \in Event
  /\ waiters \in SUBSET Clients
  /\ latest \in Generations \cup {None}
  /\ inbox \in Seq(Message)
  /\ Len(inbox) <= InboxCapacity
  /\ task \in Task
  /\ task.phase # "none" => task.gen # None
  /\ task.phase = "reporting" => task.result # "none"
  /\ previewLoop \in
       [Generations -> {"off", "sleeping", "awaiting", "reporting"}]
  /\ levelLoop \in [Generations -> {"off", "on"}]
  /\ dying \in SUBSET ({"preview", "level"} \X Generations)
  /\ restartWait \in [Generations -> {"off", "watching", "sending"}]
  /\ watcher \in {"Loading", "Ready", "Unavailable", "starting", "waiting"}
  /\ client \in [Clients -> Session]
  /\ shutdown \in BOOLEAN
  /\ outcome \in [Generations -> {"none", "open", "delivered", "undelivered",
                                  "failed", "canceled"}]
  /\ output \in SUBSET Generations
-------------------------------------------------------------------------------
(* The pieces the handlers are made of *)
Room == Len(inbox) < InboxCapacity
\* Mutants: try_send instead of send().await, and an unbounded channel.
PostIfRoom(message) == inbox' = IF Room THEN Append(inbox, message) ELSE inbox
PostUnbounded(message) == inbox' = Append(inbox, message)
Post(message) == Room /\ inbox' = Append(inbox, message)
IdleClient == [op |-> "start", phase |-> "idle", reply |-> Ev("Loading")]
Answer(session, ev) ==
  IF session.op \in Observed
  THEN [session EXCEPT !.phase = "answered", !.reply = ev]
  ELSE IdleClient
ReplyTo(c, ev) ==
  client' = IF c = Nobody THEN client
            ELSE [client EXCEPT ![c] = Answer(@, ev)]

\* Every parked Stop is answered with the same event.  (Mutants: the waiters are
\* dropped; they hear what was on display before.)
ResolvedNobody(ev) == client
ResolvedEarly(ev) ==
  [c \in Clients |-> IF c \in waiters THEN Answer(client[c], event) ELSE client[c]]
Resolved(ev) ==
  [c \in Clients |-> IF c \in waiters THEN Answer(client[c], ev) ELSE client[c]]

\* What the daemon shows when no dictation is under way.
ModelEvent(s) ==
  CASE s = "Loading" -> Ev("Loading")
    [] s = "Ready" -> Ev("Idle")
    [] s = "Unavailable" -> ErrorEv("Error", "model_unavailable")
\* (Mutant: it forgets that there is no model.)
QuiescentWithoutLoss ==
  IF canceling # None THEN Ev("Canceling")
  ELSE IF modelStatus = "Loading" THEN Ev("Loading") ELSE Ev("Idle")
QuiescentEvent ==
  IF canceling # None THEN Ev("Canceling") ELSE ModelEvent(modelStatus)

\* A model status change keeps the last result on display.
PreserveTerminalPayload(ev) ==
  IF event.transcript = None THEN ev
  ELSE [ev EXCEPT !.transcript = event.transcript,
                  !.notices = @ \cup event.notices]

\* (Mutants: one of the three is not looked at.)
BusyIgnoringPipeline == recording # None \/ canceling # None
BusyIgnoringRestart == recording # None \/ pipeline # None
Busy == recording # None \/ pipeline # None \/ canceling # None

Alive(g) ==
  {l \in {"preview", "level"} \X {g} :
     IF l[1] = "preview" THEN previewLoop[g] # "off" ELSE levelLoop[g] # "off"}
-------------------------------------------------------------------------------
Init ==
  /\ ServiceInit
  /\ actor = "ready" /\ cancelJob = NoJob
  /\ recording = None /\ pipeline = None /\ canceling = None /\ generation = 0
  /\ lastPreview = None /\ level = None /\ latest = None
  /\ modelStatus = "Loading" /\ event = Ev("Loading")
  /\ waiters = {} /\ inbox = <<>> /\ task = NoTask
  /\ previewLoop = [g \in Generations |-> "off"]
  /\ levelLoop = [g \in Generations |-> "off"]
  /\ dying = {}
  /\ restartWait = [g \in Generations |-> "off"]
  /\ watcher = "starting"
  /\ client = [c \in Clients |-> IdleClient]
  /\ shutdown = FALSE
  /\ outcome = [g \in Generations |-> "none"]
  /\ output = {}
-------------------------------------------------------------------------------
(* Clients and the shutdown signal *)

\* A connection puts its command in the inbox.  One that was accepted before the
\* shutdown signal may still do so after it.
IssueCommand(c, op) ==
  /\ actor # "stopped"
  /\ client[c].phase # "sent"
  /\ Post([kind |-> "command", client |-> c])
  /\ client' = [client EXCEPT ![c] = [op |-> op, phase |-> "sent",
                                     reply |-> Ev("Loading")]]
  /\ UNCHANGED <<actor, cancelJob, dictation, shown, modelStatus, waiters,
                 shutdown, task, loops, helpers, history, service>>

SignalShutdown ==
  /\ "shutdown" \in Commands
  /\ ~shutdown
  /\ shutdown' = TRUE
  /\ Post([kind |-> "shutdown"])
  /\ UNCHANGED <<actor, cancelJob, dictation, shown, modelStatus, waiters,
                 client, task, loops, helpers, history, service>>
-------------------------------------------------------------------------------
(* Handlers: the actor takes the message at the head of its inbox *)
Receive(kind) ==
  /\ actor = "ready"
  /\ inbox # <<>>
  /\ Head(inbox).kind = kind
  /\ inbox' = Tail(inbox)

\* A handler that only replies, with what is on display or with an error.
OnlyReply(c, ev) ==
  /\ ReplyTo(c, ev)
  /\ UNCHANGED <<dictation, shown, waiters, task, loops, outcome>>

\* start_recording: refused while a dictation or its cancellation is under way
\* and while there is no model; otherwise a new generation begins.
OpenMicrophone(c) ==
  LET g == generation + 1
  IN /\ generation < MaxGeneration
     /\ generation' = g
     /\ recording' = g
     /\ previewLoop' =
          [previewLoop EXCEPT ![g] = IF "preview" \in Loops THEN "sleeping" ELSE "off"]
     /\ levelLoop' =
          [levelLoop EXCEPT ![g] = IF "level" \in Loops THEN "on" ELSE "off"]
     /\ lastPreview' = None
     /\ level' = None
     /\ event' = Active("Recording", None)
     /\ outcome' = [outcome EXCEPT ![g] = "open"]
     /\ ReplyTo(c, event')
     /\ UNCHANGED <<pipeline, canceling, latest, waiters, task, dying>>

MicrophoneFails(c) ==
  /\ event' = ErrorEv("Error", "microphone_start_failed")
  /\ ReplyTo(c, event')
  /\ UNCHANGED <<dictation, lastPreview, level, latest, waiters, task, loops,
                 outcome>>

StartRecording(c) ==
  \/ recording # None /\ OnlyReply(c, event)
  \/ /\ recording = None
     /\ Busy
     /\ OnlyReply(c, ErrorEv(event.state, "recording_busy"))
  \/ /\ ~Busy
     /\ modelStatus = "Loading"
     /\ OnlyReply(c, ErrorEv("Loading", "recording_busy"))
  \/ /\ ~Busy
     /\ modelStatus = "Unavailable"
     /\ OnlyReply(c, ErrorEv("Error", "model_unavailable"))
  \/ /\ ~Busy
     /\ modelStatus = "Ready"
     /\ OpenMicrophone(c) \/ MicrophoneFails(c)

\* finalize_recording: the loops are aborted, not awaited; the captured audio
\* goes to a new pipeline task, or the capture itself failed.  A Stop (parks)
\* is answered when the pipeline ends.
FinalizeRecording(c, parks) ==
  /\ recording # None
  /\ recording' = None
  /\ dying' = dying \cup Alive(recording)
  /\ level' = None
  /\ \/ /\ lastPreview' = None
        /\ event' = ErrorEv("Error", "microphone_finish_failed")
        /\ outcome' = [outcome EXCEPT ![recording] = "failed"]
        /\ ReplyTo(c, event')
        /\ UNCHANGED <<pipeline, task, waiters>>
     \/ /\ pipeline' = recording
        /\ task' = [gen |-> recording, phase |-> "started", result |-> "none"]
        /\ event' = Active("Transcribing", lastPreview)
        /\ IF parks THEN waiters' = waiters \cup {c} /\ UNCHANGED client
                    ELSE ReplyTo(c, event') /\ UNCHANGED waiters
        /\ UNCHANGED <<lastPreview, outcome>>
  /\ UNCHANGED <<canceling, generation, latest, previewLoop, levelLoop>>

HandleStart ==
  /\ Receive("command")
  /\ client[Head(inbox).client].op = "start"
  /\ StartRecording(Head(inbox).client)
  /\ UNCHANGED <<actor, cancelJob, modelStatus, shutdown, helpers, output,
                 service>>

HandleStop ==
  /\ Receive("command")
  /\ client[Head(inbox).client].op = "stop"
  /\ LET c == Head(inbox).client
     IN \/ FinalizeRecording(c, TRUE)
        \/ /\ recording = None
           /\ pipeline # None
           /\ waiters' = waiters \cup {c}
           /\ UNCHANGED <<dictation, shown, client, task, loops, outcome>>
        \/ recording = None /\ pipeline = None /\ OnlyReply(c, event)
  /\ UNCHANGED <<actor, cancelJob, modelStatus, shutdown, helpers, output,
                 service>>

\* Toggle acts on what is on display.
HandleToggle ==
  /\ Receive("command")
  /\ client[Head(inbox).client].op = "toggle"
  /\ LET c == Head(inbox).client
     IN \/ event.state = "Recording" /\ FinalizeRecording(c, FALSE)
        \/ event.state = "Recording" /\ recording = None /\ OnlyReply(c, event)
        \/ event.state \in {"Idle", "Error"} /\ StartRecording(c)
        \/ event.state = "Loading" /\ OnlyReply(c, event)
  /\ UNCHANGED <<actor, cancelJob, modelStatus, shutdown, helpers, output,
                 service>>
-------------------------------------------------------------------------------
(* Cancellation: cancel() takes the dictation, aborts its tasks and awaits *)
(* the supervisor before it publishes anything                             *)

AbortRecording(by) ==
  /\ recording' = None
  /\ dying' = dying \cup Alive(recording)
  /\ SendCancel(recording)
  /\ actor' = "cancelRecording"
  /\ cancelJob' = [gen |-> recording, by |-> by]
  /\ UNCHANGED <<pipeline, task, oneshot>>

\* The pipeline task is awaited after its abort, so it is gone.  (Mutant: it is
\* aborted and not awaited.)
AbortPipelineWithoutJoin(by) ==
  /\ pipeline' = None
  /\ SendCancel(pipeline)
  /\ actor' = "cancelPipeline"
  /\ cancelJob' = [gen |-> pipeline, by |-> by]
  /\ UNCHANGED <<recording, dying, task, oneshot>>

AbortPipeline(by) ==
  /\ pipeline' = None
  /\ task' = NoTask
  /\ oneshot' = Closed({Final(pipeline)})
  /\ SendCancel(pipeline)
  /\ actor' = "cancelPipeline"
  /\ cancelJob' = [gen |-> pipeline, by |-> by]
  /\ UNCHANGED <<recording, dying>>

\* The code looks for a pipeline to cancel even when it has canceled a recording;
\* OneActivity says that there is none.
BeginCancel(c) ==
  /\ canceling = None
  /\ \/ recording # None /\ AbortRecording(c)
     \/ recording = None /\ pipeline # None /\ AbortPipeline(c)
  /\ UNCHANGED <<canceling, generation, shown, waiters, client, previewLoop,
                 levelLoop, outcome>>

NothingToCancel == canceling # None \/ (recording = None /\ pipeline = None)

HandleCancel ==
  /\ Receive("command")
  /\ LET c == Head(inbox).client
     IN /\ \/ client[c].op = "cancel"
           \/ /\ client[c].op = "toggle"
              /\ event.state \in {"Transcribing", "Refining", "Canceling"}
        /\ \/ /\ NothingToCancel
              /\ OnlyReply(c, event)
              /\ UNCHANGED <<actor, cancelJob, commands, oneshot, cancelReply>>
           \/ BeginCancel(c)
  /\ UNCHANGED <<modelStatus, shutdown, helpers, output, accepted, canceled,
                 status, unseen>>

\* Shutdown cancels what is under way; the actor then returns.
HandleShutdown ==
  /\ Receive("shutdown")
  /\ \/ /\ NothingToCancel
        /\ actor' = "stopped"
        /\ UNCHANGED <<cancelJob, dictation, shown, waiters, client, task,
                       loops, outcome, commands, oneshot, cancelReply>>
     \/ BeginCancel(Nobody)
  /\ UNCHANGED <<modelStatus, shutdown, helpers, output, accepted, canceled,
                 status, unseen>>

\* The reply arrived: publish, answer the parked Stops and the caller,
\* and, if the worker restarts, wait for it.
FinishCancel ==
  LET g == cancelJob.gen
      workerActive == cancelReply = "active"
      shownEvent == Notify(IF workerActive THEN Ev("Canceling")
                                           ELSE QuiescentEvent, "canceled")
  IN /\ actor \in {"cancelRecording", "cancelPipeline"}
     /\ cancelReply \in {"active", "inactive"}
     /\ cancelReply' = "closed"
     /\ actor' = IF cancelJob.by = Nobody THEN "stopped" ELSE "ready"
     /\ cancelJob' = NoJob
     /\ lastPreview' = None
     /\ level' = None
     /\ event' = shownEvent
     /\ client' =
          [c \in Clients |->
             IF c = cancelJob.by THEN Answer(client[c], shownEvent)
             ELSE Resolved(ErrorEv(shownEvent.state, "dictation_canceled"))[c]]
     /\ waiters' = {}
     /\ canceling' = IF workerActive THEN g ELSE canceling
     /\ restartWait' = IF workerActive
                       THEN [restartWait EXCEPT ![g] = "watching"]
                       ELSE restartWait
     /\ outcome' = [outcome EXCEPT ![g] = "canceled"]
     /\ UNCHANGED <<recording, pipeline, generation, latest, modelStatus, inbox,
                    task, loops, watcher, shutdown, output, commands, accepted,
                    canceled, oneshot, status, unseen>>
-------------------------------------------------------------------------------
(* The remaining handlers *)

\* Settings, tokens, the debug switch and the clearing of the debug log: refused
\* while a dictation is under way (or because the change itself fails), else the
\* event on display is replaced.  A change of nothing and the queries only reply.
HandleConfigure ==
  /\ Receive("command")
  /\ client[Head(inbox).client].op = "configure"
  /\ LET c == Head(inbox).client
     IN \/ OnlyReply(c, event)
        \/ OnlyReply(c, ErrorEv(event.state, "configuration_refused"))
        \/ /\ ~Busy
           /\ event' = QuiescentEvent
           /\ ReplyTo(c, event')
           /\ UNCHANGED <<dictation, lastPreview, level, latest, waiters, task,
                          loops, outcome>>
  /\ UNCHANGED <<actor, cancelJob, modelStatus, shutdown, helpers, output,
                 service>>

\* Progress, previews and levels count only for the generation under way.
HandleProgress ==
  /\ Receive("progress")
  /\ event' = IF pipeline = Head(inbox).gen
              THEN Active("Refining", lastPreview) ELSE event
  /\ UNCHANGED <<actor, cancelJob, dictation, lastPreview, level, latest,
                 modelStatus, task, loops, helpers, sessions, history, service>>

HandlePreview ==
  /\ Receive("preview")
  /\ LET g == Head(inbox).gen
     IN IF recording = g
        THEN lastPreview' = g /\ event' = Active("Recording", g)
        ELSE UNCHANGED <<lastPreview, event>>
  /\ UNCHANGED <<actor, cancelJob, dictation, level, latest, modelStatus, task,
                 loops, helpers, sessions, history, service>>

\* (Mutant: a level counts whatever recording it comes from.)
HandleLevelOfAny ==
  /\ Receive("level")
  /\ level' = Head(inbox).gen
  /\ UNCHANGED <<actor, cancelJob, dictation, lastPreview, event, latest,
                 modelStatus, task, loops, helpers, sessions, history, service>>

HandleLevel ==
  /\ Receive("level")
  /\ level' = IF recording = Head(inbox).gen THEN Head(inbox).gen ELSE level
  /\ UNCHANGED <<actor, cancelJob, dictation, lastPreview, event, latest,
                 modelStatus, task, loops, helpers, sessions, history, service>>

\* (Mutant: the recording under way is ended, whichever capture ended.)
HandleAnyCaptureEnded ==
  /\ Receive("captureEnded")
  /\ \/ recording # None /\ FinalizeRecording(Nobody, FALSE)
     \/ /\ recording = None
        /\ UNCHANGED <<dictation, shown, waiters, client, task, loops, outcome>>
  /\ UNCHANGED <<actor, cancelJob, modelStatus, shutdown, helpers, output,
                 service>>

HandleCaptureEnded ==
  /\ Receive("captureEnded")
  /\ \/ recording = Head(inbox).gen /\ FinalizeRecording(Nobody, FALSE)
     \/ /\ recording # Head(inbox).gen
        /\ UNCHANGED <<dictation, shown, waiters, client, task, loops, outcome>>
  /\ UNCHANGED <<actor, cancelJob, modelStatus, shutdown, helpers, output,
                 service>>

\* The completion of a pipeline that was canceled may still be in the inbox.
\* (Mutant: any completion ends the pipeline under way.)
AnyPipeline(g) == pipeline # None
PipelineIdentityMatches(g) == pipeline = g

\* (Mutant: a text is shown whatever became of it.)
CompletionWithText(g, result) == [QuiescentEvent EXCEPT !.transcript = g]
CompletionEvent(g, result) ==
  CASE result = "delivered" -> [QuiescentEvent EXCEPT !.transcript = g]
    [] result = "undelivered" ->
         [ErrorEv("Error", "delivery_failed") EXCEPT !.transcript = g]
    [] result = "failed" -> ErrorEv("Error", "pipeline_failed")

HandleCompleted ==
  /\ Receive("completed")
  /\ LET g == Head(inbox).gen
         result == Head(inbox).result
     IN \/ /\ PipelineIdentityMatches(g)
           /\ pipeline' = None
           /\ lastPreview' = None
           /\ level' = None
           /\ latest' = IF result = "failed" THEN latest ELSE g
           /\ event' = CompletionEvent(g, result)
           /\ client' = Resolved(event')
           /\ waiters' = {}
           /\ outcome' = [outcome EXCEPT ![g] = result]
           /\ UNCHANGED <<recording, canceling, generation>>
        \/ /\ ~PipelineIdentityMatches(g)
           /\ UNCHANGED <<dictation, shown, waiters, client, outcome>>
  /\ UNCHANGED <<actor, cancelJob, modelStatus, task, loops, helpers, shutdown,
                 output, service>>

HandleCancellationFinished ==
  /\ Receive("cancellationFinished")
  /\ IF canceling = Head(inbox).gen
     THEN canceling' = None /\ event' = ModelEvent(modelStatus)
     ELSE UNCHANGED <<canceling, event>>
  /\ UNCHANGED <<actor, cancelJob, recording, pipeline, generation, lastPreview,
                 level, latest, modelStatus, task, loops, helpers, sessions,
                 history, service>>

\* update_model_status
HandleModelStatus ==
  /\ Receive("modelStatus")
  /\ modelStatus' = Head(inbox).status
  /\ \/ /\ modelStatus' = "Loading"
        /\ event' = IF Busy THEN event ELSE Ev("Loading")
        /\ UNCHANGED canceling
     \/ /\ modelStatus' = "Ready"
        /\ canceling' = None
        /\ event' = IF \/ canceling # None
                       \/ ~Busy /\ event.state = "Loading"
                    THEN PreserveTerminalPayload(Ev("Idle")) ELSE event
     \/ /\ modelStatus' = "Unavailable"
        /\ IF recording = None /\ pipeline = None
           THEN /\ canceling' = None
                /\ event' = PreserveTerminalPayload(ModelEvent("Unavailable"))
           ELSE UNCHANGED <<canceling, event>>
  /\ UNCHANGED <<actor, cancelJob, recording, pipeline, generation, lastPreview,
                 level, latest, task, loops, helpers, sessions, history, service>>
-------------------------------------------------------------------------------
(* The pipeline task (run_pipeline); it may be aborted between two steps *)
actorState == <<actor, cancelJob, dictation, shown, modelStatus, sessions,
                outcome>>
callerRest == <<accepted, canceled, cancelReply, status, unseen>>

PipelineSubmits ==
  /\ task.phase = "started"
  /\ SendRequest(Final(task.gen))
  /\ task' = [task EXCEPT !.phase = "transcribing"]
  /\ UNCHANGED <<actorState, inbox, loops, helpers, output, callerRest>>

\* Cleanup may be enabled; without a text the dictation failed.
PipelineHears ==
  LET r == Final(task.gen)
  IN /\ task.phase = "transcribing"
     /\ \/ /\ oneshot[r] = "text"
           /\ \E next \in {"transcribed", "refining"} :
                task' = [task EXCEPT !.phase = next]
        \/ /\ oneshot[r] \in {"nothing", "error"}
           /\ task' = [task EXCEPT !.phase = "reporting", !.result = "failed"]
     /\ oneshot' = Closed({r})
     /\ UNCHANGED <<actorState, inbox, loops, helpers, output, commands,
                    callerRest>>

PipelineAnnouncesRefining ==
  /\ task.phase = "transcribed"
  /\ Post([kind |-> "progress", gen |-> task.gen])
  /\ task' = [task EXCEPT !.phase = "refining"]
  /\ UNCHANGED <<actorState, loops, helpers, output, service>>

\* Refinement always yields a text; its delivery may fail.
PipelineDelivers ==
  /\ task.phase = "refining"
  /\ \/ /\ task' = [task EXCEPT !.phase = "reporting", !.result = "delivered"]
        /\ output' = output \cup {task.gen}
     \/ /\ task' = [task EXCEPT !.phase = "reporting", !.result = "undelivered"]
        /\ UNCHANGED output
  /\ UNCHANGED <<actorState, inbox, loops, helpers, service>>

\* The debug entry is written, then the completion goes to the actor.
PipelineReports ==
  /\ task.phase = "reporting"
  /\ Post([kind |-> "completed", gen |-> task.gen, result |-> task.result])
  /\ task' = NoTask
  /\ UNCHANGED <<actorState, loops, helpers, output, service>>
-------------------------------------------------------------------------------
(* The preview and level loops of a recording *)
\* (Mutant: the loop does not wait for its answer.)
PreviewAsksAgain(g) ==
  /\ previewLoop[g] \in {"sleeping", "awaiting"}
  /\ <<"preview", g>> \notin dying
  /\ SendRequest(Preview(g))
  /\ previewLoop' = [previewLoop EXCEPT ![g] = "awaiting"]
  /\ UNCHANGED <<actorState, inbox, task, levelLoop, dying, helpers, output,
                 callerRest>>

PreviewAsks(g) ==
  /\ previewLoop[g] = "sleeping"
  /\ <<"preview", g>> \notin dying
  /\ SendRequest(Preview(g))
  /\ previewLoop' = [previewLoop EXCEPT ![g] = "awaiting"]
  /\ UNCHANGED <<actorState, inbox, task, levelLoop, dying, helpers, output,
                 callerRest>>

\* The audio buffer cannot be read any more.
PreviewStops(g) ==
  /\ previewLoop[g] = "sleeping"
  /\ <<"preview", g>> \notin dying
  /\ previewLoop' = [previewLoop EXCEPT ![g] = "off"]
  /\ UNCHANGED <<actorState, inbox, task, levelLoop, dying, helpers, output,
                 service>>

PreviewHears(g) ==
  /\ previewLoop[g] = "awaiting"
  /\ <<"preview", g>> \notin dying
  /\ \/ /\ oneshot[Preview(g)] = "text"
        /\ previewLoop' = [previewLoop EXCEPT ![g] = "reporting"]
     \/ /\ oneshot[Preview(g)] \in {"nothing", "error"}
        /\ previewLoop' = [previewLoop EXCEPT ![g] = "sleeping"]
  /\ oneshot' = Closed({Preview(g)})
  /\ UNCHANGED <<actorState, inbox, task, levelLoop, dying, helpers, output,
                 commands, callerRest>>

PreviewReports(g) ==
  /\ previewLoop[g] = "reporting"
  /\ <<"preview", g>> \notin dying
  /\ Post([kind |-> "preview", gen |-> g])
  /\ previewLoop' = [previewLoop EXCEPT ![g] = "sleeping"]
  /\ UNCHANGED <<actorState, task, levelLoop, dying, helpers, output, service>>

\* The code reports every 80 ms; here only a report that changes something.
LevelReports(g) ==
  /\ levelLoop[g] = "on"
  /\ <<"level", g>> \notin dying
  /\ level # g
  /\ \A i \in DOMAIN inbox : inbox[i].kind # "level"
  /\ Post([kind |-> "level", gen |-> g])
  /\ UNCHANGED <<actorState, task, loops, helpers, output, service>>

\* The recording reached its limit or lost its device.
CaptureEnds(g) ==
  /\ levelLoop[g] = "on"
  /\ <<"level", g>> \notin dying
  /\ Post([kind |-> "captureEnded", gen |-> g])
  /\ levelLoop' = [levelLoop EXCEPT ![g] = "off"]
  /\ UNCHANGED <<actorState, task, previewLoop, dying, helpers, output, service>>

\* abort() does not wait: a loop that is being polled finishes that poll first.
PreviewLastPoll(g) ==
  /\ <<"preview", g>> \in dying
  /\ \/ /\ previewLoop[g] = "sleeping"
        /\ SendOrphan(Preview(g))
        /\ UNCHANGED inbox
     \/ /\ \/ previewLoop[g] = "reporting"
           \/ previewLoop[g] = "awaiting" /\ oneshot[Preview(g)] = "text"
        /\ Post([kind |-> "preview", gen |-> g])
        /\ oneshot' = Closed({Preview(g)})
        /\ UNCHANGED commands
     \/ /\ oneshot' = Closed({Preview(g)})
        /\ UNCHANGED <<inbox, commands>>
  /\ previewLoop' = [previewLoop EXCEPT ![g] = "off"]
  /\ dying' = dying \ {<<"preview", g>>}
  /\ UNCHANGED <<actorState, task, levelLoop, helpers, output, callerRest>>

LevelLastPoll(g) ==
  /\ <<"level", g>> \in dying
  /\ \/ \E kind \in {"level", "captureEnded"} : Post([kind |-> kind, gen |-> g])
     \/ UNCHANGED inbox
  /\ levelLoop' = [levelLoop EXCEPT ![g] = "off"]
  /\ dying' = dying \ {<<"level", g>>}
  /\ UNCHANGED <<actorState, task, previewLoop, helpers, output, service>>
-------------------------------------------------------------------------------
(* The waiter of a cancellation and the model watcher *)
RestartSeen(g) ==
  /\ restartWait[g] = "watching"
  /\ status # "Loading"
  /\ restartWait' = [restartWait EXCEPT ![g] = "sending"]
  /\ UNCHANGED <<actorState, inbox, task, loops, watcher, output, service>>

RestartReported(g) ==
  /\ restartWait[g] = "sending"
  /\ Post([kind |-> "cancellationFinished", gen |-> g])
  /\ restartWait' = [restartWait EXCEPT ![g] = "off"]
  /\ UNCHANGED <<actorState, task, loops, watcher, output, service>>

\* The first value is sent at once, the others when the value was set again.
WatcherBorrows ==
  /\ \/ watcher = "starting" /\ UNCHANGED service
     \/ watcher = "waiting" /\ WatcherLooks
  /\ watcher' = status
  /\ UNCHANGED <<actorState, inbox, task, loops, restartWait, output>>

WatcherReports ==
  /\ watcher \in {"Loading", "Ready", "Unavailable"}
  /\ Post([kind |-> "modelStatus", status |-> watcher])
  /\ watcher' = "waiting"
  /\ UNCHANGED <<actorState, task, loops, restartWait, output, service>>
-------------------------------------------------------------------------------
ActorNext ==
  \/ HandleStart \/ HandleStop \/ HandleToggle \/ HandleCancel
  \/ FinishCancel \/ HandleShutdown \/ HandleConfigure
  \/ HandleProgress \/ HandlePreview \/ HandleLevel \/ HandleCaptureEnded
  \/ HandleCompleted \/ HandleCancellationFinished \/ HandleModelStatus

TaskNext ==
  \/ PipelineSubmits \/ PipelineHears \/ PipelineAnnouncesRefining
  \/ PipelineDelivers \/ PipelineReports
  \/ \E g \in Generations :
       \/ PreviewAsks(g) \/ PreviewStops(g) \/ PreviewHears(g) \/ PreviewReports(g)
       \/ LevelReports(g) \/ CaptureEnds(g)
       \/ PreviewLastPoll(g) \/ LevelLastPoll(g)
       \/ RestartSeen(g) \/ RestartReported(g)
  \/ WatcherBorrows \/ WatcherReports

daemonVars == <<actorState, inbox, task, loops, helpers, output>>

Next ==
  \/ \E c \in Clients, op \in Commands \cap Operation : IssueCommand(c, op)
  \/ SignalShutdown
  \/ ActorNext
  \/ TaskNext
  \/ ServiceNext /\ UNCHANGED daemonVars

Spec == Init /\ [][Next]_vars
-------------------------------------------------------------------------------
(* Safety *)
Suspended == actor \in {"cancelRecording", "cancelPipeline"}

\* At most one dictation is recorded, processed or waited for at a time, and it
\* is the newest one.  (Daemon::run relies on it wherever it tests one of the
\* three fields and not the others.)
OneActivity ==
  /\ recording # None => recording = generation /\ pipeline = None /\ canceling = None
  /\ pipeline # None => pipeline = generation /\ canceling = None
  /\ canceling # None => canceling = generation
  /\ Suspended => ~Busy /\ cancelJob.gen = generation /\ generation # None

\* Between two messages the state on display says what the actor is doing, and
\* it calls the daemon idle or loading only when the actor's model status does.
StateMatchesActivity ==
  actor = "ready" =>
    /\ event.state = "Recording" <=> recording # None
    /\ event.state \in {"Transcribing", "Refining"} <=> pipeline # None
    /\ event.state = "Canceling" <=> canceling # None
    /\ event.state = "Idle" => modelStatus = "Ready"
    /\ event.state = "Loading" => modelStatus = "Loading"

\* No command is lost or answered twice: a client that waits for its reply is
\* in the inbox, parked, or the caller of the suspended cancel(), and in only
\* one of these places.
QueuedFor(c) == {i \in DOMAIN inbox : inbox[i].kind = "command" /\ inbox[i].client = c}
EveryCommandIsSomewhere ==
  actor # "stopped" =>
    \A c \in Clients :
      IF client[c].phase = "sent"
      THEN \/ /\ \E i \in DOMAIN inbox : QueuedFor(c) = {i}
              /\ c \notin waiters /\ cancelJob.by # c
           \/ /\ QueuedFor(c) = {}
              /\ (c \in waiters) # (cancelJob.by = c)
      ELSE QueuedFor(c) = {} /\ c \notin waiters /\ cancelJob.by # c

\* A Stop is parked only on a dictation whose end will answer it, and its
\* answer never shows a dictation still under way.
StopWaitsForTheEnd ==
  /\ waiters # {} => pipeline # None \/ actor = "cancelPipeline"
  /\ \A c \in Clients :
       client[c].phase = "answered" /\ client[c].op = "stop" =>
         client[c].reply.state \notin {"Recording", "Transcribing", "Refining"}

\* Every dictation that was started is under way or has ended.
NoDictationForgotten ==
  \A g \in Generations :
    /\ outcome[g] = "none" <=> g > generation
    /\ outcome[g] = "open" <=>
         g \in {recording, pipeline} \/ (Suspended /\ g = cancelJob.gen)

\* A result on display or kept for "copy last" is that of the newest dictation
\* that yielded one: never of a canceled or a failed dictation.
ResultsAreCurrent ==
  LET yielded == {g \in Generations : outcome[g] \in {"delivered", "undelivered"}}
  IN /\ \A g \in yielded : g <= latest
     /\ latest # None => latest \in yielded
     /\ event.transcript # None => event.transcript = latest

\* A preview or a level on display comes from the dictation under way, however
\* late the aborted loops of earlier recordings report.
NothingStaleOnDisplay ==
  /\ level # None => level = recording \/ (Suspended /\ level = cancelJob.gen)
  /\ {lastPreview, event.partial} \ {None} \subseteq
       {recording, pipeline} \cup (IF Suspended THEN {cancelJob.gen} ELSE {})

\* A dictation ends once: no late completion, cancellation or capture end
\* changes how it ended.
EndsOnce ==
  [][\A g \in Generations :
       outcome[g] \notin {"none", "open"} => outcome'[g] = outcome[g]]_vars

\* Once a cancellation is published, nothing of that dictation is delivered
\* (docs/configuration.md: "prevents its late result from being delivered").
SilentAfterCancel ==
  [][\A g \in Generations :
       outcome[g] = "canceled" /\ g \in output' => g \in output]_vars

\* The daemon lives up to the promise of module DictationLife, whatever its tasks,
\* clients and model do: a dictation begins after the one before has ended, its text
\* leaves at most once and while it is open, its outcome is what happened to the
\* text, and its result reaches the display and "copy last" when it ends and never
\* comes back.  (The handlers of Start, Stop, Cancel and of a completion, and the
\* order in which run_pipeline delivers and reports.)
Life == INSTANCE DictationLife
  WITH fate <- outcome, sent <- output, kept <- latest, displayed <- event.transcript
LivesUpToPromise == Life!Spec

\* A recording that no client ended had ended its capture itself: the late
\* capture end of an earlier recording never cuts the next one short.
NotCutShort ==
  [][recording # None /\ recording' = None
       /\ Head(inbox).kind \notin {"command", "shutdown"}
     => levelLoop[recording] = "off"]_vars

\* The daemon keeps its side of the supervisor's contract: never two copies of
\* a request under way, never two unanswered cancellations.
KeepsContract == [][UNCHANGED service \/ CallerNext \/ ServiceNext]_service

\* "Dictation was canceled before delivery finished" (the reply of cancel() to
\* a parked Stop): the text of a canceled dictation was not delivered.
CanceledMeansUndelivered ==
  \A g \in Generations : outcome[g] = "canceled" => g \notin output
-------------------------------------------------------------------------------
(* Liveness *)

\* Tokio runs every task that is ready, and its mpsc channel admits blocked
\* senders in FIFO order, so a sender that waits for room is admitted (SF).
DaemonFairness ==
  /\ WF_vars(ActorNext)
  /\ WF_vars(PipelineSubmits) /\ WF_vars(PipelineHears) /\ WF_vars(PipelineDelivers)
  /\ SF_vars(PipelineAnnouncesRefining) /\ SF_vars(PipelineReports)
  /\ WF_vars(WatcherBorrows) /\ SF_vars(WatcherReports)
  /\ \A g \in Generations :
       SF_vars(RestartSeen(g)) /\ SF_vars(RestartReported(g)) /\ SF_vars(CaptureEnds(g))

\* The supervisor answers within its deadlines (inference and model load).
ServiceFairness ==
  /\ \A g \in Generations :
       WF_vars((AnswerText(Final(g)) \/ AnswerWithoutText(Final(g)))
                 /\ UNCHANGED daemonVars)
  /\ WF_vars((Accept \/ Refuse \/ CancelRequests \/ CancelUnavailable)
               /\ UNCHANGED daemonVars)
  /\ WF_vars((\E result \in {"Ready", "Unavailable"} : Load(result))
               /\ UNCHANGED daemonVars)

FairSpec == Spec /\ DaemonFairness /\ ServiceFairness

\* A parked Stop is answered (docs/configuration.md: "record stop waits for
\* transcription, cleanup, and delivery and reports any terminal failure").
StopIsAnswered == \A c \in Clients : c \in waiters ~> c \notin waiters

\* A cancellation ends: the worker was replaced or given up.
CancelingEnds ==
  /\ canceling # None ~> canceling = None \/ actor = "stopped"
  /\ Suspended ~> ~Suspended

\* A recording does not last for ever: its capture ends at the latest at the
\* ten-minute limit, and the dictation then ends too.
DictationsEnd ==
  \A g \in Generations : outcome[g] = "open" ~> outcome[g] # "open"

LossCodes == {"model_unavailable", "pipeline_failed", "delivery_failed",
              "microphone_finish_failed"}

\* Once the model is gone for good and no dictation is under way any more, the
\* display says so and goes on saying so: whatever was under way when the loss was
\* reported, and whichever of completion, cancellation, restart and status the actor
\* handled last.  Only a dictation that failed shows its own failure in its place.
\* (update_model_status, quiescent_event and the handler of Completed.)
ModelLossIsShown ==
  <>[](status = "Unavailable" /\ ~Busy) =>
    <>[](\/ actor = "stopped"
         \/ event.state = "Error" /\ event.notices \cap LossCodes # {})

\* A shutdown that was asked for stops the actor, whatever is under way or waits in
\* the mailbox before it (run, shutdown).
ShutdownCompletes == shutdown ~> actor = "stopped"

===============================================================================
