------------------------------ MODULE DaemonProofs ------------------------------
(***************************************************************************)
(* What the daemon guarantees for any number of clients and dictations and *)
(* any inbox capacity: its types; the life of a dictation, one activity at *)
(* a time, every dictation accounted for, and each ending once; and what   *)
(* it displays, which says what the actor is doing, with the preview and   *)
(* level of the dictation under way and the newest result there is,        *)
(* however late a message of an earlier dictation is.                      *)
(***************************************************************************)
EXTENDS Daemon, TLAPS

(* Messages, events and replies *)

\* What the fields of a message hold follows from its kind.
LEMMA MessageFields ==
  ASSUME NEW m \in Message
  PROVE  /\ m.kind = "command" => m.client \in Clients
         /\ m.kind \in {"progress", "preview", "level", "captureEnded",
                        "cancellationFinished", "completed"} => m.gen \in Generations
         /\ m.kind = "completed" => m.result \in {"delivered", "undelivered", "failed"}
         /\ m.kind = "modelStatus" => m.status \in {"Loading", "Ready", "Unavailable"}
  BY DEF Message

\* Taking a message keeps the inbox an inbox.
LEMMA Taking ==
  ASSUME TypeOK, NEW kind, Receive(kind)
  PROVE  /\ Head(inbox) \in Message
         /\ Head(inbox).kind = kind
         /\ inbox' \in Seq(Message)
         /\ Len(inbox') <= InboxCapacity
  BY InboxCapacityAssumption DEF TypeOK, Receive

\* So does posting one (Post of every task).
LEMMA Posting ==
  ASSUME TypeOK, NEW m \in Message, Post(m)
  PROVE  inbox' \in Seq(Message) /\ Len(inbox') <= InboxCapacity
  BY InboxCapacityAssumption DEF TypeOK, Post, Room

\* Events are events (ipc.rs, the StateEvent constructors).
LEMMA EventTypes ==
  /\ \A s \in State : Ev(s) \in Event
  /\ \A s \in State, c \in Code : ErrorEv(s, c) \in Event
  /\ \A ev \in Event, c \in Code : Notify(ev, c) \in Event
  /\ \A s \in State, p \in Generations \cup {None} : Active(s, p) \in Event
  BY DEF Ev, ErrorEv, Notify, Active, Event

\* quiescent_event and model_unavailable_event.
LEMMA QuiescentEventType ==
  /\ \A s \in {"Loading", "Ready", "Unavailable"} : ModelEvent(s) \in Event
  /\ TypeOK => QuiescentEvent \in Event
<1>1. \A s \in {"Loading", "Ready", "Unavailable"} : ModelEvent(s) \in Event
  BY EventTypes DEF ModelEvent, State, Code
<1> QED BY <1>1, EventTypes DEF TypeOK, QuiescentEvent, State

\* A reply leaves every session a session.
LEMMA Answering ==
  ASSUME TypeOK, NEW s \in Session, NEW ev \in Event
  PROVE  Answer(s, ev) \in Session
<1>1. IdleClient \in Session
  BY EventTypes DEF IdleClient, Session, Operation, State
<1> QED BY <1>1 DEF Answer, Session

LEMMA Replying ==
  ASSUME TypeOK, NEW c, NEW ev \in Event, ReplyTo(c, ev)
  PROVE  client' \in [Clients -> Session]
  BY Answering DEF TypeOK, ReplyTo

\* resolve_completion_waiters.
LEMMA Resolving ==
  ASSUME TypeOK, NEW ev \in Event
  PROVE  Resolved(ev) \in [Clients -> Session]
  BY Answering DEF TypeOK, Resolved
-------------------------------------------------------------------------------
(* Type correctness *)

LEMMA TypedInit == Init => TypeOK
<1> SUFFICES ASSUME Init PROVE TypeOK
  OBVIOUS
<1>0. unseen \in BOOLEAN /\ shutdown \in BOOLEAN
  BY DEF Init, ServiceInit
<1>1. ServiceTypeOK
  BY <1>0 DEF Init, ServiceInit, ServiceTypeOK, Reply
<1>2. event \in Event /\ client \in [Clients -> Session]
  BY EventTypes DEF Init, IdleClient, Session, Operation, State
<1>3. inbox \in Seq(Message) /\ Len(inbox) <= InboxCapacity
  BY InboxCapacityAssumption DEF Init
<1>4. task \in Task /\ task.phase = "none"
  BY DEF Init, NoTask, Task
<1> QED BY <1>0, <1>1, <1>2, <1>3, <1>4, MaxGenerationAssumption DEF Init, TypeOK, NoJob, None

\* The supervisor's steps.
LEMMA TypedService ==
  ASSUME ServiceTypeOK, ServiceNext
  PROVE  ServiceTypeOK'
<1>1. ASSUME commands # <<>>
      PROVE  Head(commands) \in Command /\ Tail(commands) \in Seq(Command)
  BY <1>1 DEF ServiceTypeOK
<1>2. ASSUME commands # <<>>, Head(commands).kind # "cancel"
      PROVE  Head(commands) \in Request
  BY <1>1, <1>2 DEF Command, Request
<1>3. unseen' \in BOOLEAN
  BY DEF ServiceNext, Accept, Refuse, CancelRequests, CancelUnavailable, AnswerText,
         AnswerWithoutText, WorkerLost, Load, SetStatus, ServiceTypeOK
<1>4. oneshot' \in [Request -> Reply]
  BY DEF ServiceNext, Accept, Refuse, CancelRequests, CancelUnavailable, AnswerText,
         AnswerWithoutText, WorkerLost, Load, Answered, ServiceTypeOK, Reply
<1>5. CASE Accept
  BY <1>1, <1>2, <1>3, <1>4, <1>5 DEF Accept, ServiceTypeOK
<1>6. CASE Refuse
  BY <1>1, <1>3, <1>4, <1>6 DEF Refuse, ServiceTypeOK
<1>7. CASE CancelRequests
  BY <1>1, <1>3, <1>4, <1>7 DEF CancelRequests, ServiceTypeOK, Larger, SetStatus, Command
<1>8. CASE CancelUnavailable
  BY <1>1, <1>3, <1>4, <1>8 DEF CancelUnavailable, ServiceTypeOK
<1>9. CASE \E r \in Request : AnswerText(r)
  BY <1>3, <1>4, <1>9 DEF AnswerText, ServiceTypeOK
<1>10. CASE \E r \in Request : AnswerWithoutText(r)
  BY <1>3, <1>4, <1>10 DEF AnswerWithoutText, ServiceTypeOK, SetStatus
<1>11. CASE WorkerLost
  BY <1>3, <1>11 DEF WorkerLost, ServiceTypeOK, SetStatus
<1>12. CASE \E value \in {"Loading", "Ready", "Unavailable"} : Load(value)
  BY <1>3, <1>12 DEF Load, ServiceTypeOK, SetStatus
<1> QED BY <1>5, <1>6, <1>7, <1>8, <1>9, <1>10, <1>11, <1>12 DEF ServiceNext

\* The part of the state that a handler works on through start_recording,
\* finalize_recording and the replies.
DictationOK ==
  /\ recording \in Generations \cup {None}
  /\ pipeline \in Generations \cup {None}
  /\ canceling \in Generations \cup {None}
  /\ generation \in 0 .. MaxGeneration
  /\ lastPreview \in Generations \cup {None}
  /\ level \in Generations \cup {None}
  /\ event \in Event
  /\ waiters \in SUBSET Clients
  /\ latest \in Generations \cup {None}
  /\ task \in Task
  /\ task.phase # "none" => task.gen # None
  /\ task.phase = "reporting" => task.result # "none"
  /\ previewLoop \in [Generations -> {"off", "sleeping", "awaiting", "reporting"}]
  /\ levelLoop \in [Generations -> {"off", "on"}]
  /\ dying \in SUBSET ({"preview", "level"} \X Generations)
  /\ client \in [Clients -> Session]
  /\ outcome \in [Generations -> {"none", "open", "delivered", "undelivered",
                                  "failed", "canceled"}]

LEMMA TypedOnlyReply ==
  ASSUME TypeOK, NEW c, NEW ev \in Event, OnlyReply(c, ev)
  PROVE  DictationOK'
<1>1. client' \in [Clients -> Session]
  BY Replying DEF OnlyReply
<1> QED BY <1>1 DEF OnlyReply, TypeOK, DictationOK, dictation, shown, loops

LEMMA TypedOpenMicrophone ==
  ASSUME TypeOK, NEW c, OpenMicrophone(c)
  PROVE  DictationOK'
<1>1. event' \in Event
  BY EventTypes DEF OpenMicrophone, State
<1>2. client' \in [Clients -> Session]
  BY <1>1, Replying DEF OpenMicrophone
<1>3. generation + 1 \in Generations
  BY MaxGenerationAssumption DEF OpenMicrophone, TypeOK, Generations
<1> QED BY <1>1, <1>2, <1>3 DEF OpenMicrophone, TypeOK, DictationOK, Generations

LEMMA TypedMicrophoneFails ==
  ASSUME TypeOK, NEW c, MicrophoneFails(c)
  PROVE  DictationOK'
<1>1. event' \in Event
  BY EventTypes DEF MicrophoneFails, State, Code
<1>2. client' \in [Clients -> Session]
  BY <1>1, Replying DEF MicrophoneFails
<1> QED BY <1>1, <1>2 DEF MicrophoneFails, TypeOK, DictationOK, dictation, loops

LEMMA TypedStart ==
  ASSUME TypeOK, NEW c, StartRecording(c)
  PROVE  DictationOK'
<1>1. event \in Event /\ event.state \in State
  BY DEF TypeOK, Event
<1>2. /\ ErrorEv(event.state, "recording_busy") \in Event
      /\ ErrorEv("Loading", "recording_busy") \in Event
      /\ ErrorEv("Error", "model_unavailable") \in Event
  BY <1>1, EventTypes DEF State, Code
<1> QED
  BY <1>1, <1>2, TypedOnlyReply, TypedOpenMicrophone, TypedMicrophoneFails
  DEF StartRecording

LEMMA TypedFinalize ==
  ASSUME TypeOK, NEW c, NEW parks, parks => c \in Clients, FinalizeRecording(c, parks)
  PROVE  DictationOK'
<1>1. event' \in Event
  BY EventTypes DEF FinalizeRecording, State, Code, TypeOK
<1>2. client' \in [Clients -> Session] /\ waiters' \in SUBSET Clients
  BY <1>1, Replying DEF FinalizeRecording, TypeOK
<1>3. /\ task' \in Task
      /\ task'.phase # "none" => task'.gen # None
      /\ task'.phase = "reporting" => task'.result # "none"
  BY DEF FinalizeRecording, TypeOK, Task
<1>4. dying' \in SUBSET ({"preview", "level"} \X Generations)
  BY DEF FinalizeRecording, Alive, TypeOK, None
<1>5. outcome' \in [Generations -> {"none", "open", "delivered", "undelivered",
                                    "failed", "canceled"}]
  BY DEF FinalizeRecording, TypeOK
<1> QED BY <1>1, <1>2, <1>3, <1>4, <1>5 DEF FinalizeRecording, TypeOK, DictationOK

LEMMA TypedBeginCancel ==
  ASSUME TypeOK, NEW c \in Clients \cup {Nobody}, BeginCancel(c)
  PROVE  /\ DictationOK'
         /\ actor' \in {"cancelRecording", "cancelPipeline"}
         /\ cancelJob' \in [gen : Generations \cup {None}, by : Clients \cup {Nobody}]
         /\ commands' \in Seq(Command)
         /\ oneshot' \in [Request -> Reply]
         /\ cancelReply' = "open"
<1>1. CASE recording # None /\ AbortRecording(c)
  <2>1. dying' \in SUBSET ({"preview", "level"} \X Generations)
    BY <1>1 DEF AbortRecording, Alive, TypeOK
  <2>2. [kind |-> "cancel", gen |-> recording] \in Command
    BY <1>1 DEF TypeOK, Command
  <2> QED
    BY <1>1, <2>1, <2>2
    DEF BeginCancel, AbortRecording, SendCancel, TypeOK, ServiceTypeOK, DictationOK, shown
<1>2. CASE pipeline # None /\ AbortPipeline(c)
  <2>1. [kind |-> "cancel", gen |-> pipeline] \in Command
    BY <1>2 DEF TypeOK, Command
  <2>2. oneshot' \in [Request -> Reply]
    BY <1>2 DEF AbortPipeline, Closed, TypeOK, ServiceTypeOK, Reply
  <2>3. task' \in Task /\ task'.phase = "none"
    BY <1>2 DEF AbortPipeline, NoTask, Task
  <2>4. DictationOK'
    BY <1>2, <2>3 DEF BeginCancel, AbortPipeline, TypeOK, DictationOK, shown
  <2>5. /\ cancelJob' \in [gen : Generations \cup {None}, by : Clients \cup {Nobody}]
        /\ commands' \in Seq(Command)
    BY <1>2, <2>1 DEF AbortPipeline, SendCancel, TypeOK, ServiceTypeOK
  <2> QED BY <1>2, <2>2, <2>4, <2>5 DEF AbortPipeline, SendCancel
<1> QED BY <1>1, <1>2 DEF BeginCancel

\* Every message handler, and the end of a suspended cancel().
LEMMA TypedActor ==
  ASSUME TypeOK, ActorNext
  PROVE  TypeOK'
<1> DEFINE c == Head(inbox).client
<1> DEFINE Took == inbox' \in Seq(Message) /\ Len(inbox') <= InboxCapacity
<1>0. ASSUME NEW kind, Receive(kind)
      PROVE  /\ Took
             /\ kind = "command" => c \in Clients
             /\ kind \in {"progress", "preview", "level", "captureEnded",
                          "cancellationFinished", "completed"}
                  => Head(inbox).gen \in Generations
  BY <1>0, Taking, MessageFields
<1> USE DEF dictation, shown, loops, helpers, sessions, history, service
<1>1. CASE HandleStart
  <2>1. Took /\ DictationOK'
    BY <1>0, <1>1, TypedStart DEF HandleStart
  <2> QED BY <1>1, <2>1 DEF HandleStart, TypeOK, ServiceTypeOK, DictationOK
<1>2. CASE HandleStop
  <2>1. Took /\ c \in Clients
    BY <1>0, <1>2 DEF HandleStop
  <2>2. event \in Event
    BY DEF TypeOK
  <2>3. CASE FinalizeRecording(c, TRUE) \/ OnlyReply(c, event)
    <3>1. DictationOK'
      BY <2>1, <2>2, <2>3, TypedFinalize, TypedOnlyReply
    <3> QED BY <1>2, <2>1, <3>1 DEF HandleStop, TypeOK, ServiceTypeOK, DictationOK
  <2>4. CASE ~(FinalizeRecording(c, TRUE) \/ OnlyReply(c, event))
    <3>1. /\ waiters' = waiters \cup {c}
          /\ UNCHANGED <<dictation, shown, client, task, loops, outcome>>
      BY <1>2, <2>4 DEF HandleStop
    <3> QED BY <1>2, <2>1, <3>1 DEF HandleStop, TypeOK, ServiceTypeOK
  <2> QED BY <2>3, <2>4
<1>3. CASE HandleToggle
  <2>1. Took /\ event \in Event
    BY <1>0, <1>3 DEF HandleToggle, TypeOK
  <2>2. DictationOK'
    BY <1>3, <2>1, TypedStart, TypedFinalize, TypedOnlyReply DEF HandleToggle
  <2> QED BY <1>3, <2>1, <2>2 DEF HandleToggle, TypeOK, ServiceTypeOK, DictationOK
<1>4. CASE HandleCancel
  <2>1. Took /\ event \in Event /\ c \in Clients
    BY <1>0, <1>4 DEF HandleCancel, TypeOK
  <2>2. CASE BeginCancel(c)
    BY <1>4, <2>1, <2>2, TypedBeginCancel DEF HandleCancel, TypeOK, ServiceTypeOK, DictationOK
  <2>3. CASE OnlyReply(c, event) /\ UNCHANGED <<actor, cancelJob, commands, oneshot, cancelReply>>
    BY <1>4, <2>1, <2>3, TypedOnlyReply DEF HandleCancel, TypeOK, ServiceTypeOK, DictationOK
  <2> QED BY <1>4, <2>2, <2>3 DEF HandleCancel
<1>5. CASE FinishCancel
  <2> DEFINE ev == Notify(IF cancelReply = "active" THEN Ev("Canceling")
                                                    ELSE QuiescentEvent, "canceled")
  <2>1. ev \in Event /\ ErrorEv(ev.state, "dictation_canceled") \in Event
    <3>1. ev \in Event
      BY EventTypes, QuiescentEventType DEF State, Code
    <3> QED BY <3>1, EventTypes DEF Event, Code
  <2>2. client' \in [Clients -> Session]
    <3> HIDE DEF ev
    <3>1. Resolved(ErrorEv(ev.state, "dictation_canceled")) \in [Clients -> Session]
      BY <2>1, Resolving
    <3>2. \A d \in Clients : Answer(client[d], ev) \in Session
      BY <2>1, Answering DEF TypeOK
    <3> QED BY <1>5, <3>1, <3>2 DEF FinishCancel, ev
  <2>3. event' = ev /\ event' \in Event
    BY <1>5, <2>1 DEF FinishCancel
  <2> HIDE DEF ev
  <2>4. /\ restartWait' \in [Generations -> {"off", "watching", "sending"}]
        /\ canceling' \in Generations \cup {None}
        /\ outcome' \in [Generations -> {"none", "open", "delivered", "undelivered",
                                         "failed", "canceled"}]
    BY <1>5 DEF FinishCancel, TypeOK
  <2>5. /\ actor' \in {"ready", "stopped"} /\ cancelReply' = "closed"
        /\ cancelJob' = NoJob /\ lastPreview' = None /\ level' = None /\ waiters' = {}
        /\ UNCHANGED <<recording, pipeline, generation, latest, modelStatus, inbox,
                       task, loops, watcher, shutdown, output, commands, accepted,
                       canceled, oneshot, status, unseen>>
    BY <1>5 DEF FinishCancel
  <2> QED BY <2>2, <2>3, <2>4, <2>5 DEF TypeOK, ServiceTypeOK, NoJob
<1>6. CASE HandleShutdown
  <2>1. Took
    BY <1>0, <1>6 DEF HandleShutdown
  <2>2. CASE BeginCancel(Nobody)
    BY <1>6, <2>1, <2>2, TypedBeginCancel
    DEF HandleShutdown, TypeOK, ServiceTypeOK, DictationOK
  <2>3. CASE ~BeginCancel(Nobody)
    BY <1>6, <2>1, <2>3 DEF HandleShutdown, TypeOK, ServiceTypeOK
  <2> QED BY <2>2, <2>3
<1>7. CASE HandleConfigure
  <2>1. Took
    BY <1>0, <1>7 DEF HandleConfigure
  <2>2. ErrorEv(event.state, "configuration_refused") \in Event
    BY EventTypes DEF TypeOK, Event, Code
  <2>3. CASE OnlyReply(c, ErrorEv(event.state, "configuration_refused"))
    BY <1>7, <2>1, <2>2, <2>3, TypedOnlyReply
    DEF HandleConfigure, TypeOK, ServiceTypeOK, DictationOK
  <2>5. CASE OnlyReply(c, event)
    BY <1>7, <2>1, <2>5, TypedOnlyReply
    DEF HandleConfigure, TypeOK, ServiceTypeOK, DictationOK
  <2>4. CASE ~OnlyReply(c, event)
             /\ ~OnlyReply(c, ErrorEv(event.state, "configuration_refused"))
    <3>1. event' \in Event /\ ReplyTo(c, event')
      BY <1>7, <2>4, QuiescentEventType DEF HandleConfigure
    <3>2. client' \in [Clients -> Session]
      BY <3>1, Replying
    <3> QED BY <1>7, <2>1, <2>4, <3>1, <3>2 DEF HandleConfigure, TypeOK, ServiceTypeOK
  <2> QED BY <2>3, <2>4, <2>5
<1>8. CASE HandleProgress
  <2>1. Took /\ event' \in Event
    BY <1>0, <1>8, EventTypes DEF HandleProgress, State, TypeOK
  <2> QED BY <1>8, <2>1 DEF HandleProgress, TypeOK, ServiceTypeOK
<1>9. CASE HandlePreview
  <2>1. Took /\ Head(inbox).gen \in Generations
    BY <1>0, <1>9 DEF HandlePreview
  <2> QED BY <1>9, <2>1, EventTypes DEF HandlePreview, TypeOK, ServiceTypeOK, State
<1>10. CASE HandleLevel
  <2>1. Took /\ Head(inbox).gen \in Generations
    BY <1>0, <1>10 DEF HandleLevel
  <2> QED BY <1>10, <2>1 DEF HandleLevel, TypeOK, ServiceTypeOK
<1>11. CASE HandleCaptureEnded
  <2>1. Took
    BY <1>0, <1>11 DEF HandleCaptureEnded
  <2>2. CASE FinalizeRecording(Nobody, FALSE)
    <3>1. DictationOK'
      BY <2>2, TypedFinalize
    <3> QED BY <1>11, <2>1, <3>1 DEF HandleCaptureEnded, TypeOK, ServiceTypeOK, DictationOK
  <2>3. CASE UNCHANGED <<dictation, shown, waiters, client, task, loops, outcome>>
    BY <1>11, <2>1, <2>3 DEF HandleCaptureEnded, TypeOK, ServiceTypeOK
  <2> QED BY <1>11, <2>2, <2>3 DEF HandleCaptureEnded
<1>12. CASE HandleCompleted
  <2>1. Took /\ Head(inbox).gen \in Generations
    BY <1>0, <1>12 DEF HandleCompleted
  <2>2. Head(inbox).result \in {"delivered", "undelivered", "failed"}
    BY <1>12, Taking, MessageFields DEF HandleCompleted
  <2> DEFINE ev == CompletionEvent(Head(inbox).gen, Head(inbox).result)
  <2>3. ev \in Event
    <3>1. ErrorEv("Error", "delivery_failed") \in Event /\ QuiescentEvent \in Event
      BY EventTypes, QuiescentEventType DEF State, Code
    <3>2. ErrorEv("Error", "pipeline_failed") \in Event
      BY EventTypes DEF State, Code
    <3> QED BY <2>1, <2>2, <3>1, <3>2 DEF CompletionEvent, Event
  <2>4. Resolved(ev) \in [Clients -> Session]
    BY <2>3, Resolving
  <2> HIDE DEF ev
  <2>5. CASE PipelineIdentityMatches(Head(inbox).gen)
    <3>1. event' = ev /\ client' = Resolved(ev)
      BY <1>12, <2>5 DEF HandleCompleted, ev
    <3>2. /\ latest' \in {latest, Head(inbox).gen}
          /\ outcome' = [outcome EXCEPT ![Head(inbox).gen] = Head(inbox).result]
      BY <1>12, <2>5 DEF HandleCompleted
    <3>3. /\ pipeline' = None /\ lastPreview' = None /\ level' = None /\ waiters' = {}
          /\ UNCHANGED <<actor, cancelJob, recording, canceling, generation, modelStatus,
                         task, loops, helpers, shutdown, output, service>>
      BY <1>12, <2>5 DEF HandleCompleted
    <3>4. /\ latest' \in Generations \cup {None}
          /\ outcome' \in [Generations -> {"none", "open", "delivered", "undelivered",
                                           "failed", "canceled"}]
      BY <2>1, <2>2, <3>2 DEF TypeOK
    <3> QED BY <2>1, <2>3, <2>4, <3>1, <3>3, <3>4 DEF TypeOK, ServiceTypeOK
  <2>6. CASE ~PipelineIdentityMatches(Head(inbox).gen)
    BY <1>12, <2>1, <2>6 DEF HandleCompleted, TypeOK, ServiceTypeOK
  <2> QED BY <2>5, <2>6
<1>13. CASE HandleCancellationFinished
  <2>1. Took /\ event' \in Event
    BY <1>0, <1>13, QuiescentEventType DEF HandleCancellationFinished, TypeOK
  <2> QED BY <1>13, <2>1 DEF HandleCancellationFinished, TypeOK, ServiceTypeOK
<1>14. CASE HandleModelStatus
  <2>1. Took /\ modelStatus' \in {"Loading", "Ready", "Unavailable"}
    BY <1>0, <1>14, Taking, MessageFields DEF HandleModelStatus
  <2>2. \A ev \in Event : PreserveTerminalPayload(ev) \in Event
    BY DEF PreserveTerminalPayload, TypeOK, Event
  <2>3. event' \in Event
    BY <1>14, <2>1, <2>2, EventTypes, QuiescentEventType DEF HandleModelStatus, TypeOK, State
  <2> QED BY <1>14, <2>1, <2>3 DEF HandleModelStatus, TypeOK, ServiceTypeOK
<1> QED
  BY <1>1, <1>2, <1>3, <1>4, <1>5, <1>6, <1>7, <1>8, <1>9, <1>10, <1>11, <1>12, <1>13, <1>14
  DEF ActorNext

\* Clients and the shutdown signal.
LEMMA TypedClients ==
  ASSUME TypeOK, (\E c \in Clients, op \in Commands \cap Operation : IssueCommand(c, op))
                   \/ SignalShutdown
  PROVE  TypeOK'
<1> USE DEF dictation, shown, loops, helpers, history, service
<1>1. ASSUME NEW c \in Clients, NEW op \in Operation, IssueCommand(c, op)
      PROVE  TypeOK'
  <2>1. [kind |-> "command", client |-> c] \in Message
    BY DEF Message
  <2>2. inbox' \in Seq(Message) /\ Len(inbox') <= InboxCapacity
    BY <1>1, <2>1, Posting DEF IssueCommand
  <2>3. client' \in [Clients -> Session]
    <3>1. Ev("Loading") \in Event
      BY EventTypes DEF State
    <3> QED BY <1>1, <3>1 DEF IssueCommand, TypeOK, Session
  <2>4. UNCHANGED <<actor, cancelJob, dictation, shown, modelStatus, waiters,
                    shutdown, task, loops, helpers, history, service>>
    BY <1>1 DEF IssueCommand
  <2> QED BY <2>2, <2>3, <2>4 DEF TypeOK, ServiceTypeOK
<1>2. CASE SignalShutdown
  <2>1. [kind |-> "shutdown"] \in Message
    BY DEF Message
  <2>2. inbox' \in Seq(Message) /\ Len(inbox') <= InboxCapacity
    BY <1>2, <2>1, Posting DEF SignalShutdown
  <2>3. shutdown' \in BOOLEAN
    BY <1>2 DEF SignalShutdown
  <2>4. UNCHANGED <<actor, cancelJob, dictation, shown, modelStatus, waiters,
                    client, task, loops, helpers, history, service>>
    BY <1>2 DEF SignalShutdown
  <2> QED BY <2>2, <2>3, <2>4 DEF TypeOK, ServiceTypeOK
<1> QED BY <1>1, <1>2

\* The pipeline task.
LEMMA TypedPipeline ==
  ASSUME TypeOK,
         \/ PipelineSubmits \/ PipelineHears \/ PipelineAnnouncesRefining
         \/ PipelineDelivers \/ PipelineReports
  PROVE  TypeOK'
<1> USE DEF actorState, callerRest, dictation, shown, sessions, loops, helpers, history,
            service
<1>0. task.phase # "none" => task.gen \in Generations
  BY DEF TypeOK, Task
<1>1. CASE PipelineSubmits
  <2>1. task.gen \in Generations /\ Final(task.gen) \in Command /\ Final(task.gen) \in Request
    BY <1>0, <1>1 DEF PipelineSubmits, Final, Command, Request
  <2>2. commands' \in Seq(Command) /\ oneshot' \in [Request -> Reply]
    BY <1>1, <2>1 DEF PipelineSubmits, SendRequest, TypeOK, ServiceTypeOK, Reply
  <2>3. task' \in Task /\ task'.gen # None /\ task'.phase # "reporting"
    BY <1>1, <2>1 DEF PipelineSubmits, TypeOK, Task
  <2> QED BY <1>1, <2>2, <2>3 DEF PipelineSubmits, SendRequest, TypeOK, ServiceTypeOK
<1>2. CASE PipelineHears
  <2>1. oneshot' \in [Request -> Reply]
    BY <1>2 DEF PipelineHears, Closed, TypeOK, ServiceTypeOK, Reply
  <2>2. /\ task' \in Task /\ task'.gen # None
        /\ task'.phase = "reporting" => task'.result # "none"
    BY <1>2 DEF PipelineHears, TypeOK, Task
  <2>3. UNCHANGED <<actorState, inbox, loops, helpers, output, commands, callerRest>>
    BY <1>2 DEF PipelineHears
  <2> QED BY <2>1, <2>2, <2>3 DEF TypeOK, ServiceTypeOK
<1>3. CASE PipelineAnnouncesRefining
  <2>1. [kind |-> "progress", gen |-> task.gen] \in Message
    BY <1>0, <1>3 DEF PipelineAnnouncesRefining, Message
  <2>2. inbox' \in Seq(Message) /\ Len(inbox') <= InboxCapacity
    BY <1>3, <2>1, Posting DEF PipelineAnnouncesRefining
  <2>3. task' \in Task /\ task'.gen # None /\ task'.phase # "reporting"
    BY <1>3 DEF PipelineAnnouncesRefining, TypeOK, Task
  <2> QED BY <1>3, <2>2, <2>3 DEF PipelineAnnouncesRefining, TypeOK, ServiceTypeOK
<1>4. CASE PipelineDelivers
  <2>1. task' \in Task /\ task'.gen # None /\ task'.result # "none"
    BY <1>4 DEF PipelineDelivers, TypeOK, Task
  <2>2. output' \in SUBSET Generations
    BY <1>0, <1>4 DEF PipelineDelivers, TypeOK
  <2> QED BY <1>4, <2>1, <2>2 DEF PipelineDelivers, TypeOK, ServiceTypeOK
<1>5. CASE PipelineReports
  <2>1. task.result \in {"delivered", "undelivered", "failed"}
    BY <1>5 DEF PipelineReports, TypeOK, Task
  <2>2. [kind |-> "completed", gen |-> task.gen, result |-> task.result] \in Message
    BY <1>0, <1>5, <2>1 DEF PipelineReports, Message
  <2>3. inbox' \in Seq(Message) /\ Len(inbox') <= InboxCapacity
    BY <1>5, <2>2, Posting DEF PipelineReports
  <2>4. task' \in Task /\ task'.phase = "none"
    BY <1>5 DEF PipelineReports, NoTask, Task
  <2> QED BY <1>5, <2>3, <2>4 DEF PipelineReports, TypeOK, ServiceTypeOK
<1> QED BY <1>1, <1>2, <1>3, <1>4, <1>5

\* The preview and level loops of one recording.
LEMMA TypedLoops ==
  ASSUME TypeOK, NEW g \in Generations,
         \/ PreviewAsks(g) \/ PreviewStops(g) \/ PreviewHears(g) \/ PreviewReports(g)
         \/ LevelReports(g) \/ CaptureEnds(g) \/ PreviewLastPoll(g) \/ LevelLastPoll(g)
  PROVE  TypeOK'
<1> USE DEF actorState, callerRest, dictation, shown, sessions, loops, helpers, history,
            service
<1>0. /\ Preview(g) \in Command /\ Preview(g) \in Request
      /\ \A kind \in {"preview", "level", "captureEnded"} :
           [kind |-> kind, gen |-> g] \in Message
  BY DEF Preview, Command, Request, Message
<1>1. CASE PreviewAsks(g)
  <2>1. commands' \in Seq(Command) /\ oneshot' \in [Request -> Reply]
    BY <1>0, <1>1 DEF PreviewAsks, SendRequest, TypeOK, ServiceTypeOK, Reply
  <2> QED BY <1>1, <2>1 DEF PreviewAsks, TypeOK, ServiceTypeOK
<1>2. CASE PreviewStops(g)
  BY <1>2 DEF PreviewStops, TypeOK, ServiceTypeOK
<1>3. CASE PreviewHears(g)
  <2>1. oneshot' \in [Request -> Reply]
    BY <1>3 DEF PreviewHears, Closed, TypeOK, ServiceTypeOK, Reply
  <2>2. /\ previewLoop' \in [Generations -> {"off", "sleeping", "awaiting", "reporting"}]
        /\ UNCHANGED <<actorState, inbox, task, levelLoop, dying, helpers, output,
                       commands, callerRest>>
    BY <1>3 DEF PreviewHears, TypeOK
  <2> QED BY <2>1, <2>2 DEF TypeOK, ServiceTypeOK
<1>4. CASE PreviewReports(g)
  <2>1. inbox' \in Seq(Message) /\ Len(inbox') <= InboxCapacity
    BY <1>0, <1>4, Posting DEF PreviewReports
  <2> QED BY <1>4, <2>1 DEF PreviewReports, TypeOK, ServiceTypeOK
<1>5. CASE LevelReports(g)
  <2>1. inbox' \in Seq(Message) /\ Len(inbox') <= InboxCapacity
    BY <1>0, <1>5, Posting DEF LevelReports
  <2> QED BY <1>5, <2>1 DEF LevelReports, TypeOK, ServiceTypeOK
<1>6. CASE CaptureEnds(g)
  <2>1. inbox' \in Seq(Message) /\ Len(inbox') <= InboxCapacity
    BY <1>0, <1>6, Posting DEF CaptureEnds
  <2> QED BY <1>6, <2>1 DEF CaptureEnds, TypeOK, ServiceTypeOK
<1>7. CASE PreviewLastPoll(g)
  <2>1. inbox' \in Seq(Message) /\ Len(inbox') <= InboxCapacity
    BY <1>0, <1>7, Posting DEF PreviewLastPoll, TypeOK
  <2>2. commands' \in Seq(Command)
    <3>1. commands' = commands \/ commands' = Append(commands, Preview(g))
      BY <1>7 DEF PreviewLastPoll, SendOrphan
    <3>2. commands \in Seq(Command) /\ Preview(g) \in Command
      BY <1>0 DEF TypeOK, ServiceTypeOK
    <3> QED BY <3>1, <3>2
  <2>3. oneshot' \in [Request -> Reply]
    BY <1>7 DEF PreviewLastPoll, SendOrphan, Closed, TypeOK, ServiceTypeOK, Reply
  <2>4. /\ previewLoop' \in [Generations -> {"off", "sleeping", "awaiting", "reporting"}]
        /\ dying' \in SUBSET ({"preview", "level"} \X Generations)
        /\ UNCHANGED <<actorState, task, levelLoop, helpers, output, callerRest>>
    BY <1>7 DEF PreviewLastPoll, TypeOK
  <2> QED BY <2>1, <2>2, <2>3, <2>4 DEF TypeOK, ServiceTypeOK
<1>8. CASE LevelLastPoll(g)
  <2>1. inbox' \in Seq(Message) /\ Len(inbox') <= InboxCapacity
    BY <1>0, <1>8, Posting DEF LevelLastPoll, TypeOK
  <2>2. /\ levelLoop' \in [Generations -> {"off", "on"}]
        /\ dying' \in SUBSET ({"preview", "level"} \X Generations)
        /\ UNCHANGED <<actorState, task, previewLoop, helpers, output, service>>
    BY <1>8 DEF LevelLastPoll, TypeOK
  <2> QED BY <2>1, <2>2 DEF TypeOK, ServiceTypeOK
<1> QED BY <1>1, <1>2, <1>3, <1>4, <1>5, <1>6, <1>7, <1>8

\* The waiter of a cancellation and the model watcher.
LEMMA TypedHelpers ==
  ASSUME TypeOK,
         \/ \E g \in Generations : RestartSeen(g) \/ RestartReported(g)
         \/ WatcherBorrows \/ WatcherReports
  PROVE  TypeOK'
<1> USE DEF actorState, dictation, shown, sessions, loops, history, service
<1>1. ASSUME NEW g \in Generations, RestartSeen(g)
      PROVE  TypeOK'
  BY <1>1 DEF RestartSeen, TypeOK, ServiceTypeOK
<1>2. ASSUME NEW g \in Generations, RestartReported(g)
      PROVE  TypeOK'
  <2>1. [kind |-> "cancellationFinished", gen |-> g] \in Message
    BY DEF Message
  <2>2. inbox' \in Seq(Message) /\ Len(inbox') <= InboxCapacity
    BY <1>2, <2>1, Posting DEF RestartReported
  <2> QED BY <1>2, <2>2 DEF RestartReported, TypeOK, ServiceTypeOK
<1>3. CASE WatcherBorrows
  <2>1. unseen' \in BOOLEAN
    BY <1>3 DEF WatcherBorrows, WatcherLooks, TypeOK, ServiceTypeOK
  <2>2. /\ watcher' = status
        /\ UNCHANGED <<commands, accepted, canceled, oneshot, cancelReply, status>>
        /\ UNCHANGED <<actorState, inbox, task, loops, restartWait, output>>
    BY <1>3 DEF WatcherBorrows, WatcherLooks
  <2> QED BY <2>1, <2>2 DEF TypeOK, ServiceTypeOK
<1>4. CASE WatcherReports
  <2>1. [kind |-> "modelStatus", status |-> watcher] \in Message
    BY <1>4 DEF WatcherReports, Message
  <2>2. inbox' \in Seq(Message) /\ Len(inbox') <= InboxCapacity
    BY <1>4, <2>1, Posting DEF WatcherReports
  <2> QED BY <1>4, <2>2 DEF WatcherReports, TypeOK, ServiceTypeOK
<1> QED BY <1>1, <1>2, <1>3, <1>4

LEMMA TypedNext ==
  ASSUME TypeOK, [Next]_vars
  PROVE  TypeOK'
<1>1. CASE \/ \E c \in Clients, op \in Commands \cap Operation : IssueCommand(c, op)
           \/ SignalShutdown
  BY <1>1, TypedClients
<1>2. CASE ActorNext
  BY <1>2, TypedActor
<1>3. CASE TaskNext
  BY <1>3, TypedPipeline, TypedLoops, TypedHelpers DEF TaskNext
<1>4. CASE ServiceNext /\ UNCHANGED daemonVars
  <2>1. ServiceTypeOK'
    BY <1>4, TypedService DEF TypeOK
  <2> QED
    BY <1>4, <2>1
    DEF daemonVars, actorState, dictation, shown, sessions, loops, helpers, TypeOK
<1>5. CASE UNCHANGED vars
  BY <1>5
  DEF vars, dictation, shown, loops, helpers, sessions, history, service, TypeOK, ServiceTypeOK
<1> QED BY <1>1, <1>2, <1>3, <1>4, <1>5 DEF Next

\* Whatever the clients, the tasks and the supervisor do, the daemon's state is
\* what daemon.rs means it to be; in particular the inbox keeps to its capacity,
\* a pipeline task belongs to a dictation, and it reports only with a result.
THEOREM TypeCorrect == Spec => []TypeOK
<1>1. Init => TypeOK
  BY TypedInit
<1>2. TypeOK /\ [Next]_vars => TypeOK'
  BY TypedNext
<1> QED BY <1>1, <1>2, PTL DEF Spec
-----------------------------------------------------------------------------
(* The life of a dictation *)

\* The invariant: OneActivity says that the three fields of the daemon name at
\* most one dictation, the newest; NoDictationForgotten, that exactly the
\* dictation they (or the suspended cancel()) name is open.  Neither is
\* inductive without the other two conjuncts.
Lifecycle == TypeOK /\ OneActivity /\ NoDictationForgotten

\* All that the two invariants look at.
cycle == <<actor, cancelJob, recording, pipeline, canceling, generation, outcome>>

LEMMA LifecycleInit == Init => Lifecycle
  BY TypedInit, MaxGenerationAssumption
  DEF Init, Lifecycle, OneActivity, NoDictationForgotten, Suspended, Busy, None,
      Generations, NoJob

LEMMA LifecycleStutter ==
  ASSUME Lifecycle, UNCHANGED cycle, TypeOK'
  PROVE  Lifecycle'
  BY DEF Lifecycle, OneActivity, NoDictationForgotten, Suspended, Busy, cycle

\* start_recording: the new dictation is the only open one.
LEMMA LifecycleStart ==
  ASSUME Lifecycle, NEW c, StartRecording(c), actor = "ready",
         UNCHANGED <<actor, cancelJob>>, TypeOK'
  PROVE  Lifecycle'
<1>1. CASE OpenMicrophone(c) /\ ~Busy
  BY <1>1
  DEF OpenMicrophone, Lifecycle, OneActivity, NoDictationForgotten, Suspended, Busy,
      TypeOK, Generations, None
<1>2. CASE MicrophoneFails(c)
  BY <1>2, LifecycleStutter DEF MicrophoneFails, cycle, dictation
<1>3. CASE \E ev : OnlyReply(c, ev)
  BY <1>3, LifecycleStutter DEF OnlyReply, cycle, dictation
<1> QED BY <1>1, <1>2, <1>3 DEF StartRecording

\* finalize_recording: it goes on in the pipeline or has failed.
LEMMA LifecycleFinalize ==
  ASSUME Lifecycle, NEW c, NEW parks, FinalizeRecording(c, parks), actor = "ready",
         UNCHANGED <<actor, cancelJob>>, TypeOK'
  PROVE  Lifecycle'
  BY SMTT(20)
     DEF FinalizeRecording, Lifecycle, OneActivity, NoDictationForgotten, Suspended, Busy,
         TypeOK, Generations, None

\* cancel(), up to its await: the dictation is in the hands of the suspended call.
LEMMA LifecycleBeginCancel ==
  ASSUME Lifecycle, NEW c, BeginCancel(c), actor = "ready", TypeOK'
  PROVE  Lifecycle'
  BY DEF BeginCancel, AbortRecording, AbortPipeline, Lifecycle, OneActivity,
         NoDictationForgotten, Suspended, Busy, TypeOK, Generations, None

LEMMA LifecycleActor ==
  ASSUME Lifecycle, ActorNext, TypeOK'
  PROVE  Lifecycle'
<1> USE DEF Receive
<1>1. CASE HandleStart
  BY <1>1, LifecycleStart DEF HandleStart
<1>2. CASE HandleStop
  <2>1. CASE FinalizeRecording(Head(inbox).client, TRUE)
    BY <1>2, <2>1, LifecycleFinalize DEF HandleStop
  <2>2. CASE ~FinalizeRecording(Head(inbox).client, TRUE)
    BY <1>2, <2>2, LifecycleStutter DEF HandleStop, OnlyReply, cycle, dictation
  <2> QED BY <2>1, <2>2
<1>3. CASE HandleToggle
  <2>1. CASE FinalizeRecording(Head(inbox).client, FALSE)
    BY <1>3, <2>1, LifecycleFinalize DEF HandleToggle
  <2>2. CASE StartRecording(Head(inbox).client)
    BY <1>3, <2>2, LifecycleStart DEF HandleToggle
  <2>3. CASE OnlyReply(Head(inbox).client, event)
    BY <1>3, <2>3, LifecycleStutter DEF HandleToggle, OnlyReply, cycle, dictation
  <2> QED BY <1>3, <2>1, <2>2, <2>3 DEF HandleToggle
<1>4. CASE HandleCancel
  <2>1. CASE BeginCancel(Head(inbox).client)
    BY <1>4, <2>1, LifecycleBeginCancel DEF HandleCancel
  <2>2. CASE ~BeginCancel(Head(inbox).client)
    BY <1>4, <2>2, LifecycleStutter DEF HandleCancel, OnlyReply, cycle, dictation
  <2> QED BY <2>1, <2>2
<1>5. CASE FinishCancel
  <2>1. /\ actor' \in {"ready", "stopped"} /\ cancelJob'.gen = None
        /\ UNCHANGED <<recording, pipeline, generation>>
        /\ canceling' \in {canceling, cancelJob.gen}
        /\ outcome' = [outcome EXCEPT ![cancelJob.gen] = "canceled"]
        /\ Suspended
    BY <1>5 DEF FinishCancel, NoJob, Suspended
  <2> QED
    BY <2>1 DEF Lifecycle, OneActivity, NoDictationForgotten, Suspended, Busy, TypeOK,
                Generations, None
<1>6. CASE HandleShutdown
  <2>1. CASE BeginCancel(Nobody)
    BY <1>6, <2>1, LifecycleBeginCancel DEF HandleShutdown
  <2>2. CASE ~BeginCancel(Nobody)
    BY <1>6, <2>2
    DEF HandleShutdown, Lifecycle, OneActivity, NoDictationForgotten, Suspended, Busy,
        dictation
  <2> QED BY <2>1, <2>2
<1>7. CASE HandleConfigure
  BY <1>7, LifecycleStutter DEF HandleConfigure, OnlyReply, cycle, dictation
<1>8. CASE HandleProgress
  BY <1>8, LifecycleStutter DEF HandleProgress, cycle, dictation, history
<1>9. CASE HandlePreview
  BY <1>9, LifecycleStutter DEF HandlePreview, cycle, dictation, history
<1>10. CASE HandleLevel
  BY <1>10, LifecycleStutter DEF HandleLevel, cycle, dictation, history
<1>11. CASE HandleCaptureEnded
  <2>1. CASE FinalizeRecording(Nobody, FALSE)
    BY <1>11, <2>1, LifecycleFinalize DEF HandleCaptureEnded
  <2>2. CASE UNCHANGED <<dictation, outcome>>
    BY <1>11, <2>2, LifecycleStutter DEF HandleCaptureEnded, cycle, dictation
  <2> QED BY <1>11, <2>1, <2>2 DEF HandleCaptureEnded
<1>12. CASE HandleCompleted
  <2>1. CASE PipelineIdentityMatches(Head(inbox).gen)
    <3>1. Head(inbox).gen \in Generations
      BY <1>12, Taking, MessageFields DEF HandleCompleted, Lifecycle
    <3>2. Head(inbox).result \in {"delivered", "undelivered", "failed"}
      BY <1>12, Taking, MessageFields DEF HandleCompleted, Lifecycle
    <3>3. /\ pipeline = Head(inbox).gen /\ pipeline' = None /\ actor = "ready"
          /\ outcome' = [outcome EXCEPT ![pipeline] = Head(inbox).result]
          /\ UNCHANGED <<actor, cancelJob, recording, canceling, generation>>
      BY <1>12, <2>1 DEF HandleCompleted, PipelineIdentityMatches
    <3> QED
      BY <3>1, <3>2, <3>3 DEF Lifecycle, OneActivity, NoDictationForgotten, Suspended, Busy,
                              TypeOK, Generations, None
  <2>2. CASE ~PipelineIdentityMatches(Head(inbox).gen)
    BY <1>12, <2>2, LifecycleStutter DEF HandleCompleted, cycle, dictation
  <2> QED BY <2>1, <2>2
<1>13. CASE HandleCancellationFinished
  BY <1>13 DEF HandleCancellationFinished, Lifecycle, OneActivity, NoDictationForgotten,
               Suspended, Busy, history, None
<1>14. CASE HandleModelStatus
  BY <1>14 DEF HandleModelStatus, Lifecycle, OneActivity, NoDictationForgotten, Suspended,
               Busy, history, None
<1> QED
  BY <1>1, <1>2, <1>3, <1>4, <1>5, <1>6, <1>7, <1>8, <1>9, <1>10, <1>11, <1>12, <1>13, <1>14
  DEF ActorNext

\* The clients, the tasks and the supervisor leave the dictation alone.
LEMMA OthersKeepCycle ==
  ASSUME \/ \E c \in Clients, op \in Commands \cap Operation : IssueCommand(c, op)
         \/ SignalShutdown
         \/ TaskNext
         \/ ServiceNext /\ UNCHANGED daemonVars
  PROVE  UNCHANGED cycle
<1> USE DEF cycle, actorState, dictation, history
<1>1. ASSUME NEW c \in Clients, NEW op, IssueCommand(c, op)
      PROVE  UNCHANGED cycle
  BY <1>1 DEF IssueCommand
<1>2. CASE SignalShutdown
  BY <1>2 DEF SignalShutdown
<1>3. CASE \/ PipelineSubmits \/ PipelineHears \/ PipelineAnnouncesRefining
           \/ PipelineDelivers \/ PipelineReports \/ WatcherBorrows \/ WatcherReports
  BY <1>3 DEF PipelineSubmits, PipelineHears, PipelineAnnouncesRefining, PipelineDelivers,
              PipelineReports, WatcherBorrows, WatcherReports
<1>4. ASSUME NEW g \in Generations,
             \/ PreviewAsks(g) \/ PreviewStops(g) \/ PreviewHears(g) \/ PreviewReports(g)
             \/ LevelReports(g) \/ CaptureEnds(g)
             \/ PreviewLastPoll(g) \/ LevelLastPoll(g)
             \/ RestartSeen(g) \/ RestartReported(g)
      PROVE  UNCHANGED cycle
  BY <1>4 DEF PreviewAsks, PreviewStops, PreviewHears, PreviewReports, LevelReports,
              CaptureEnds, PreviewLastPoll, LevelLastPoll, RestartSeen, RestartReported
<1>5. CASE ServiceNext /\ UNCHANGED daemonVars
  BY <1>5 DEF daemonVars
<1> QED BY <1>1, <1>2, <1>3, <1>4, <1>5 DEF TaskNext

LEMMA LifecycleNext ==
  ASSUME Lifecycle, [Next]_vars
  PROVE  Lifecycle'
<1>0. TypeOK'
  BY TypedNext DEF Lifecycle
<1>1. CASE ActorNext
  BY <1>0, <1>1, LifecycleActor
<1>2. CASE Next /\ ~ActorNext
  BY <1>0, <1>2, OthersKeepCycle, LifecycleStutter DEF Next
<1>3. CASE UNCHANGED vars
  BY <1>0, <1>3, LifecycleStutter DEF vars, cycle, dictation, history
<1> QED BY <1>1, <1>2, <1>3

LEMMA LifecycleInvariant == Spec => []Lifecycle
<1>1. Init => Lifecycle
  BY LifecycleInit
<1>2. Lifecycle /\ [Next]_vars => Lifecycle'
  BY LifecycleNext
<1> QED BY <1>1, <1>2, PTL DEF Spec
-------------------------------------------------------------------------------
\* At most one dictation is recorded, processed or waited for, and it is the
\* newest: every handler of daemon.rs that tests one of the fields recording,
\* pipeline and canceling_generation and not the others relies on it.
THEOREM AtMostOneActivity == Spec => []OneActivity
<1>1. Lifecycle => OneActivity
  BY DEF Lifecycle
<1> QED BY <1>1, LifecycleInvariant, PTL

\* No dictation is forgotten: one that was started and has not ended is the one
\* the daemon records, processes or is canceling.
THEOREM EveryDictationAccountedFor == Spec => []NoDictationForgotten
<1>1. Lifecycle => NoDictationForgotten
  BY DEF Lifecycle
<1> QED BY <1>1, LifecycleInvariant, PTL

\* A handler changes only the outcome of the dictation that was open.
LEMMA OutcomeIsFinal ==
  ASSUME Lifecycle, Next, NEW g \in Generations, outcome[g] \notin {"none", "open"}
  PROVE  outcome'[g] = outcome[g]
<1>1. CASE ActorNext
  <2>0. /\ g # generation + 1
        /\ g # recording /\ g # pipeline
        /\ Suspended => g # cancelJob.gen
        /\ outcome \in [Generations -> {"none", "open", "delivered", "undelivered",
                                        "failed", "canceled"}]
    BY DEF Lifecycle, NoDictationForgotten, TypeOK, Generations
  <2>1. ASSUME NEW c, StartRecording(c)
        PROVE  outcome'[g] = outcome[g]
    BY <2>0, <2>1 DEF StartRecording, OpenMicrophone, MicrophoneFails, OnlyReply
  <2>2. ASSUME NEW c, NEW parks, FinalizeRecording(c, parks)
        PROVE  outcome'[g] = outcome[g]
    BY <2>0, <2>2 DEF FinalizeRecording
  <2>3. ASSUME NEW c, BeginCancel(c)
        PROVE  outcome'[g] = outcome[g]
    BY <2>3 DEF BeginCancel
  <2>4. CASE HandleStart \/ HandleStop \/ HandleToggle \/ HandleCaptureEnded
    BY <2>1, <2>2, <2>4 DEF HandleStart, HandleStop, HandleToggle, HandleCaptureEnded, OnlyReply
  <2>5. CASE HandleCancel \/ HandleShutdown
    BY <2>3, <2>5 DEF HandleCancel, HandleShutdown, OnlyReply
  <2>6. CASE FinishCancel
    BY <2>0, <2>6 DEF FinishCancel, Suspended
  <2>7. CASE HandleCompleted
    BY <2>0, <2>7 DEF HandleCompleted, PipelineIdentityMatches
  <2>8. CASE \/ HandleConfigure \/ HandleProgress \/ HandlePreview \/ HandleLevel
             \/ HandleCancellationFinished \/ HandleModelStatus
    BY <2>8 DEF HandleConfigure, HandleProgress, HandlePreview, HandleLevel, OnlyReply,
                HandleCancellationFinished, HandleModelStatus, history
  <2> QED BY <1>1, <2>4, <2>5, <2>6, <2>7, <2>8 DEF ActorNext
<1>2. CASE ~ActorNext
  BY <1>2, OthersKeepCycle DEF Next, cycle
<1> QED BY <1>1, <1>2

\* A dictation ends once: no completion, cancellation or capture end that comes
\* late, of whatever dictation, changes how it ended.
THEOREM DictationsEndOnce == Spec => EndsOnce
<1>1. Lifecycle /\ [Next]_vars =>
        [\A g \in Generations :
           outcome[g] \notin {"none", "open"} => outcome'[g] = outcome[g]]_vars
  BY OutcomeIsFinal
<1> QED BY <1>1, LifecycleInvariant, PTL DEF Spec, EndsOnce
-----------------------------------------------------------------------------
(* What the daemon displays *)

\* All that the invariants of this module look at.
display == <<cycle, lastPreview, level, event, latest, modelStatus>>

\* Only the handlers of the actor change it.
LEMMA OthersKeepDisplay ==
  ASSUME \/ \E c \in Clients, op \in Commands \cap Operation : IssueCommand(c, op)
         \/ SignalShutdown
         \/ TaskNext
         \/ ServiceNext /\ UNCHANGED daemonVars
  PROVE  UNCHANGED display
<1> USE DEF actorState, shown
<1> SUFFICES UNCHANGED <<shown, modelStatus>>
  BY OthersKeepCycle DEF display
<1>1. ASSUME NEW c \in Clients, NEW op, IssueCommand(c, op)
      PROVE  UNCHANGED <<shown, modelStatus>>
  BY <1>1 DEF IssueCommand
<1>2. CASE SignalShutdown
  BY <1>2 DEF SignalShutdown
<1>3. CASE \/ PipelineSubmits \/ PipelineHears \/ PipelineAnnouncesRefining
           \/ PipelineDelivers \/ PipelineReports \/ WatcherBorrows \/ WatcherReports
  BY <1>3 DEF PipelineSubmits, PipelineHears, PipelineAnnouncesRefining, PipelineDelivers,
              PipelineReports, WatcherBorrows, WatcherReports
<1>4. ASSUME NEW g \in Generations,
             \/ PreviewAsks(g) \/ PreviewStops(g) \/ PreviewHears(g) \/ PreviewReports(g)
             \/ LevelReports(g) \/ CaptureEnds(g)
             \/ PreviewLastPoll(g) \/ LevelLastPoll(g)
             \/ RestartSeen(g) \/ RestartReported(g)
      PROVE  UNCHANGED <<shown, modelStatus>>
  BY <1>4 DEF PreviewAsks, PreviewStops, PreviewHears, PreviewReports, LevelReports,
              CaptureEnds, PreviewLastPoll, LevelLastPoll, RestartSeen, RestartReported
<1>5. CASE ServiceNext /\ UNCHANGED daemonVars
  BY <1>5 DEF daemonVars
<1> QED BY <1>1, <1>2, <1>3, <1>4, <1>5 DEF TaskNext

\* What the event constructors of ipc.rs leave in their fields.
LEMMA EventFields ==
  /\ \A s : Ev(s).state = s /\ Ev(s).partial = None /\ Ev(s).transcript = None
  /\ \A s, c : /\ ErrorEv(s, c).state = s /\ ErrorEv(s, c).partial = None
               /\ ErrorEv(s, c).transcript = None
  /\ \A s, p : /\ Active(s, p).state = s /\ Active(s, p).partial = p
               /\ Active(s, p).transcript = None
  /\ \A s, c : LET ev == Notify(Ev(s), c)
               IN ev.state = s /\ ev.partial = None /\ ev.transcript = None
  BY DEF Ev, ErrorEv, Notify, Active

\* model_unavailable_event and its siblings name the model's status, nothing else.
LEMMA ModelEventFields ==
  ASSUME NEW s \in {"Loading", "Ready", "Unavailable"}
  PROVE  /\ ModelEvent(s).partial = None /\ ModelEvent(s).transcript = None
         /\ ModelEvent(s).state \in {"Loading", "Idle", "Error"}
         /\ ModelEvent(s).state = "Loading" => s = "Loading"
         /\ ModelEvent(s).state = "Idle" => s = "Ready"
  BY EventFields DEF ModelEvent

\* quiescent_event, alone and with a notice or a transcript added.
LEMMA QuiescentFields ==
  ASSUME TypeOK
  PROVE  /\ QuiescentEvent.partial = None /\ QuiescentEvent.transcript = None
         /\ canceling # None => QuiescentEvent.state = "Canceling"
         /\ canceling = None => QuiescentEvent = ModelEvent(modelStatus)
         /\ DOMAIN QuiescentEvent = {"state", "partial", "transcript", "notices"}
  BY EventFields, ModelEventFields
  DEF QuiescentEvent, TypeOK, Ev, ModelEvent, ErrorEv, Notify

\* preserve_terminal_payload changes neither the state nor the partial transcript.
LEMMA PreservedFields ==
  ASSUME NEW s
  PROVE  LET ev == PreserveTerminalPayload(s)
         IN s \in Event => /\ ev.state = s.state /\ ev.partial = s.partial
                           /\ ev.transcript \in {s.transcript, event.transcript}
  BY DEF PreserveTerminalPayload, Event
-------------------------------------------------------------------------------
(* The state on display is that of the actor *)

LEMMA StateMatchesStart ==
  ASSUME Lifecycle, StateMatchesActivity, actor = "ready",
         NEW c, StartRecording(c), UNCHANGED <<actor, modelStatus>>
  PROVE  StateMatchesActivity'
<1> USE DEF StateMatchesActivity
<1>1. CASE ~Busy /\ OpenMicrophone(c)
  <2>1. recording' # None /\ event'.state = "Recording"
    BY <1>1, EventFields DEF OpenMicrophone, Lifecycle, TypeOK, Generations, None
  <2> QED BY <1>1, <2>1 DEF OpenMicrophone, Busy
<1>2. CASE ~Busy /\ MicrophoneFails(c)
  BY <1>2, EventFields DEF MicrophoneFails, Busy, dictation
<1>3. CASE \E ev : OnlyReply(c, ev)
  BY <1>3 DEF OnlyReply, dictation, shown
<1> QED BY <1>1, <1>2, <1>3 DEF StartRecording

LEMMA StateMatchesFinalize ==
  ASSUME Lifecycle, NEW c, NEW parks, FinalizeRecording(c, parks)
  PROVE  StateMatchesActivity'
  BY EventFields
  DEF FinalizeRecording, StateMatchesActivity, Lifecycle, OneActivity, None

LEMMA StateMatchesActor ==
  ASSUME Lifecycle, StateMatchesActivity, ActorNext
  PROVE  StateMatchesActivity'
<1> USE DEF Receive
<1>0. TypeOK
  BY DEF Lifecycle
<1>1. CASE HandleStart
  BY <1>1, StateMatchesStart DEF HandleStart
<1>2. CASE HandleStop
  BY <1>2, StateMatchesFinalize
  DEF HandleStop, OnlyReply, StateMatchesActivity, dictation, shown
<1>3. CASE HandleToggle
  <2>1. CASE StartRecording(Head(inbox).client)
    BY <1>3, <2>1, StateMatchesStart DEF HandleToggle
  <2>2. CASE ~StartRecording(Head(inbox).client)
    BY <1>3, <2>2, StateMatchesFinalize
    DEF HandleToggle, OnlyReply, StateMatchesActivity, dictation, shown
  <2> QED BY <2>1, <2>2
<1>4. CASE HandleCancel \/ HandleShutdown
  <2>1. ASSUME NEW c, BeginCancel(c)
        PROVE  actor' # "ready"
    BY <2>1 DEF BeginCancel, AbortRecording, AbortPipeline
  <2> QED
    BY <1>4, <2>1
    DEF HandleCancel, HandleShutdown, OnlyReply, StateMatchesActivity, dictation, shown
<1>5. CASE FinishCancel
  <2>1. /\ canceling = None /\ recording = None /\ pipeline = None /\ cancelJob.gen # None
        /\ UNCHANGED <<recording, pipeline, modelStatus>>
    BY <1>5 DEF FinishCancel, Lifecycle, OneActivity, Suspended, Busy
  <2>2. CASE cancelReply = "active"
    <3>1. canceling' # None /\ event'.state = "Canceling"
      BY <1>5, <2>1, <2>2, EventFields DEF FinishCancel
    <3> QED BY <2>1, <3>1 DEF StateMatchesActivity
  <2>3. CASE cancelReply # "active"
    <3>1. canceling' = None /\ event'.state = ModelEvent(modelStatus).state
      BY <1>0, <1>5, <2>1, <2>3, QuiescentFields DEF FinishCancel, Notify
    <3> QED BY <1>0, <2>1, <3>1, ModelEventFields DEF StateMatchesActivity, TypeOK
  <2> QED BY <2>2, <2>3
<1>6. CASE HandleConfigure
  <2>1. CASE ~Busy /\ event' = QuiescentEvent /\ UNCHANGED dictation
    BY <1>0, <1>6, <2>1, QuiescentFields, ModelEventFields
    DEF HandleConfigure, StateMatchesActivity, Busy, dictation, TypeOK
  <2>2. CASE UNCHANGED <<dictation, event>>
    BY <1>6, <2>2 DEF HandleConfigure, StateMatchesActivity, dictation
  <2> QED BY <1>6, <2>1, <2>2 DEF HandleConfigure, OnlyReply, shown
<1>7. CASE HandleProgress
  <2>1. Head(inbox).gen # None
    BY <1>0, <1>7, Taking, MessageFields DEF HandleProgress, Generations, None
  <2> QED
    BY <1>7, <2>1, EventFields
    DEF HandleProgress, StateMatchesActivity, Lifecycle, OneActivity, dictation
<1>8. CASE HandlePreview
  <2>1. Head(inbox).gen # None
    BY <1>0, <1>8, Taking, MessageFields DEF HandlePreview, Generations, None
  <2> QED
    BY <1>8, <2>1, EventFields
    DEF HandlePreview, StateMatchesActivity, Lifecycle, OneActivity, dictation
<1>9. CASE HandleLevel
  BY <1>9 DEF HandleLevel, StateMatchesActivity, dictation
<1>10. CASE HandleCaptureEnded
  BY <1>10, StateMatchesFinalize
  DEF HandleCaptureEnded, StateMatchesActivity, dictation, shown
<1>11. CASE HandleCompleted
  <2>1. CASE PipelineIdentityMatches(Head(inbox).gen)
    <3>1. /\ recording' = None /\ pipeline' = None /\ canceling' = None
          /\ UNCHANGED modelStatus
          /\ canceling = None
          /\ event' = CompletionEvent(Head(inbox).gen, Head(inbox).result)
      <4>1. Head(inbox).gen # None
        BY <1>0, <1>11, Taking, MessageFields DEF HandleCompleted, Generations, None
      <4> QED
        BY <1>11, <2>1, <4>1
        DEF HandleCompleted, PipelineIdentityMatches, Lifecycle, OneActivity
    <3>2. event'.state \in {"Error", ModelEvent(modelStatus).state}
      <4>1. Head(inbox).result \in {"delivered", "undelivered", "failed"}
        BY <1>0, <1>11, Taking, MessageFields DEF HandleCompleted
      <4> QED BY <1>0, <3>1, <4>1, QuiescentFields, EventFields DEF CompletionEvent
    <3> QED BY <1>0, <3>1, <3>2, ModelEventFields DEF StateMatchesActivity, TypeOK
  <2>2. CASE ~PipelineIdentityMatches(Head(inbox).gen)
    BY <1>11, <2>2 DEF HandleCompleted, StateMatchesActivity, dictation, shown
  <2> QED BY <2>1, <2>2
<1>12. CASE HandleCancellationFinished
  <2>1. Head(inbox).gen # None
    BY <1>0, <1>12, Taking, MessageFields DEF HandleCancellationFinished, Generations, None
  <2>2. CASE canceling = Head(inbox).gen
    <3>1. /\ recording' = None /\ pipeline' = None /\ canceling' = None
          /\ event' = ModelEvent(modelStatus)
          /\ UNCHANGED modelStatus
      BY <1>12, <2>1, <2>2 DEF HandleCancellationFinished, Lifecycle, OneActivity
    <3> QED BY <1>0, <3>1, ModelEventFields DEF StateMatchesActivity, TypeOK
  <2>3. CASE canceling # Head(inbox).gen
    BY <1>12, <2>3 DEF HandleCancellationFinished, StateMatchesActivity
  <2> QED BY <2>2, <2>3
<1>13. CASE HandleModelStatus
  <2>1. /\ actor = "ready" /\ UNCHANGED <<recording, pipeline>>
        /\ Head(inbox).status = modelStatus'
    BY <1>13 DEF HandleModelStatus
  <2>2. /\ Ev("Idle") \in Event /\ ModelEvent("Unavailable") \in Event
    BY EventTypes, QuiescentEventType DEF State
  <2>3. CASE modelStatus' = "Loading" /\ canceling' = canceling
    BY <1>13, <2>1, <2>3, EventFields DEF HandleModelStatus, StateMatchesActivity, Busy
  <2>4. CASE modelStatus' = "Ready" /\ canceling' = None
    <3>1. CASE canceling # None \/ (~Busy /\ event.state = "Loading")
      <4>1. event'.state = "Idle"
        BY <1>13, <2>2, <2>4, <3>1, PreservedFields, EventFields DEF HandleModelStatus
      <4>2. recording = None /\ pipeline = None
        BY <3>1 DEF Lifecycle, OneActivity, Busy
      <4> QED BY <2>1, <2>4, <4>1, <4>2 DEF StateMatchesActivity
    <3>2. CASE ~(canceling # None \/ (~Busy /\ event.state = "Loading"))
      BY <1>13, <2>1, <2>4, <3>2 DEF HandleModelStatus, StateMatchesActivity, Busy
    <3> QED BY <3>1, <3>2
  <2>5. CASE modelStatus' = "Unavailable" /\ recording = None /\ pipeline = None
    <3>1. event'.state \in {"Loading", "Idle", "Error"} /\ canceling' = None
          /\ event'.state = ModelEvent("Unavailable").state
      BY <1>13, <2>2, <2>5, PreservedFields, ModelEventFields DEF HandleModelStatus
    <3> QED BY <2>1, <2>5, <3>1, ModelEventFields DEF StateMatchesActivity
  <2>6. CASE modelStatus' = "Unavailable" /\ ~(recording = None /\ pipeline = None)
    BY <1>13, <2>1, <2>6 DEF HandleModelStatus, StateMatchesActivity
  <2> QED BY <1>13, <2>3, <2>4, <2>5, <2>6 DEF HandleModelStatus
<1> QED
  BY <1>1, <1>2, <1>3, <1>4, <1>5, <1>6, <1>7, <1>8, <1>9, <1>10, <1>11, <1>12, <1>13
  DEF ActorNext

\* Between two messages the state on display says what the actor is doing, and it
\* calls the daemon idle or loading only when the actor's copy of the model's
\* status does: toggle() and the clients decide by what is displayed.
THEOREM DisplayMatchesActivity == Spec => []StateMatchesActivity
<1>1. Init => StateMatchesActivity
  BY EventFields DEF Init, StateMatchesActivity
<1>2. Lifecycle /\ StateMatchesActivity /\ [Next]_vars => StateMatchesActivity'
  <2> SUFFICES ASSUME Lifecycle, StateMatchesActivity, [Next]_vars
               PROVE  StateMatchesActivity'
    OBVIOUS
  <2>1. CASE ActorNext
    BY <2>1, StateMatchesActor
  <2>2. CASE UNCHANGED display
    BY <2>2 DEF StateMatchesActivity, display, cycle
  <2>3. CASE Next /\ ~ActorNext
    BY <2>2, <2>3, OthersKeepDisplay DEF Next
  <2>4. CASE UNCHANGED vars
    BY <2>2, <2>4 DEF vars, display, cycle, dictation, shown, history
  <2> QED BY <2>1, <2>3, <2>4
<1> QED BY <1>1, <1>2, LifecycleInvariant, PTL DEF Spec
-------------------------------------------------------------------------------
(* Previews and levels are those of the dictation under way *)

\* NothingStaleOnDisplay without its sets, as the proofs use it.
UnderWay == {recording, pipeline} \cup (IF Suspended THEN {cancelJob.gen} ELSE {})
NothingStale ==
  /\ level # None => level = recording \/ (Suspended /\ level = cancelJob.gen)
  /\ lastPreview # None => lastPreview \in UnderWay
  /\ event.partial # None => event.partial \in UnderWay

\* A handler that clears the three, or leaves them and the dictation alone.
LEMMA ClearedIsNotStale ==
  ASSUME level' = None, lastPreview' = None, event'.partial = None
  PROVE  NothingStale'
  BY DEF NothingStale

LEMMA StaleStutter ==
  ASSUME NothingStale,
         UNCHANGED <<actor, cancelJob, recording, pipeline, lastPreview, level>>,
         event'.partial \in {event.partial, None}
  PROVE  NothingStale'
  BY DEF NothingStale, UnderWay, Suspended

LEMMA NothingStaleStart ==
  ASSUME Lifecycle, NothingStale, actor = "ready",
         NEW c, StartRecording(c), UNCHANGED <<actor, cancelJob>>
  PROVE  NothingStale'
<1>1. CASE OpenMicrophone(c)
  BY <1>1, EventFields, ClearedIsNotStale DEF OpenMicrophone
<1>2. CASE MicrophoneFails(c)
  BY <1>2, EventFields, StaleStutter DEF MicrophoneFails, dictation
<1>3. CASE \E ev : OnlyReply(c, ev)
  BY <1>3, StaleStutter DEF OnlyReply, dictation, shown
<1> QED BY <1>1, <1>2, <1>3 DEF StartRecording

\* The preview of a recording stays on display while its pipeline works.
LEMMA NothingStaleFinalize ==
  ASSUME Lifecycle, NothingStale, actor = "ready",
         NEW c, NEW parks, FinalizeRecording(c, parks), UNCHANGED <<actor, cancelJob>>
  PROVE  NothingStale'
<1>1. CASE lastPreview' = None
  BY <1>1, EventFields, ClearedIsNotStale DEF FinalizeRecording
<1>2. CASE lastPreview' # None
  <2>1. /\ pipeline' = recording /\ lastPreview' = lastPreview /\ level' = None
        /\ event'.partial = lastPreview /\ pipeline = None
    BY <1>2, EventFields DEF FinalizeRecording, Lifecycle, OneActivity
  <2> QED BY <2>1 DEF NothingStale, UnderWay, Suspended
<1> QED BY <1>1, <1>2

\* cancel() keeps them on display until the supervisor has replied.
LEMMA NothingStaleBeginCancel ==
  ASSUME Lifecycle, NothingStale, actor = "ready", NEW c, BeginCancel(c)
  PROVE  NothingStale'
<1>1. /\ UNCHANGED <<level, lastPreview, event>>
      /\ Suspended' /\ ~Suspended
  BY DEF BeginCancel, AbortRecording, AbortPipeline, shown, Suspended
<1>2. CASE recording # None
  <2>1. cancelJob'.gen = recording /\ pipeline = None
    BY <1>2 DEF BeginCancel, AbortRecording, Lifecycle, OneActivity
  <2> QED BY <1>1, <2>1 DEF NothingStale, UnderWay
<1>3. CASE recording = None
  <2>1. cancelJob'.gen = pipeline
    BY <1>3 DEF BeginCancel, AbortPipeline
  <2> QED BY <1>1, <1>3, <2>1 DEF NothingStale, UnderWay
<1> QED BY <1>2, <1>3

LEMMA NothingStaleActor ==
  ASSUME Lifecycle, NothingStale, ActorNext
  PROVE  NothingStale'
<1> USE DEF Receive
<1>0. TypeOK
  BY DEF Lifecycle
<1>1. CASE HandleStart
  BY <1>1, NothingStaleStart DEF HandleStart
<1>2. CASE HandleStop
  <2>1. CASE FinalizeRecording(Head(inbox).client, TRUE)
    BY <1>2, <2>1, NothingStaleFinalize DEF HandleStop
  <2>2. CASE ~FinalizeRecording(Head(inbox).client, TRUE)
    BY <1>2, <2>2, StaleStutter DEF HandleStop, OnlyReply, dictation, shown
  <2> QED BY <2>1, <2>2
<1>3. CASE HandleToggle
  <2>1. CASE FinalizeRecording(Head(inbox).client, FALSE)
    BY <1>3, <2>1, NothingStaleFinalize DEF HandleToggle
  <2>2. CASE StartRecording(Head(inbox).client)
    BY <1>3, <2>2, NothingStaleStart DEF HandleToggle
  <2>3. CASE OnlyReply(Head(inbox).client, event)
    BY <1>3, <2>3, StaleStutter DEF HandleToggle, OnlyReply, dictation, shown
  <2> QED BY <1>3, <2>1, <2>2, <2>3 DEF HandleToggle
<1>4. CASE HandleCancel
  <2>1. CASE BeginCancel(Head(inbox).client)
    BY <1>4, <2>1, NothingStaleBeginCancel DEF HandleCancel
  <2>2. CASE ~BeginCancel(Head(inbox).client)
    BY <1>4, <2>2, StaleStutter DEF HandleCancel, OnlyReply, dictation, shown
  <2> QED BY <2>1, <2>2
<1>5. CASE FinishCancel
  <2>1. event'.partial = None
    <3>1. \A ev : ev \in Event => Notify(ev, "canceled").partial = ev.partial
      BY DEF Notify, Event
    <3>2. Ev("Canceling") \in Event /\ QuiescentEvent \in Event
      BY <1>0, EventTypes, QuiescentEventType DEF State
    <3> QED BY <1>0, <1>5, <3>1, <3>2, EventFields, QuiescentFields DEF FinishCancel
  <2> QED BY <1>5, <2>1, ClearedIsNotStale DEF FinishCancel
<1>6. CASE HandleShutdown
  <2>1. CASE BeginCancel(Nobody)
    BY <1>6, <2>1, NothingStaleBeginCancel DEF HandleShutdown
  <2>2. CASE ~BeginCancel(Nobody)
    BY <1>6, <2>2
    DEF HandleShutdown, NothingStale, UnderWay, Suspended, dictation, shown
  <2> QED BY <2>1, <2>2
<1>7. CASE HandleConfigure
  <2>1. /\ event' = event \/ event' = QuiescentEvent
        /\ UNCHANGED <<actor, cancelJob, recording, pipeline, lastPreview, level>>
    BY <1>7 DEF HandleConfigure, OnlyReply, dictation, shown
  <2> QED BY <1>0, <2>1, QuiescentFields, StaleStutter
<1>8. CASE HandleProgress
  <2>1. CASE pipeline = Head(inbox).gen
    BY <1>8, <2>1, EventFields
    DEF HandleProgress, NothingStale, UnderWay, Suspended, dictation
  <2>2. CASE pipeline # Head(inbox).gen
    BY <1>8, <2>2, StaleStutter DEF HandleProgress, dictation
  <2> QED BY <2>1, <2>2
<1>9. CASE HandlePreview
  <2>1. CASE recording = Head(inbox).gen
    BY <1>9, <2>1, EventFields
    DEF HandlePreview, NothingStale, UnderWay, Suspended, dictation
  <2>2. CASE recording # Head(inbox).gen
    BY <1>9, <2>2, StaleStutter DEF HandlePreview, dictation
  <2> QED BY <2>1, <2>2
<1>10. CASE HandleLevel
  BY <1>10 DEF HandleLevel, NothingStale, UnderWay, Suspended, dictation
<1>11. CASE HandleCaptureEnded
  <2>1. CASE FinalizeRecording(Nobody, FALSE)
    BY <1>11, <2>1, NothingStaleFinalize DEF HandleCaptureEnded
  <2>2. CASE UNCHANGED <<dictation, shown>>
    BY <1>11, <2>2, StaleStutter DEF HandleCaptureEnded, dictation, shown
  <2> QED BY <1>11, <2>1, <2>2 DEF HandleCaptureEnded
<1>12. CASE HandleCompleted
  <2>1. CASE PipelineIdentityMatches(Head(inbox).gen)
    <3>1. /\ event' = CompletionEvent(Head(inbox).gen, Head(inbox).result)
          /\ level' = None /\ lastPreview' = None
      BY <1>12, <2>1 DEF HandleCompleted
    <3>2. Head(inbox).result \in {"delivered", "undelivered", "failed"}
      BY <1>0, <1>12, Taking, MessageFields DEF HandleCompleted
    <3>3. event'.partial = None
      BY <1>0, <3>1, <3>2, QuiescentFields, EventFields DEF CompletionEvent
    <3> QED BY <3>1, <3>3, ClearedIsNotStale
  <2>2. CASE ~PipelineIdentityMatches(Head(inbox).gen)
    BY <1>12, <2>2, StaleStutter DEF HandleCompleted, dictation, shown
  <2> QED BY <2>1, <2>2
<1>13. CASE HandleCancellationFinished
  <2>1. event'.partial \in {event.partial, None}
    BY <1>0, <1>13, ModelEventFields DEF HandleCancellationFinished, TypeOK
  <2> QED BY <1>13, <2>1, StaleStutter DEF HandleCancellationFinished
<1>14. CASE HandleModelStatus
  <2>1. /\ Ev("Idle") \in Event /\ ModelEvent("Unavailable") \in Event
    BY EventTypes, QuiescentEventType DEF State
  <2>2. event'.partial \in {event.partial, None}
    BY <1>14, <2>1, PreservedFields, EventFields, ModelEventFields DEF HandleModelStatus
  <2> QED BY <1>14, <2>2, StaleStutter DEF HandleModelStatus
<1> QED
  BY <1>1, <1>2, <1>3, <1>4, <1>5, <1>6, <1>7, <1>8, <1>9, <1>10, <1>11, <1>12, <1>13, <1>14
  DEF ActorNext

\* A preview or a level on display comes from the dictation under way: those that
\* the aborted loops of earlier recordings send late are dropped by handle_preview
\* and handle_level, and every handler that ends a dictation clears what it showed.
THEOREM DisplayIsNeverStale == Spec => []NothingStaleOnDisplay
<1>1. Init => NothingStale
  BY EventFields DEF Init, NothingStale
<1>2. Lifecycle /\ NothingStale /\ [Next]_vars => NothingStale'
  <2> SUFFICES ASSUME Lifecycle, NothingStale, [Next]_vars
               PROVE  NothingStale'
    OBVIOUS
  <2>1. CASE ActorNext
    BY <2>1, NothingStaleActor
  <2>2. CASE UNCHANGED display
    BY <2>2, StaleStutter DEF display, cycle
  <2>3. CASE Next /\ ~ActorNext
    BY <2>2, <2>3, OthersKeepDisplay DEF Next
  <2>4. CASE UNCHANGED vars
    BY <2>2, <2>4 DEF vars, display, cycle, dictation, shown, history
  <2> QED BY <2>1, <2>3, <2>4
<1>3. NothingStale => NothingStaleOnDisplay
  BY DEF NothingStale, UnderWay, NothingStaleOnDisplay
<1> QED BY <1>1, <1>2, <1>3, LifecycleInvariant, PTL DEF Spec
-------------------------------------------------------------------------------
(* The result on display is the newest there is *)

Yielded == {g \in Generations : outcome[g] \in {"delivered", "undelivered"}}

\* ResultsAreCurrent with its set named.
Current ==
  /\ \A g \in Yielded : g <= latest
  /\ latest # None => latest \in Yielded
  /\ event.transcript # None => event.transcript = latest

\* A handler that ends no dictation with a result and shows no new one.
LEMMA CurrentStutter ==
  ASSUME Current, Yielded' = Yielded, latest' = latest,
         event'.transcript \in {event.transcript, None}
  PROVE  Current'
  BY DEF Current

LEMMA CurrentStart ==
  ASSUME Lifecycle, Current, NEW c, StartRecording(c)
  PROVE  Current'
<1>1. CASE OpenMicrophone(c)
  <2>1. outcome[generation + 1] = "none"
    <3>1. generation + 1 \in Generations /\ generation + 1 > generation
      BY <1>1, MaxGenerationAssumption DEF OpenMicrophone, Lifecycle, TypeOK, Generations
    <3> QED BY <3>1 DEF Lifecycle, NoDictationForgotten
  <2>2. Yielded' = Yielded
    BY <1>1, <2>1 DEF OpenMicrophone, Yielded, Lifecycle, TypeOK
  <2> QED BY <1>1, <2>2, EventFields, CurrentStutter DEF OpenMicrophone
<1>2. CASE MicrophoneFails(c)
  BY <1>2, EventFields, CurrentStutter DEF MicrophoneFails, Yielded
<1>3. CASE \E ev : OnlyReply(c, ev)
  BY <1>3, CurrentStutter DEF OnlyReply, shown, Yielded
<1> QED BY <1>1, <1>2, <1>3 DEF StartRecording

LEMMA CurrentFinalize ==
  ASSUME Lifecycle, Current, NEW c, NEW parks, FinalizeRecording(c, parks)
  PROVE  Current'
<1>1. outcome[recording] = "open"
  BY DEF FinalizeRecording, Lifecycle, NoDictationForgotten, TypeOK
<1>2. Yielded' = Yielded
  BY <1>1 DEF FinalizeRecording, Yielded, Lifecycle, TypeOK
<1> QED BY <1>2, EventFields, CurrentStutter DEF FinalizeRecording

LEMMA CurrentCompleted ==
  ASSUME Lifecycle, Current, HandleCompleted
  PROVE  Current'
<1> DEFINE g == Head(inbox).gen
           result == Head(inbox).result
<1>0. TypeOK /\ g \in Generations /\ result \in {"delivered", "undelivered", "failed"}
  BY Taking, MessageFields DEF Lifecycle, HandleCompleted
<1>1. CASE ~PipelineIdentityMatches(g)
  BY <1>1, CurrentStutter DEF HandleCompleted, shown, Yielded
<1>2. CASE PipelineIdentityMatches(g)
  <2>1. /\ g = pipeline /\ outcome[g] = "open"
        /\ outcome' = [outcome EXCEPT ![g] = result]
        /\ event' = CompletionEvent(g, result)
        /\ latest' = IF result = "failed" THEN latest ELSE g
    BY <1>0, <1>2
    DEF HandleCompleted, PipelineIdentityMatches, Lifecycle, NoDictationForgotten
  <2>2. CASE result = "failed"
    <3>1. Yielded' = Yielded
      <4>1. outcome' = [outcome EXCEPT ![g] = "failed"]
        BY <2>1, <2>2
      <4> HIDE DEF g, result
      <4> QED BY <1>0, <2>1, <4>1 DEF Yielded, TypeOK
    <3> QED BY <2>1, <2>2, <3>1, EventFields, CurrentStutter DEF CompletionEvent
  <2>3. CASE result \in {"delivered", "undelivered"}
    <3>1. Yielded' = Yielded \cup {g}
      BY <1>0, <2>1, <2>3 DEF Yielded, TypeOK
    <3>2. \A h \in Yielded : h <= g
      <4>1. g = generation
        BY <1>0, <2>1 DEF Lifecycle, OneActivity, None, Generations
      <4> QED
        BY <4>1 DEF Yielded, Lifecycle, NoDictationForgotten, TypeOK, Generations
    <3>3. event'.transcript = g
      <4>1. ErrorEv("Error", "delivery_failed") \in Event /\ QuiescentEvent \in Event
        BY <1>0, EventTypes, QuiescentEventType DEF State, Code
      <4> QED BY <2>1, <2>3, <4>1 DEF CompletionEvent, Event
    <3>4. latest' = g
      BY <2>1, <2>3
    <3> HIDE DEF g
    <3> QED BY <1>0, <3>1, <3>2, <3>3, <3>4 DEF Current, Generations
  <2> QED BY <1>0, <2>2, <2>3
<1> QED BY <1>1, <1>2

LEMMA CurrentActor ==
  ASSUME Lifecycle, Current, ActorNext
  PROVE  Current'
<1>0. TypeOK
  BY DEF Lifecycle
<1>1. CASE HandleStart
  BY <1>1, CurrentStart DEF HandleStart
<1>2. CASE HandleStop
  BY <1>2, CurrentFinalize, CurrentStutter DEF HandleStop, OnlyReply, shown, Yielded
<1>3. CASE HandleToggle
  BY <1>3, CurrentStart, CurrentFinalize, CurrentStutter
  DEF HandleToggle, OnlyReply, shown, Yielded
<1>4. CASE HandleCancel \/ HandleShutdown
  BY <1>4, CurrentStutter
  DEF HandleCancel, HandleShutdown, BeginCancel, OnlyReply, shown, Yielded
<1>5. CASE FinishCancel
  <2>1. cancelJob.gen \in Generations /\ outcome[cancelJob.gen] = "open"
    BY <1>0, <1>5
    DEF FinishCancel, Suspended, Lifecycle, OneActivity, NoDictationForgotten, TypeOK
  <2>2. Yielded' = Yielded
    <3>1. outcome' = [outcome EXCEPT ![cancelJob.gen] = "canceled"]
      BY <1>5 DEF FinishCancel
    <3> QED BY <1>0, <2>1, <3>1 DEF Yielded, TypeOK
  <2>3. event'.transcript = None
    <3>1. \A ev : ev \in Event => Notify(ev, "canceled").transcript = ev.transcript
      BY DEF Notify, Event
    <3>2. Ev("Canceling") \in Event /\ QuiescentEvent \in Event
      BY <1>0, EventTypes, QuiescentEventType DEF State
    <3> QED BY <1>0, <1>5, <3>1, <3>2, EventFields, QuiescentFields DEF FinishCancel
  <2> QED BY <1>5, <2>2, <2>3, CurrentStutter DEF FinishCancel
<1>6. CASE HandleConfigure
  <2>1. /\ event' = event \/ event' = QuiescentEvent
        /\ UNCHANGED <<latest, outcome>>
    BY <1>6 DEF HandleConfigure, OnlyReply, shown
  <2> QED BY <1>0, <2>1, QuiescentFields, CurrentStutter DEF Yielded
<1>7. CASE HandleProgress
  BY <1>7, EventFields, CurrentStutter DEF HandleProgress, history, Yielded
<1>8. CASE HandlePreview
  BY <1>8, EventFields, CurrentStutter DEF HandlePreview, history, Yielded
<1>9. CASE HandleLevel
  BY <1>9, CurrentStutter DEF HandleLevel, history, Yielded
<1>10. CASE HandleCaptureEnded
  BY <1>10, CurrentFinalize, CurrentStutter DEF HandleCaptureEnded, shown, Yielded
<1>11. CASE HandleCompleted
  BY <1>11, CurrentCompleted
<1>12. CASE HandleCancellationFinished
  <2>1. event'.transcript \in {event.transcript, None}
    BY <1>0, <1>12, ModelEventFields DEF HandleCancellationFinished, TypeOK
  <2> QED BY <1>12, <2>1, CurrentStutter DEF HandleCancellationFinished, history, Yielded
<1>13. CASE HandleModelStatus
  <2>1. /\ Ev("Idle") \in Event /\ ModelEvent("Unavailable") \in Event
    BY EventTypes, QuiescentEventType DEF State
  <2>2. event'.transcript \in {event.transcript, None}
    BY <1>13, <2>1, PreservedFields, EventFields, ModelEventFields DEF HandleModelStatus
  <2> QED BY <1>13, <2>2, CurrentStutter DEF HandleModelStatus, history, Yielded
<1> QED
  BY <1>1, <1>2, <1>3, <1>4, <1>5, <1>6, <1>7, <1>8, <1>9, <1>10, <1>11, <1>12, <1>13
  DEF ActorNext

\* A result on display, or kept for "copy last", is that of the newest dictation
\* that yielded one, and never of a canceled or a failed one.
THEOREM ResultsStayCurrent == Spec => []ResultsAreCurrent
<1>1. Init => Current
  BY EventFields DEF Init, Current, Yielded
<1>2. Lifecycle /\ Current /\ [Next]_vars => Current'
  <2> SUFFICES ASSUME Lifecycle, Current, [Next]_vars
               PROVE  Current'
    OBVIOUS
  <2>1. CASE ActorNext
    BY <2>1, CurrentActor
  <2>2. CASE UNCHANGED display
    BY <2>2, CurrentStutter DEF display, cycle, Yielded
  <2>3. CASE Next /\ ~ActorNext
    BY <2>2, <2>3, OthersKeepDisplay DEF Next
  <2>4. CASE UNCHANGED vars
    BY <2>2, <2>4 DEF vars, display, cycle, dictation, shown, history
  <2> QED BY <2>1, <2>3, <2>4
<1>3. Current => ResultsAreCurrent
  BY DEF Current, Yielded, ResultsAreCurrent
<1> QED BY <1>1, <1>2, <1>3, LifecycleInvariant, PTL DEF Spec
===============================================================================
