------------------------------ MODULE SystemProofs ------------------------------
(***************************************************************************)
(* Theorems about System, for any number of clients, commands and          *)
(* dictations and whatever goes wrong with the workers: the daemon with    *)
(* the supervisor behind it is the daemon of module Daemon, so that each   *)
(* of its theorems holds of the two together, and the supervisor's hold    *)
(* with this daemon as its caller.                                         *)
(***************************************************************************)
EXTENDS System, MailboxProofs

Proved == INSTANCE SupervisorProofs

\* What the daemon's contract says of the supervisor is what the supervisor holds.
Linked == accepted = Sup!Accepted /\ canceled = canceledGen

Together == Lifecycle /\ Late /\ Contracted /\ Proved!Supervising /\ Linked
-------------------------------------------------------------------------------
(* The supervisor is the same one in System and in SupervisorProofs *)
LEMMA SameHeld == Sup!Accepted = Proved!Accepted
BY DEF Sup!Accepted, Proved!Accepted, Sup!Final, Proved!Final, Sup!Preview, Proved!Preview,
       Sup!NoRequest, Proved!NoRequest, Sup!None, Proved!None

LEMMA SameRetained ==
  ASSUME NEW rest, NEW bound
  PROVE  Sup!Retained(rest, bound) <=> Proved!Retained(rest, bound)
BY DEF Sup!Retained, Proved!Retained, Sup!Bijection, Proved!Bijection, Sup!Injection,
    Proved!Injection, Sup!Surjection, Proved!Surjection, Sup!IsInjective, Proved!IsInjective,
    Sup!Cardinality, Proved!Cardinality

LEMMA SameAnswered ==
  ASSUME NEW requests, NEW result
  PROVE  Sup!Answered(requests, result) = Proved!Answered(requests, result)
BY DEF Sup!Answered, Proved!Answered, Sup!Contract!Answered, Proved!Contract!Answered,
    Sup!Contract!Request, Proved!Contract!Request, Sup!Contract!Generations,
    Proved!Contract!Generations

LEMMA SamePush ==
  ASSUME NEW r
  PROVE  Sup!Push(r) <=> Proved!Push(r)
BY SameAnswered
DEF Sup!Push, Proved!Push, Sup!Canceled, Proved!Canceled, Sup!Preview, Proved!Preview, Sup!None,
    Proved!None

LEMMA SamePurge ==
  ASSUME NEW g, NEW also
  PROVE  Sup!Purge(g, also) <=> Proved!Purge(g, also)
BY SameAnswered, SameRetained
DEF Sup!Purge, Proved!Purge, Sup!Contract!Larger, Proved!Contract!Larger, Sup!Final,
    Proved!Final, Sup!Preview, Proved!Preview, Sup!None, Proved!None

LEMMA SameSteps == Sup!SupervisorNext => Proved!SupervisorNext
<1>1. Sup!Pop => Proved!Pop
  BY DEF Sup!Pop, Proved!Pop, Sup!PopFinal, Proved!PopFinal, Sup!PopPreview, Proved!PopPreview,
      Sup!Final, Proved!Final, Sup!Preview, Proved!Preview, Sup!None, Proved!None
<1>2. /\ Sup!StartWorker => Proved!StartWorker
      /\ Sup!WorkerReady => Proved!WorkerReady
      /\ Sup!WorkerFailsToLoad => Proved!WorkerFailsToLoad
      /\ Sup!IdleExit => Proved!IdleExit
  BY DEF Sup!StartWorker, Proved!StartWorker, Sup!WorkerReady, Proved!WorkerReady,
      Sup!WorkerFailsToLoad, Proved!WorkerFailsToLoad, Sup!IdleExit, Proved!IdleExit,
      Sup!Announce, Proved!Announce, Sup!Queued, Proved!Queued, Sup!None, Proved!None
<1>3. /\ Sup!IdleRequest => Proved!IdleRequest
      /\ Sup!RunningRequest => Proved!RunningRequest
  BY SamePush
  DEF Sup!IdleRequest, Proved!IdleRequest, Sup!RunningRequest, Proved!RunningRequest, Sup!Take,
      Proved!Take, Sup!Queued, Proved!Queued, Sup!None, Proved!None
<1>4. /\ Sup!IdleCancel => Proved!IdleCancel
      /\ Sup!RunningCancel => Proved!RunningCancel
  BY SamePurge
  DEF Sup!IdleCancel, Proved!IdleCancel, Sup!RunningCancel, Proved!RunningCancel, Sup!Take,
      Proved!Take, Sup!Queued, Proved!Queued, Sup!None, Proved!None, Sup!Announce,
      Proved!Announce, Sup!NoRequest, Proved!NoRequest
<1>5. /\ Sup!WorkerAnswers => Proved!WorkerAnswers
      /\ Sup!WorkerBreaks => Proved!WorkerBreaks
      /\ Sup!FatalCommand => Proved!FatalCommand
  BY SameAnswered
  DEF Sup!WorkerAnswers, Proved!WorkerAnswers, Sup!WorkerBreaks, Proved!WorkerBreaks,
      Sup!FatalCommand, Proved!FatalCommand, Sup!Take, Proved!Take, Sup!Announce,
      Proved!Announce, Sup!NoRequest, Proved!NoRequest, Sup!None, Proved!None, Sup!private,
      Proved!private
<1> QED BY <1>1, <1>2, <1>3, <1>4, <1>5 DEF Sup!SupervisorNext, Proved!SupervisorNext

-------------------------------------------------------------------------------
(* What the supervisor's contract allows is what the daemon's contract has *)
LEMMA SameService ==
  ASSUME Linked, Linked', Proved!Contract!ServiceNext
  PROVE  ServiceNext
<1> USE DEF Proved!Contract!Request, Request, Proved!Contract!Generations, Generations
<1>h. (Sup!Accepted = Proved!Accepted)'
  BY SameHeld, PTL
<1>0. /\ Proved!Accepted = accepted /\ Proved!Accepted' = accepted'
      /\ canceledGen = canceled /\ canceledGen' = canceled'
  BY <1>h, SameHeld DEF Linked
<1>1. \A requests, result :
        Proved!Contract!Answered(requests, result) = Answered(requests, result)
  BY DEF Proved!Contract!Answered, Answered
<1>2. Proved!Contract!Accept => Accept
  BY <1>0, <1>1 DEF Proved!Contract!Accept, Accept
<1>3. Proved!Contract!Refuse => Refuse
  BY <1>0, <1>1 DEF Proved!Contract!Refuse, Refuse
<1>4. Proved!Contract!CancelRequests => CancelRequests
  BY <1>0, <1>1
  DEF Proved!Contract!CancelRequests, CancelRequests, Proved!Contract!Larger, Larger,
      Proved!Contract!SetStatus, SetStatus
<1>5. Proved!Contract!CancelUnavailable => CancelUnavailable
  BY <1>0 DEF Proved!Contract!CancelUnavailable, CancelUnavailable
<1>6. \A r \in Request : /\ Proved!Contract!AnswerText(r) => AnswerText(r)
                         /\ Proved!Contract!AnswerWithoutText(r) => AnswerWithoutText(r)
  BY <1>0, <1>1
  DEF Proved!Contract!AnswerText, AnswerText, Proved!Contract!AnswerWithoutText,
      AnswerWithoutText, Proved!Contract!SetStatus, SetStatus
<1>7. Proved!Contract!WorkerLost => WorkerLost
  BY <1>0 DEF Proved!Contract!WorkerLost, WorkerLost, Proved!Contract!SetStatus, SetStatus
<1>8. \A value : Proved!Contract!Load(value) => Load(value)
  BY <1>0 DEF Proved!Contract!Load, Load, Proved!Contract!SetStatus, SetStatus
<1>9. CASE \E r \in Request : \/ Proved!Contract!AnswerText(r)
                              \/ Proved!Contract!AnswerWithoutText(r)
  BY <1>6, <1>9 DEF ServiceNext
<1>10. CASE \E value \in {"Loading", "Ready", "Unavailable"} : Proved!Contract!Load(value)
  BY <1>8, <1>10 DEF ServiceNext
<1> QED
  BY <1>2, <1>3, <1>4, <1>5, <1>7, <1>9, <1>10 DEF Proved!Contract!ServiceNext, ServiceNext

LEMMA SameCaller ==
  ASSUME Linked, CallerNext, UNCHANGED supervisor
  PROVE  Proved!Caller \/ (Proved!Contract!WatcherLooks /\ UNCHANGED Proved!private)
<1> USE DEF Proved!Contract!Request, Request, Proved!Contract!Generations, Generations
<1>1. UNCHANGED Proved!private /\ Proved!Accepted' = Proved!Accepted
  BY DEF supervisor, Proved!private, Proved!Accepted
<1>2. accepted = Proved!Accepted
  BY SameHeld DEF Linked
<1>3. CASE WatcherLooks
  BY <1>1, <1>3 DEF WatcherLooks, Proved!Contract!WatcherLooks, supervisor
<1>4. /\ \A requests : Proved!Contract!Closed(requests) = Closed(requests)
      /\ Proved!Contract!InChannel = InChannel
  BY DEF Proved!Contract!Closed, Closed, Proved!Contract!InChannel, InChannel
<1>5. \A r \in Request : CallerSends(r) => Proved!Contract!CallerSends(r)
  BY <1>2, <1>4
  DEF CallerSends, Proved!Contract!CallerSends, SendRequest, Proved!Contract!SendRequest,
      SendOrphan, Proved!Contract!SendOrphan
<1>6. DropsReceivers => Proved!Contract!DropsReceivers
  BY <1>4 DEF DropsReceivers, Proved!Contract!DropsReceivers
<1>7. \A g \in Generations : CallerCancels(g) => Proved!Contract!CallerCancels(g)
  BY <1>6 DEF CallerCancels, Proved!Contract!CallerCancels, SendCancel,
              Proved!Contract!SendCancel
<1>8. CallerReceives => Proved!Contract!CallerReceives
  BY <1>6 DEF CallerReceives, Proved!Contract!CallerReceives
<1>9. CASE /\ \/ \E r \in Request : CallerSends(r)
              \/ \E g \in Generations : CallerCancels(g)
              \/ CallerReceives
           /\ UNCHANGED <<accepted, canceled, status, unseen>>
  <2>1. UNCHANGED <<Proved!private, status, unseen>>
    BY <1>1, <1>9
  <2>2. \/ \E r \in Proved!Contract!Request : Proved!Contract!CallerSends(r)
        \/ \E g \in Proved!Contract!Generations : Proved!Contract!CallerCancels(g)
        \/ Proved!Contract!CallerReceives
    BY <1>5, <1>7, <1>8, <1>9
  <2> QED BY <2>1, <2>2 DEF Proved!Caller
<1> QED BY <1>3, <1>9 DEF CallerNext

-------------------------------------------------------------------------------
(* The two halves keep what each relies on *)
DaemonSteps ==
  \/ \E c \in Clients, op \in Commands \cap Operation : IssueCommand(c, op)
  \/ SignalShutdown
  \/ ActorNext
  \/ TaskNext

LEMMA TogetherInit == SystemInit => Together
<1> SUFFICES ASSUME Init, Sup!Init PROVE Together
  BY DEF SystemInit
<1>1. Lifecycle
  BY LifecycleInit
<1>2. Late
  BY DEF Init, Late, PipelineHasItsTask, CaptureEndsEndTheirLoop, NoTask, Mail
<1>3. Contracted
  BY Requests
  DEF Init, ServiceInit, Contracted, OneCopy, QuietBeforeSending, Quiet, InFlight, InChannel,
      Suspended, NoTask
<1>4. Proved!Init
  BY DEF Sup!Init, Proved!Init, Sup!None, Proved!None, Sup!NoRequest, Proved!NoRequest,
         Sup!Contract!ServiceInit, Proved!Contract!ServiceInit, Sup!Accepted, Proved!Accepted,
         Sup!Final, Proved!Final, Sup!Preview, Proved!Preview, Sup!Contract!Request,
         Proved!Contract!Request, Sup!Contract!None, Proved!Contract!None,
         Sup!Contract!Generations, Proved!Contract!Generations
<1>5. Proved!Supervising
  BY <1>4, Proved!SupervisingInit
<1>6. Linked
  BY DEF Init, ServiceInit, Linked, Sup!Init, Sup!None, None, Sup!Accepted, Sup!NoRequest
<1> QED BY <1>1, <1>2, <1>3, <1>5, <1>6 DEF Together

LEMMA DaemonStep ==
  ASSUME Together, DaemonSteps, UNCHANGED supervisor
  PROVE  Together' /\ Next
<1>1. Next
  BY DEF DaemonSteps, Next
<1>2. Lifecycle' /\ Late' /\ Contracted'
  BY <1>1, LifecycleNext, LateNext, ContractedNext DEF Together
<1>3. UNCHANGED service \/ CallerNext
  <2>1. CASE \/ \E c \in Clients, op \in Commands \cap Operation : IssueCommand(c, op)
             \/ SignalShutdown
    BY <2>1 DEF IssueCommand, SignalShutdown
  <2>2. CASE ActorNext
    BY <2>2, ContractedActor DEF Together
  <2>3. CASE TaskNext
    BY <2>3, ContractedPipeline, ContractedPreview, ContractedOtherTasks DEF TaskNext, Together
  <2> QED BY <2>1, <2>2, <2>3 DEF DaemonSteps
<1>4. Proved!Supervising'
  <2>1. CASE UNCHANGED service
    <3>1. UNCHANGED Proved!supervisorVars
      BY <2>1 DEF service, supervisor, Proved!supervisorVars, Proved!private
    <3> QED BY <3>1, Proved!SupervisingNext DEF Together
  <2>2. CASE CallerNext
    <3>1. CASE Proved!Caller
      BY <3>1, Proved!CallerSteps DEF Together
    <3>2. CASE Proved!Contract!WatcherLooks /\ UNCHANGED Proved!private
      BY <3>2, Proved!StatusSeen DEF Together
    <3> QED BY <2>2, <3>1, <3>2, SameCaller DEF Together
  <2> QED BY <1>3, <2>1, <2>2
<1>5. Linked'
  <2>1. UNCHANGED <<accepted, canceled>>
    BY <1>3 DEF service, CallerNext, WatcherLooks
  <2>2. Sup!Accepted' = Sup!Accepted
    BY DEF supervisor, Sup!Accepted
  <2> QED BY <2>1, <2>2 DEF Together, Linked, supervisor
<1> QED BY <1>1, <1>2, <1>4, <1>5 DEF Together

LEMMA SupervisorStep ==
  ASSUME Together, Sup!SupervisorNext, accepted' = Sup!Accepted', canceled' = canceledGen',
         UNCHANGED daemonVars
  PROVE  Together' /\ [Next]_vars
<1>1. Linked'
  BY DEF Linked
<1>2. Proved!SupervisorNext
  BY SameSteps
<1>3. Proved!Supervising' /\ Proved!Simulates
  BY <1>2, Proved!SupervisingStep DEF Together
<1>4. [Next]_vars
  <2>1. CASE Proved!Contract!ServiceNext
    BY <1>1, <2>1, SameService DEF Together, Next
  <2>2. CASE UNCHANGED Proved!Contract!service
    <3>1. (Sup!Accepted = Proved!Accepted)'
      BY SameHeld, PTL
    <3>2. UNCHANGED service
      BY <1>1, <2>2, <3>1, SameHeld DEF Proved!Contract!service, service, Linked, Together
    <3>3. UNCHANGED vars
      BY <3>2 DEF vars, daemonVars, actorState, sessions, history
    <3> QED BY <3>3
  <2> QED BY <1>3, <2>1, <2>2 DEF Proved!Simulates
<1>5. Lifecycle' /\ Late' /\ Contracted'
  BY <1>4, LifecycleNext, LateNext, ContractedNext DEF Together
<1> QED BY <1>1, <1>3, <1>4, <1>5 DEF Together

LEMMA SystemStep ==
  ASSUME Together, [SystemNext]_systemVars
  PROVE  Together' /\ [Next]_vars
<1>1. CASE DaemonSteps /\ UNCHANGED supervisor
  BY <1>1, DaemonStep
<1>2. CASE /\ Sup!SupervisorNext
           /\ accepted' = Sup!Accepted' /\ canceled' = canceledGen'
           /\ UNCHANGED daemonVars
  BY <1>2, SupervisorStep
<1>3. CASE UNCHANGED systemVars
  <2>1. UNCHANGED vars /\ UNCHANGED supervisor
    BY <1>3 DEF systemVars
  <2>2. Lifecycle' /\ Late' /\ Contracted'
    BY <2>1, LifecycleNext, LateNext, ContractedNext DEF Together
  <2>3. UNCHANGED Proved!supervisorVars
    BY <2>1 DEF vars, service, supervisor, Proved!supervisorVars, Proved!private
  <2>4. Proved!Supervising'
    BY <2>3, Proved!SupervisingNext DEF Together
  <2>5. Linked'
    BY <2>1 DEF Together, Linked, vars, service, supervisor, Sup!Accepted
  <2> QED BY <2>1, <2>2, <2>4, <2>5 DEF Together
<1> QED BY <1>1, <1>2, <1>3 DEF SystemNext, DaemonSteps

LEMMA TogetherInvariant == SystemSpec => []Together
<1>1. SystemInit => Together
  BY TogetherInit
<1>2. Together /\ [SystemNext]_systemVars => Together'
  BY SystemStep
<1> QED BY <1>1, <1>2, PTL DEF SystemSpec

\* The daemon with the supervisor behind it is the daemon of module Daemon: whatever
\* supervise_worker does with its queue and its worker is a step that the daemon's
\* contract allows or that the daemon cannot see, and the daemon's own steps need no
\* more of the supervisor than the contract says.
THEOREM SystemIsTheDaemon == SystemSpec => ImplementsDaemon
<1>1. SystemInit => Init
  BY DEF SystemInit
<1>2. Together /\ [SystemNext]_systemVars => [Next]_vars
  BY SystemStep
<1> QED BY <1>1, <1>2, TogetherInvariant, PTL DEF SystemSpec, ImplementsDaemon, Spec

\* The daemon keeps its side of the contract with the supervisor that is really there.
THEOREM SystemKeepsContract == SystemSpec => KeepsContract
BY SystemIsTheDaemon, ContractIsKept DEF ImplementsDaemon

\* No generation of a dictation that is over stays on display in the two together.
THEOREM SystemDisplayIsNeverStale == SystemSpec => []NothingStaleOnDisplay
BY SystemIsTheDaemon, DisplayIsNeverStale DEF ImplementsDaemon

\* The two together live up to the promise of module DictationLife: a user who knows
\* nothing of messages and workers sees dictations that begin, end once and are what
\* they are said to be.
THEOREM SystemKeepsItsPromise == SystemSpec => LivesUpToPromise
BY SystemIsTheDaemon, DaemonKeepsItsPromise DEF ImplementsDaemon

\* What the daemon promises with any supervisor that keeps the contract it promises with
\* the one that is there: one dictation at a time and none forgotten, a state that says
\* what is done, results that stay, and commands that are answered, Stops at the end.
THEOREM SystemIsSafe ==
  SystemSpec => [](/\ OneActivity /\ NoDictationForgotten
                   /\ StateMatchesActivity /\ ResultsAreCurrent
                   /\ EveryCommandIsSomewhere /\ StopWaitsForTheEnd)
<1>1. SystemSpec => Spec
  BY SystemIsTheDaemon DEF ImplementsDaemon
<1>2. Spec => []OneActivity /\ []NoDictationForgotten
  BY AtMostOneActivity, EveryDictationAccountedFor
<1>3. Spec => []StateMatchesActivity /\ []ResultsAreCurrent
  BY DisplayMatchesActivity, ResultsStayCurrent
<1>4. Spec => []EveryCommandIsSomewhere /\ []StopWaitsForTheEnd
  BY EveryCommandIsKept, StopsWaitForTheEnd
<1> QED BY <1>1, <1>2, <1>3, <1>4, PTL

\* Nor does a step of the two together do what no step of the daemon may: deliver the
\* text of a canceled dictation, or end a recording for the capture end of another.
THEOREM SystemStepsAreSafe == SystemSpec => SilentAfterCancel /\ NotCutShort
BY SystemIsTheDaemon, NothingAfterCancel, RecordingsRunTheirCourse DEF ImplementsDaemon

\* With the daemon as its caller the supervisor holds nothing of a canceled dictation,
\* holds every request once, and promises what it promises to any caller.
THEOREM DaemonCallsSafely ==
  SystemSpec => [](Sup!CanceledIsGone /\ Sup!HeldOnce)
<1>1. Together => Sup!CanceledIsGone /\ Sup!HeldOnce
  BY SameHeld
  DEF Together, Proved!Supervising, Proved!Holding, Proved!CanceledIsGone, Sup!CanceledIsGone,
      Proved!HeldOnce, Sup!HeldOnce, Proved!IsInjective, Sup!IsInjective, Proved!Contains,
      Sup!Contains, Proved!NoRequest, Sup!NoRequest, Proved!None, Sup!None
<1> QED BY <1>1, TogetherInvariant, PTL
=================================================================================
