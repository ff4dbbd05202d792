------------------------------ MODULE MailboxProofs ------------------------------
(***************************************************************************)
(* What becomes of the messages in the actor's mailbox, for any number of  *)
(* clients and dictations and any inbox capacity: every command is         *)
(* answered once and a Stop after the end of its dictation, and a message  *)
(* of an earlier dictation does nothing to a later one; so that dictations *)
(* go as module DictationLife promises.                                    *)
(***************************************************************************)
EXTENDS DaemonProofs

(* The mailbox as a set, and the places a command may be in *)

Mail == {inbox[i] : i \in DOMAIN inbox}

InMailbox(c) == \E m \in Mail : m.kind = "command" /\ m.client = c

\* No client has two commands in the mailbox.
OnceInMailbox ==
  \A i, j \in DOMAIN inbox :
    /\ inbox[i].kind = "command" /\ inbox[j].kind = "command"
    /\ inbox[i].client = inbox[j].client
    => i = j

LEMMA Posted ==
  ASSUME TypeOK, NEW m \in Message, Post(m)
  PROVE  /\ Mail' = Mail \cup {m}
         /\ DOMAIN inbox' = 1 .. Len(inbox) + 1
         /\ \A i \in DOMAIN inbox : inbox'[i] = inbox[i]
         /\ inbox'[Len(inbox) + 1] = m
<1>1. /\ DOMAIN inbox = 1 .. Len(inbox) /\ Len(inbox) \in Nat
      /\ DOMAIN inbox' = 1 .. Len(inbox) + 1
      /\ \A i \in DOMAIN inbox : inbox'[i] = inbox[i]
      /\ inbox'[Len(inbox) + 1] = m
  BY DEF Post, TypeOK
<1> QED BY <1>1 DEF Mail

LEMMA Taken ==
  ASSUME TypeOK, NEW kind, Receive(kind)
  PROVE  /\ Mail = Mail' \cup {Head(inbox)}
         /\ 1 \in DOMAIN inbox /\ Head(inbox) = inbox[1]
         /\ \A i \in DOMAIN inbox' : i + 1 \in DOMAIN inbox /\ inbox'[i] = inbox[i + 1]
<1>1. /\ DOMAIN inbox = 1 .. Len(inbox) /\ Len(inbox) \in Nat \ {0}
      /\ DOMAIN inbox' = 1 .. Len(inbox) - 1
      /\ \A i \in DOMAIN inbox' : inbox'[i] = inbox[i + 1]
      /\ Head(inbox) = inbox[1]
  BY DEF Receive, TypeOK
<1>2. ASSUME NEW i \in DOMAIN inbox, i # 1
      PROVE  i - 1 \in DOMAIN inbox' /\ inbox[i] = inbox'[i - 1]
  BY <1>1, <1>2
<1> QED BY <1>1, <1>2 DEF Mail

\* A message that is no command leaves the commands where they are.
LEMMA OtherPosted ==
  ASSUME TypeOK, OnceInMailbox, NEW m \in Message, m.kind # "command", Post(m)
  PROVE  OnceInMailbox' /\ \A c : InMailbox(c)' <=> InMailbox(c)
<1>1. /\ DOMAIN inbox = 1 .. Len(inbox) /\ Len(inbox) \in Nat
      /\ DOMAIN inbox' = 1 .. Len(inbox) + 1
      /\ \A i \in DOMAIN inbox : inbox'[i] = inbox[i]
      /\ inbox'[Len(inbox) + 1] = m
  BY Posted DEF TypeOK
<1> QED BY <1>1, Posted DEF OnceInMailbox, InMailbox

LEMMA CommandPosted ==
  ASSUME TypeOK, OnceInMailbox, NEW c \in Clients, ~InMailbox(c),
         Post([kind |-> "command", client |-> c])
  PROVE  OnceInMailbox' /\ \A d : InMailbox(d)' <=> InMailbox(d) \/ d = c
<1> DEFINE m == [kind |-> "command", client |-> c]
<1>0. m \in Message
  BY DEF Message
<1>1. /\ DOMAIN inbox = 1 .. Len(inbox) /\ Len(inbox) \in Nat
      /\ DOMAIN inbox' = 1 .. Len(inbox) + 1
      /\ \A i \in DOMAIN inbox : inbox'[i] = inbox[i]
      /\ inbox'[Len(inbox) + 1] = m
  BY <1>0, Posted DEF TypeOK
<1>2. \A i \in DOMAIN inbox : ~(inbox[i].kind = "command" /\ inbox[i].client = c)
  BY DEF InMailbox, Mail
<1>3. OnceInMailbox'
  BY <1>1, <1>2 DEF OnceInMailbox
<1>4. Mail' = Mail \cup {m}
  BY <1>0, Posted
<1> QED BY <1>3, <1>4 DEF InMailbox

LEMMA OtherTaken ==
  ASSUME TypeOK, OnceInMailbox, NEW kind, kind # "command", Receive(kind)
  PROVE  OnceInMailbox' /\ \A c : InMailbox(c)' <=> InMailbox(c)
<1>1. Head(inbox).kind # "command"
  BY DEF Receive
<1>2. OnceInMailbox'
  <2>1. DOMAIN inbox' \subseteq Nat
    BY DEF Receive, TypeOK
  <2> QED BY <2>1, Taken DEF OnceInMailbox
<1> QED BY <1>1, <1>2, Taken DEF InMailbox

LEMMA CommandTaken ==
  ASSUME TypeOK, OnceInMailbox, Receive("command")
  PROVE  LET c == Head(inbox).client
         IN /\ c \in Clients /\ InMailbox(c)
            /\ OnceInMailbox'
            /\ \A d : InMailbox(d)' <=> InMailbox(d) /\ d # c
<1> DEFINE c == Head(inbox).client
<1>0. /\ c \in Clients /\ Head(inbox).kind = "command"
  BY Taking, MessageFields
<1>1. /\ DOMAIN inbox' \subseteq Nat
      /\ Mail = Mail' \cup {Head(inbox)}
      /\ 1 \in DOMAIN inbox /\ Head(inbox) = inbox[1]
      /\ \A i \in DOMAIN inbox' : i + 1 \in DOMAIN inbox /\ inbox'[i] = inbox[i + 1]
  <2>1. DOMAIN inbox' \subseteq Nat
    BY DEF Receive, TypeOK
  <2> QED BY <2>1, Taken
<1>2. OnceInMailbox'
  BY <1>1 DEF OnceInMailbox
<1>3. \A i \in DOMAIN inbox' : ~(inbox'[i].kind = "command" /\ inbox'[i].client = c)
  <2>0. \A i \in DOMAIN inbox' : i >= 1
    BY DEF Receive, TypeOK
  <2>1. ASSUME NEW i \in DOMAIN inbox', inbox'[i].kind = "command", inbox'[i].client = c
        PROVE  FALSE
    <3>1. i + 1 = 1
      BY <1>0, <1>1, <2>1 DEF OnceInMailbox
    <3> QED BY <1>1, <2>0, <3>1
  <2> QED BY <2>1
<1>4. \A d : d = c => ~InMailbox(d)'
  BY <1>3 DEF InMailbox, Mail
<1>5. InMailbox(c)
  BY <1>0, <1>1 DEF InMailbox, Mail
<1>6. \A d : d # c => (InMailbox(d)' <=> InMailbox(d))
  BY <1>0, <1>1 DEF InMailbox
<1> QED BY <1>0, <1>2, <1>4, <1>5, <1>6
-------------------------------------------------------------------------------
(* Every command is somewhere *)

\* EveryCommandIsSomewhere, with what it rests on: no client has two commands in
\* the mailbox, and only a suspended cancel() owes its caller a reply.
Waits(c) == InMailbox(c) \/ c \in waiters \/ cancelJob.by = c
Somewhere ==
  /\ OnceInMailbox
  /\ ~Suspended => cancelJob.by = Nobody
  /\ actor # "stopped" =>
       \A c \in Clients :
         /\ client[c].phase = "sent" <=> Waits(c)
         /\ ~(InMailbox(c) /\ (c \in waiters \/ cancelJob.by = c))
         /\ ~(c \in waiters /\ cancelJob.by = c)

LEMMA AnsweredIsNotSent ==
  ASSUME NEW s \in Session, NEW ev
  PROVE  Answer(s, ev).phase # "sent"
  BY DEF Answer, IdleClient, Session

LEMMA Replied ==
  ASSUME TypeOK, NEW c \in Clients, NEW ev, ReplyTo(c, ev)
  PROVE  \A d \in Clients :
           client'[d].phase = "sent" <=> client[d].phase = "sent" /\ d # c
<1>1. client' = [client EXCEPT ![c] = Answer(@, ev)]
  BY ClientsAssumption DEF ReplyTo
<1> QED BY <1>1, AnsweredIsNotSent DEF TypeOK

\* A handler of a command answers it, parks it, or leaves it to a suspended cancel().
LEMMA CommandHandled ==
  ASSUME TypeOK, Somewhere, Receive("command"), NEW c, c = Head(inbox).client,
         \/ /\ UNCHANGED <<waiters, cancelJob, actor>>
            /\ \E ev : ReplyTo(c, ev)
         \/ /\ UNCHANGED <<client, cancelJob, actor>>
            /\ waiters' = waiters \cup {c}
         \/ /\ UNCHANGED <<client, waiters>>
            /\ cancelJob'.by = c /\ Suspended'
  PROVE  Somewhere'
<1>1. /\ c \in Clients /\ InMailbox(c) /\ OnceInMailbox'
      /\ \A d : InMailbox(d)' <=> InMailbox(d) /\ d # c
  BY CommandTaken DEF Somewhere
<1>2. actor = "ready" /\ ~Suspended /\ cancelJob.by = Nobody
  BY DEF Receive, Suspended, Somewhere
<1>3. c \notin waiters /\ c # Nobody
  BY <1>1, <1>2, ClientsAssumption DEF Somewhere
<1>4. CASE UNCHANGED <<waiters, cancelJob, actor>> /\ \E ev : ReplyTo(c, ev)
  <2>1. \A d \in Clients :
          client'[d].phase = "sent" <=> client[d].phase = "sent" /\ d # c
    BY <1>1, <1>4, Replied
  <2> QED BY <1>1, <1>2, <1>3, <1>4, <2>1 DEF Somewhere, Waits, Suspended
<1>5. CASE UNCHANGED <<client, cancelJob, actor>> /\ waiters' = waiters \cup {c}
  BY <1>1, <1>2, <1>3, <1>5 DEF Somewhere, Waits, Suspended
<1>6. CASE UNCHANGED <<client, waiters>> /\ cancelJob'.by = c /\ Suspended'
  <2>1. \A d \in Clients :
          /\ client'[d].phase = "sent" <=> Waits(d)
          /\ d # c => (Waits(d) <=> InMailbox(d)' \/ d \in waiters')
    BY <1>1, <1>2, <1>6, ClientsAssumption DEF Somewhere, Waits
  <2>2. ~(c \in waiters') /\ ~InMailbox(c)' /\ Waits(c)
    BY <1>1, <1>3, <1>6 DEF Waits
  <2> QED BY <1>1, <1>2, <1>6, <2>1, <2>2 DEF Somewhere, Waits
<1> QED BY <1>4, <1>5, <1>6

\* A handler of another message that replies to nobody.
LEMMA OtherHandled ==
  ASSUME TypeOK, Somewhere, NEW kind, kind # "command", Receive(kind),
         UNCHANGED <<client, waiters, cancelJob, actor>>
  PROVE  Somewhere'
<1>1. OnceInMailbox' /\ \A c : InMailbox(c)' <=> InMailbox(c)
  BY OtherTaken DEF Somewhere
<1> QED BY <1>1 DEF Somewhere, Waits, Suspended

LEMMA SomewhereStutter ==
  ASSUME Somewhere, UNCHANGED <<inbox, client, waiters, cancelJob, actor>>
  PROVE  Somewhere'
<1>1. OnceInMailbox' /\ \A c : InMailbox(c)' <=> InMailbox(c)
  BY DEF Somewhere, OnceInMailbox, InMailbox, Mail
<1> QED BY <1>1 DEF Somewhere, Waits, Suspended

LEMMA SomewherePosted ==
  ASSUME TypeOK, Somewhere, NEW m \in Message, m.kind # "command", Post(m),
         UNCHANGED <<client, waiters, cancelJob, actor>>
  PROVE  Somewhere'
<1>1. OnceInMailbox' /\ \A c : InMailbox(c)' <=> InMailbox(c)
  BY OtherPosted DEF Somewhere
<1> QED BY <1>1 DEF Somewhere, Waits, Suspended

\* How the pieces of the handlers reply.
LEMMA StartReplies ==
  ASSUME NEW c, StartRecording(c)
  PROVE  UNCHANGED waiters /\ \E ev : ReplyTo(c, ev)
  BY DEF StartRecording, OpenMicrophone, MicrophoneFails, OnlyReply

LEMMA FinalizeReplies ==
  ASSUME NEW c, NEW parks \in BOOLEAN, FinalizeRecording(c, parks)
  PROVE  \/ UNCHANGED waiters /\ \E ev : ReplyTo(c, ev)
         \/ UNCHANGED client /\ waiters' = waiters \cup {c} /\ parks
  BY DEF FinalizeRecording

LEMMA BeginCancelReplies ==
  ASSUME NEW c, BeginCancel(c)
  PROVE  UNCHANGED <<client, waiters>> /\ cancelJob'.by = c /\ Suspended'
  BY DEF BeginCancel, AbortRecording, AbortPipeline, Suspended

LEMMA SomewhereCompleted ==
  ASSUME TypeOK, Somewhere, HandleCompleted
  PROVE  Somewhere'
<1>1. CASE ~PipelineIdentityMatches(Head(inbox).gen)
  BY <1>1, OtherHandled DEF HandleCompleted
<1>2. CASE PipelineIdentityMatches(Head(inbox).gen)
  <2>1. /\ Receive("completed") /\ waiters' = {} /\ UNCHANGED <<cancelJob, actor>>
        /\ client' = Resolved(event') /\ actor = "ready"
    BY <1>2 DEF HandleCompleted, Receive
  <2>2. OnceInMailbox' /\ \A c : InMailbox(c)' <=> InMailbox(c)
    BY <2>1, OtherTaken DEF Somewhere
  <2>3. \A c \in Clients :
          client'[c].phase = "sent" <=> client[c].phase = "sent" /\ c \notin waiters
    BY <2>1, AnsweredIsNotSent DEF Resolved, TypeOK
  <2> QED BY <2>1, <2>2, <2>3 DEF Somewhere, Waits, Suspended
<1> QED BY <1>1, <1>2

LEMMA SomewhereFinishCancel ==
  ASSUME TypeOK, Somewhere, FinishCancel
  PROVE  Somewhere'
<1>1. /\ UNCHANGED inbox /\ waiters' = {} /\ cancelJob' = NoJob
      /\ actor' \in {"ready", "stopped"} /\ Suspended
      /\ \E ev1, ev2 :
           client' = [c \in Clients |->
                        IF c = cancelJob.by THEN Answer(client[c], ev1) ELSE Resolved(ev2)[c]]
  BY DEF FinishCancel, Suspended
<1>2. \A c \in Clients :
        client'[c].phase = "sent" <=>
          client[c].phase = "sent" /\ c \notin waiters /\ c # cancelJob.by
  BY <1>1, AnsweredIsNotSent DEF Resolved, TypeOK
<1>3. OnceInMailbox' /\ \A c : InMailbox(c)' <=> InMailbox(c)
  BY <1>1 DEF Somewhere, OnceInMailbox, InMailbox, Mail
<1> QED BY <1>1, <1>2, <1>3, ClientsAssumption DEF Somewhere, Waits, Suspended, NoJob

LEMMA SomewhereActor ==
  ASSUME TypeOK, Somewhere, ActorNext
  PROVE  Somewhere'
<1> DEFINE c == Head(inbox).client
<1>1. CASE HandleStart
  BY <1>1, StartReplies, CommandHandled DEF HandleStart
<1>2. CASE HandleStop
  <2>1. \/ UNCHANGED waiters /\ \E ev : ReplyTo(c, ev)
        \/ UNCHANGED client /\ waiters' = waiters \cup {c}
    BY <1>2, FinalizeReplies DEF HandleStop, OnlyReply
  <2> QED BY <1>2, <2>1, CommandHandled DEF HandleStop
<1>3. CASE HandleToggle
  <2>1. UNCHANGED waiters /\ \E ev : ReplyTo(c, ev)
    BY <1>3, StartReplies, FinalizeReplies DEF HandleToggle, OnlyReply
  <2> QED BY <1>3, <2>1, CommandHandled DEF HandleToggle
<1>4. CASE HandleCancel
  <2>1. CASE BeginCancel(c)
    BY <1>4, <2>1, BeginCancelReplies, CommandHandled DEF HandleCancel
  <2>2. CASE ~BeginCancel(c)
    BY <1>4, <2>2, CommandHandled DEF HandleCancel, OnlyReply
  <2> QED BY <2>1, <2>2
<1>5. CASE FinishCancel
  BY <1>5, SomewhereFinishCancel
<1>6. CASE HandleShutdown
  <2>1. OnceInMailbox' /\ \A d : InMailbox(d)' <=> InMailbox(d)
    BY <1>6, OtherTaken DEF HandleShutdown, Somewhere
  <2>2. actor = "ready" /\ ~Suspended
    BY <1>6 DEF HandleShutdown, Receive, Suspended
  <2>3. CASE BeginCancel(Nobody)
    BY <2>1, <2>2, <2>3, BeginCancelReplies DEF Somewhere, Waits, Suspended
  <2>4. CASE ~BeginCancel(Nobody)
    BY <1>6, <2>1, <2>2, <2>4 DEF HandleShutdown, Somewhere, Suspended
  <2> QED BY <2>3, <2>4
<1>7. CASE HandleConfigure
  <2>1. UNCHANGED waiters /\ \E ev : ReplyTo(c, ev)
    BY <1>7 DEF HandleConfigure, OnlyReply
  <2> QED BY <1>7, <2>1, CommandHandled DEF HandleConfigure
<1>8. CASE HandleProgress
  BY <1>8, OtherHandled DEF HandleProgress, sessions
<1>9. CASE HandlePreview
  BY <1>9, OtherHandled DEF HandlePreview, sessions
<1>10. CASE HandleLevel
  BY <1>10, OtherHandled DEF HandleLevel, sessions
<1>11. CASE HandleCaptureEnded
  <2>1. UNCHANGED <<client, waiters>>
    BY <1>11, FinalizeReplies DEF HandleCaptureEnded, ReplyTo
  <2> QED BY <1>11, <2>1, OtherHandled DEF HandleCaptureEnded
<1>12. CASE HandleCompleted
  BY <1>12, SomewhereCompleted
<1>13. CASE HandleCancellationFinished
  BY <1>13, OtherHandled DEF HandleCancellationFinished, sessions
<1>14. CASE HandleModelStatus
  BY <1>14, OtherHandled DEF HandleModelStatus, sessions
<1> QED
  BY <1>1, <1>2, <1>3, <1>4, <1>5, <1>6, <1>7, <1>8, <1>9, <1>10, <1>11, <1>12, <1>13, <1>14
  DEF ActorNext

\* The tasks post messages, but no commands, and answer nobody.
LEMMA TasksPost ==
  ASSUME TypeOK, TaskNext
  PROVE  /\ UNCHANGED <<client, waiters, cancelJob, actor>>
         /\ \/ UNCHANGED inbox
            \/ \E m \in Message : m.kind # "command" /\ Post(m)
<1> USE DEF actorState, sessions
<1>0. /\ task.phase # "none" => task.gen \in Generations
      /\ task.phase = "reporting" => task.result \in {"delivered", "undelivered", "failed"}
  BY DEF TypeOK, Task
<1>1. CASE PipelineSubmits \/ PipelineHears \/ PipelineDelivers \/ WatcherBorrows
  BY <1>1 DEF PipelineSubmits, PipelineHears, PipelineDelivers, WatcherBorrows
<1>2. CASE PipelineAnnouncesRefining
  <2>1. [kind |-> "progress", gen |-> task.gen] \in Message
    BY <1>0, <1>2 DEF PipelineAnnouncesRefining, Message
  <2> QED BY <1>2, <2>1 DEF PipelineAnnouncesRefining
<1>3. CASE PipelineReports
  <2>1. [kind |-> "completed", gen |-> task.gen, result |-> task.result] \in Message
    BY <1>0, <1>3 DEF PipelineReports, Message
  <2> QED BY <1>3, <2>1 DEF PipelineReports
<1>4. CASE WatcherReports
  <2>1. [kind |-> "modelStatus", status |-> watcher] \in Message
    BY <1>4 DEF WatcherReports, Message
  <2> QED BY <1>4, <2>1 DEF WatcherReports
<1>5. ASSUME NEW g \in Generations,
             \/ PreviewAsks(g) \/ PreviewStops(g) \/ PreviewHears(g) \/ RestartSeen(g)
      PROVE  UNCHANGED <<client, waiters, cancelJob, actor, inbox>>
  BY <1>5 DEF PreviewAsks, PreviewStops, PreviewHears, RestartSeen
<1>6. ASSUME NEW g \in Generations,
             \/ PreviewReports(g) \/ LevelReports(g) \/ CaptureEnds(g)
             \/ PreviewLastPoll(g) \/ LevelLastPoll(g) \/ RestartReported(g)
      PROVE  /\ UNCHANGED <<client, waiters, cancelJob, actor>>
             /\ \/ UNCHANGED inbox
                \/ \E kind \in {"preview", "level", "captureEnded", "cancellationFinished"} :
                     Post([kind |-> kind, gen |-> g])
  BY <1>6
  DEF PreviewReports, LevelReports, CaptureEnds, PreviewLastPoll, LevelLastPoll, RestartReported
<1>7. \A g \in Generations :
        \A kind \in {"preview", "level", "captureEnded", "cancellationFinished"} :
          [kind |-> kind, gen |-> g] \in Message
  BY DEF Message
<1>8. ASSUME NEW g \in Generations,
             \/ PreviewReports(g) \/ LevelReports(g) \/ CaptureEnds(g)
             \/ PreviewLastPoll(g) \/ LevelLastPoll(g) \/ RestartReported(g),
             ~UNCHANGED inbox
      PROVE  \E m \in Message : m.kind # "command" /\ Post(m)
  <2>1. PICK kind \in {"preview", "level", "captureEnded", "cancellationFinished"} :
          Post([kind |-> kind, gen |-> g])
    BY <1>6, <1>8
  <2>2. [kind |-> kind, gen |-> g] \in Message
    BY <1>7
  <2> QED BY <2>1, <2>2
<1> QED BY <1>1, <1>2, <1>3, <1>4, <1>5, <1>6, <1>8 DEF TaskNext

LEMMA SomewhereNext ==
  ASSUME TypeOK, Somewhere, [Next]_vars
  PROVE  Somewhere'
<1>1. ASSUME NEW c \in Clients, NEW op, IssueCommand(c, op)
      PROVE  Somewhere'
  <2>1. /\ UNCHANGED <<waiters, cancelJob, actor>>
        /\ actor # "stopped" /\ client[c].phase # "sent"
        /\ \A d \in Clients : client'[d].phase = "sent" <=> client[d].phase = "sent" \/ d = c
    BY <1>1 DEF IssueCommand, TypeOK
  <2>2. ~Waits(c)
    BY <2>1 DEF Somewhere
  <2>3. OnceInMailbox' /\ \A d : InMailbox(d)' <=> InMailbox(d) \/ d = c
    BY <1>1, <2>2, CommandPosted DEF IssueCommand, Somewhere, Waits
  <2> QED BY <2>1, <2>2, <2>3 DEF Somewhere, Waits, Suspended
<1>2. CASE SignalShutdown
  <2>1. [kind |-> "shutdown"] \in Message
    BY DEF Message
  <2> QED BY <1>2, <2>1, SomewherePosted DEF SignalShutdown
<1>3. CASE ActorNext
  BY <1>3, SomewhereActor
<1>4. CASE TaskNext
  BY <1>4, TasksPost, SomewhereStutter, SomewherePosted
<1>5. CASE ServiceNext /\ UNCHANGED daemonVars
  <2>1. UNCHANGED <<inbox, client, waiters, cancelJob, actor>>
    BY <1>5 DEF daemonVars, actorState, sessions
  <2> QED BY <2>1, SomewhereStutter
<1>6. CASE UNCHANGED vars
  <2>1. UNCHANGED <<inbox, client, waiters, cancelJob, actor>>
    BY <1>6 DEF vars, sessions
  <2> QED BY <2>1, SomewhereStutter
<1> QED BY <1>1, <1>2, <1>3, <1>4, <1>5, <1>6 DEF Next

\* Whatever is canceled, fails or ends in the meantime, a client that waits for its
\* reply has its command in the mailbox, or is parked until a dictation ends, or is
\* the caller of the suspended cancel(): in exactly one of these places.
THEOREM EveryCommandIsKept == Spec => []EveryCommandIsSomewhere
<1>1. Init => Somewhere
  BY ClientsAssumption
  DEF Init, Somewhere, OnceInMailbox, InMailbox, Mail, Waits, Suspended, NoJob, IdleClient
<1>2. TypeOK /\ Somewhere /\ [Next]_vars => Somewhere'
  BY SomewhereNext
<1>3. Somewhere => EveryCommandIsSomewhere
  <2> SUFFICES ASSUME Somewhere, actor # "stopped", NEW c \in Clients
               PROVE  IF client[c].phase = "sent"
                      THEN \/ /\ \E i \in DOMAIN inbox : QueuedFor(c) = {i}
                              /\ c \notin waiters /\ cancelJob.by # c
                           \/ /\ QueuedFor(c) = {}
                              /\ (c \in waiters) # (cancelJob.by = c)
                      ELSE QueuedFor(c) = {} /\ c \notin waiters /\ cancelJob.by # c
    BY DEF EveryCommandIsSomewhere
  <2>1. InMailbox(c) => \E i \in DOMAIN inbox : QueuedFor(c) = {i}
    BY DEF InMailbox, Mail, QueuedFor, Somewhere, OnceInMailbox
  <2>2. ~InMailbox(c) => QueuedFor(c) = {}
    BY DEF InMailbox, Mail, QueuedFor
  <2> QED BY <2>1, <2>2 DEF Somewhere, Waits
<1> QED BY <1>1, <1>2, <1>3, TypeCorrect, PTL DEF Spec
-------------------------------------------------------------------------------
(* A Stop waits for the end of its dictation *)

Settled(ev) == ev.state \notin {"Recording", "Transcribing", "Refining"}

\* StopWaitsForTheEnd in two parts.
ParkedOnADictation == waiters # {} => pipeline # None \/ actor = "cancelPipeline"
SettledReplies ==
  \A c \in Clients :
    client[c].phase = "answered" /\ client[c].op = "stop" => Settled(client[c].reply)

LEMMA AnswerFields ==
  ASSUME NEW s \in Session, NEW ev
  PROVE  /\ Answer(s, ev).phase \in {"answered", "idle"}
         /\ Answer(s, ev).phase = "answered" =>
              Answer(s, ev).op = s.op /\ Answer(s, ev).reply = ev
  BY DEF Answer, IdleClient, Session

LEMMA RepliedSettled ==
  ASSUME TypeOK, SettledReplies, NEW c, NEW ev, ReplyTo(c, ev),
         client[c].op # "stop" \/ Settled(ev)
  PROVE  SettledReplies'
<1>1. CASE c = Nobody
  BY <1>1 DEF ReplyTo, SettledReplies
<1>2. CASE c # Nobody
  <2>1. client' = [client EXCEPT ![c] = Answer(@, ev)]
    BY <1>2 DEF ReplyTo
  <2> QED BY <2>1, AnswerFields DEF SettledReplies, TypeOK
<1> QED BY <1>1, <1>2

LEMMA ResolvedSettled ==
  ASSUME TypeOK, SettledReplies, NEW ev, Settled(ev), client' = Resolved(ev)
  PROVE  SettledReplies'
  BY AnswerFields DEF Resolved, SettledReplies, TypeOK

\* start_recording parks nobody and leaves a pipeline alone.
LEMMA StopsStart ==
  ASSUME TypeOK, SettledReplies, NEW c, StartRecording(c), client[c].op # "stop"
  PROVE  SettledReplies' /\ UNCHANGED <<waiters, pipeline>>
<1>1. /\ \E ev : ReplyTo(c, ev)
      /\ UNCHANGED <<waiters, pipeline>>
  BY DEF StartRecording, OpenMicrophone, MicrophoneFails, OnlyReply, dictation
<1> QED BY <1>1, RepliedSettled

\* finalize_recording parks its Stop only on the pipeline it has just started.
LEMMA StopsFinalize ==
  ASSUME Lifecycle, ParkedOnADictation, SettledReplies, actor = "ready",
         NEW c, NEW parks \in BOOLEAN, FinalizeRecording(c, parks),
         c = Nobody \/ parks \/ client[c].op # "stop"
  PROVE  ParkedOnADictation' /\ SettledReplies'
<1>1. recording # None /\ pipeline = None /\ waiters = {} /\ TypeOK
  BY DEF FinalizeRecording, Lifecycle, OneActivity, ParkedOnADictation
<1>2. CASE UNCHANGED <<pipeline, task, waiters>>
  <2>1. ReplyTo(c, event') /\ Settled(event')
    BY <1>1, <1>2, EventFields DEF FinalizeRecording, Settled
  <2> QED BY <1>1, <1>2, <2>1, RepliedSettled DEF ParkedOnADictation
<1>3. CASE pipeline' = recording
  <2>1. \/ UNCHANGED client
        \/ ReplyTo(c, event') /\ ~parks
        \/ UNCHANGED pipeline
    BY DEF FinalizeRecording
  <2>2. SettledReplies'
    <3>1. CASE c = Nobody
      BY <2>1, <1>1, <1>3, <3>1 DEF ReplyTo, SettledReplies
    <3>2. CASE c # Nobody
      BY <1>1, <1>3, <2>1, <3>2, RepliedSettled DEF SettledReplies
    <3> QED BY <3>1, <3>2
  <2> QED BY <1>1, <1>3, <2>2 DEF ParkedOnADictation
<1> QED BY <1>2, <1>3 DEF FinalizeRecording

LEMMA StopsBeginCancel ==
  ASSUME Lifecycle, ParkedOnADictation, SettledReplies, actor = "ready",
         NEW c, BeginCancel(c)
  PROVE  ParkedOnADictation' /\ SettledReplies'
  BY DEF BeginCancel, AbortRecording, AbortPipeline, Lifecycle, OneActivity,
         ParkedOnADictation, SettledReplies

LEMMA StopsStutter ==
  ASSUME ParkedOnADictation, SettledReplies, UNCHANGED <<waiters, pipeline, actor, client>>
  PROVE  ParkedOnADictation' /\ SettledReplies'
  BY DEF ParkedOnADictation, SettledReplies

LEMMA StopsActor ==
  ASSUME Lifecycle, StateMatchesActivity, ParkedOnADictation, SettledReplies, ActorNext
  PROVE  ParkedOnADictation' /\ SettledReplies'
<1> DEFINE c == Head(inbox).client
<1> USE DEF Receive
<1>0. TypeOK
  BY DEF Lifecycle
<1>r. ASSUME UNCHANGED <<waiters, pipeline, actor>>, NEW ev, ReplyTo(c, ev),
             client[c].op # "stop" \/ Settled(ev)
      PROVE  ParkedOnADictation' /\ SettledReplies'
  BY <1>0, <1>r, RepliedSettled DEF ParkedOnADictation
<1>1. CASE HandleStart
  BY <1>0, <1>1, StopsStart DEF HandleStart, ParkedOnADictation
<1>2. CASE HandleStop
  <2>1. CASE FinalizeRecording(c, TRUE)
    BY <1>2, <2>1, StopsFinalize DEF HandleStop
  <2>2. CASE pipeline # None /\ UNCHANGED <<pipeline, client, actor>>
    BY <2>2 DEF ParkedOnADictation, SettledReplies
  <2>3. CASE recording = None /\ pipeline = None /\ OnlyReply(c, event)
    <3>1. Settled(event)
      BY <1>2, <2>3 DEF HandleStop, StateMatchesActivity, Settled
    <3> QED BY <1>2, <1>r, <2>3, <3>1 DEF HandleStop, OnlyReply, dictation
  <2> QED BY <1>2, <2>1, <2>2, <2>3 DEF HandleStop, dictation
<1>3. CASE HandleToggle
  <2>1. CASE FinalizeRecording(c, FALSE)
    BY <1>3, <2>1, StopsFinalize DEF HandleToggle
  <2>2. CASE StartRecording(c)
    BY <1>0, <1>3, <2>2, StopsStart DEF HandleToggle, ParkedOnADictation
  <2>3. CASE OnlyReply(c, event)
    BY <1>3, <1>r, <2>3 DEF HandleToggle, OnlyReply, dictation
  <2> QED BY <1>3, <2>1, <2>2, <2>3 DEF HandleToggle
<1>4. CASE HandleCancel
  <2>1. CASE BeginCancel(c)
    BY <1>4, <2>1, StopsBeginCancel DEF HandleCancel
  <2>2. CASE OnlyReply(c, event) /\ UNCHANGED actor
    BY <1>4, <1>r, <2>2 DEF HandleCancel, OnlyReply, dictation
  <2> QED BY <1>4, <2>1, <2>2 DEF HandleCancel
<1>5. CASE FinishCancel
  <2> DEFINE ev == IF cancelReply = "active" THEN Ev("Canceling") ELSE QuiescentEvent
             shownEvent == Notify(ev, "canceled")
  <2>1. ev.state \in {"Canceling", "Loading", "Idle", "Error"} /\ ev \in Event
    BY <1>0, EventFields, EventTypes, QuiescentFields, QuiescentEventType, ModelEventFields
    DEF TypeOK, State
  <2> HIDE DEF ev
  <2>2. Settled(shownEvent) /\ Settled(ErrorEv(shownEvent.state, "dictation_canceled"))
    BY <2>1, EventFields DEF Notify, Settled, Event
  <2>3. client' = [d \in Clients |->
                     IF d = cancelJob.by THEN Answer(client[d], shownEvent)
                     ELSE Resolved(ErrorEv(shownEvent.state, "dictation_canceled"))[d]]
        /\ waiters' = {}
    BY <1>5 DEF FinishCancel, ev
  <2> HIDE DEF shownEvent
  <2> QED
    BY <1>0, <2>2, <2>3, AnswerFields
    DEF ParkedOnADictation, SettledReplies, Resolved, TypeOK
<1>6. CASE HandleShutdown
  <2>1. CASE BeginCancel(Nobody)
    BY <1>6, <2>1, StopsBeginCancel DEF HandleShutdown
  <2>2. CASE NothingToCancel /\ UNCHANGED <<waiters, client, dictation>>
    BY <1>6, <2>2
    DEF HandleShutdown, NothingToCancel, Lifecycle, OneActivity, ParkedOnADictation,
        SettledReplies, dictation
  <2> QED BY <1>6, <2>1, <2>2 DEF HandleShutdown
<1>7. CASE HandleConfigure
  <2>1. /\ UNCHANGED <<waiters, pipeline, actor>> /\ client[c].op # "stop"
        /\ \E ev : ReplyTo(c, ev)
    BY <1>7 DEF HandleConfigure, OnlyReply, dictation
  <2> QED BY <1>r, <2>1
<1>8. CASE \/ HandleProgress \/ HandlePreview \/ HandleLevel
           \/ HandleCancellationFinished \/ HandleModelStatus
  <2>1. UNCHANGED <<waiters, pipeline, actor, client>>
    BY <1>8
    DEF HandleProgress, HandlePreview, HandleLevel, HandleCancellationFinished,
        HandleModelStatus, sessions, dictation
  <2> QED BY <2>1, StopsStutter
<1>9. CASE HandleCaptureEnded
  <2>1. CASE FinalizeRecording(Nobody, FALSE)
    BY <1>9, <2>1, StopsFinalize DEF HandleCaptureEnded
  <2>2. CASE UNCHANGED <<waiters, pipeline, actor, client>>
    BY <2>2, StopsStutter
  <2> QED BY <1>9, <2>1, <2>2 DEF HandleCaptureEnded, dictation
<1>10. CASE HandleCompleted
  <2>1. CASE PipelineIdentityMatches(Head(inbox).gen)
    <3>1. /\ event' = CompletionEvent(Head(inbox).gen, Head(inbox).result)
          /\ waiters' = {} /\ client' = Resolved(event')
      BY <1>10, <2>1 DEF HandleCompleted
    <3>2. Head(inbox).result \in {"delivered", "undelivered", "failed"}
      BY <1>0, <1>10, Taking, MessageFields DEF HandleCompleted
    <3>3. Settled(event')
      <4>1. QuiescentEvent.state \in {"Canceling", "Loading", "Idle", "Error"}
        BY <1>0, QuiescentFields, ModelEventFields DEF TypeOK
      <4> QED BY <1>0, <3>1, <3>2, <4>1, EventFields, QuiescentFields DEF CompletionEvent, Settled
    <3> QED BY <1>0, <3>1, <3>3, ResolvedSettled DEF ParkedOnADictation
  <2>2. CASE UNCHANGED <<waiters, pipeline, actor, client>>
    BY <2>2, StopsStutter
  <2> QED BY <1>10, <2>1, <2>2 DEF HandleCompleted, dictation
<1> QED
  BY <1>1, <1>2, <1>3, <1>4, <1>5, <1>6, <1>7, <1>8, <1>9, <1>10 DEF ActorNext

\* A Stop is parked only on a dictation whose end answers it, and is never told of
\* a dictation still under way.
THEOREM StopsWaitForTheEnd == Spec => []StopWaitsForTheEnd
<1> DEFINE Inv == ParkedOnADictation /\ SettledReplies
<1>1. Init => Inv
  BY DEF Init, ParkedOnADictation, SettledReplies, IdleClient
<1>2. Lifecycle /\ StateMatchesActivity /\ Inv /\ [Next]_vars => Inv'
  <2> SUFFICES ASSUME Lifecycle, StateMatchesActivity, Inv, [Next]_vars
               PROVE  Inv'
    OBVIOUS
  <2>1. ASSUME NEW d \in Clients, NEW op, IssueCommand(d, op)
        PROVE  Inv'
    BY <2>1
    DEF IssueCommand, ParkedOnADictation, SettledReplies, dictation, Lifecycle, TypeOK
  <2>2. CASE ActorNext
    BY <2>2, StopsActor
  <2>3. CASE SignalShutdown \/ TaskNext \/ (ServiceNext /\ UNCHANGED daemonVars)
    <3>1. UNCHANGED <<waiters, client>>
      BY <2>3, TasksPost DEF Lifecycle, SignalShutdown, daemonVars, actorState, sessions
    <3>2. UNCHANGED <<pipeline, actor>>
      BY <2>3, OthersKeepCycle DEF cycle
    <3> QED BY <3>1, <3>2, StopsStutter
  <2>4. CASE UNCHANGED vars
    <3>1. UNCHANGED <<waiters, pipeline, actor, client>>
      BY <2>4 DEF vars, sessions, dictation
    <3> QED BY <3>1, StopsStutter
  <2> QED BY <2>1, <2>2, <2>3, <2>4 DEF Next
<1>3. Inv => StopWaitsForTheEnd
  BY DEF ParkedOnADictation, SettledReplies, Settled, StopWaitsForTheEnd
<1> QED BY <1>1, <1>2, <1>3, LifecycleInvariant, DisplayMatchesActivity, PTL DEF Spec
-------------------------------------------------------------------------------
(* Messages that come late *)

\* A pipeline task works for the pipeline on record, and its completion is the last
\* thing it sends; a completion is never that of a recording that is still running.
PipelineHasItsTask ==
  /\ task.phase # "none" => pipeline # None /\ task.gen = pipeline
  /\ \A m \in Mail :
       m.kind = "completed" =>
         /\ m.gen <= generation /\ m.gen # recording
         /\ m.gen = pipeline => task.phase = "none"

\* A capture end is sent by a level loop that ends with it, so none in the mailbox
\* is that of a recording whose loop goes on.
CaptureEndsEndTheirLoop ==
  /\ \A g \in Generations :
       levelLoop[g] = "on" \/ <<"level", g>> \in dying => g <= generation
  /\ \A m \in Mail :
       m.kind = "captureEnded" => m.gen <= generation /\ levelLoop[m.gen] = "off"

Late == PipelineHasItsTask /\ CaptureEndsEndTheirLoop

LEMMA MailTypes ==
  ASSUME TypeOK
  PROVE  \A m \in Mail :
           /\ m \in Message
           /\ m.kind \in {"completed", "captureEnded"} => m.gen \in Generations /\ m.gen # None
<1>1. \A m \in Mail : m \in Message
  BY DEF Mail, TypeOK
<1> QED BY <1>1, MessageFields DEF Generations, None

\* No step of the actor posts a message.
LEMMA ActorPostsNothing ==
  ASSUME TypeOK, ActorNext
  PROVE  Mail' \subseteq Mail
<1>1. UNCHANGED inbox \/ \E kind : Receive(kind)
  BY DEF ActorNext, HandleStart, HandleStop, HandleToggle, HandleCancel, FinishCancel,
         HandleShutdown, HandleConfigure, HandleProgress, HandlePreview, HandleLevel,
         HandleCaptureEnded, HandleCompleted, HandleCancellationFinished, HandleModelStatus
<1>2. CASE UNCHANGED inbox
  BY <1>2 DEF Mail
<1>3. CASE \E kind : Receive(kind)
  BY <1>3, Taken
<1> QED BY <1>1, <1>2, <1>3

\* A step that neither starts nor ends anything, and posts nothing of consequence.
LEMMA LateStutter ==
  ASSUME Late,
         UNCHANGED <<recording, pipeline, generation, task, levelLoop, dying>>,
         \A m \in Mail' : m \in Mail \/ m.kind \notin {"completed", "captureEnded"}
  PROVE  Late'
  BY DEF Late, PipelineHasItsTask, CaptureEndsEndTheirLoop

LEMMA LateStart ==
  ASSUME Lifecycle, Late, NEW c, StartRecording(c), Mail' \subseteq Mail
  PROVE  Late'
<1>1. CASE OpenMicrophone(c) /\ ~Busy
  <2>1. generation' = generation + 1 /\ recording' = generation + 1 /\ generation \in Nat
    BY <1>1 DEF OpenMicrophone, Lifecycle, TypeOK
  <2>2. \A m \in Mail : m.kind \in {"completed", "captureEnded"} => m.gen \in Nat
    BY MailTypes DEF Lifecycle, Generations
  <2>3. PipelineHasItsTask'
    BY <1>1, <2>1, <2>2 DEF OpenMicrophone, Late, PipelineHasItsTask
  <2>4. CaptureEndsEndTheirLoop'
    BY <1>1, <2>1, <2>2
    DEF OpenMicrophone, Late, CaptureEndsEndTheirLoop, Lifecycle, TypeOK, Generations
  <2> QED BY <2>3, <2>4 DEF Late
<1>2. CASE MicrophoneFails(c) \/ \E ev : OnlyReply(c, ev)
  BY <1>2, LateStutter DEF MicrophoneFails, OnlyReply, dictation, loops
<1> QED BY <1>1, <1>2 DEF StartRecording

\* Aborting the loops of a recording ends its life as far as the mailbox goes.
LEMMA LateLoopsAborted ==
  ASSUME Lifecycle, CaptureEndsEndTheirLoop, recording # None,
         dying' = dying \cup Alive(recording), UNCHANGED <<levelLoop, generation>>,
         Mail' \subseteq Mail
  PROVE  CaptureEndsEndTheirLoop'
<1>1. recording <= generation
  BY DEF Lifecycle, OneActivity, TypeOK
<1>2. \A g : <<"level", g>> \in Alive(recording) => g = recording
  BY DEF Alive
<1> QED BY <1>1, <1>2 DEF CaptureEndsEndTheirLoop

LEMMA LateFinalize ==
  ASSUME Lifecycle, Late, NEW c, NEW parks, FinalizeRecording(c, parks), Mail' \subseteq Mail
  PROVE  Late'
<1>1. /\ recording # None /\ pipeline = None /\ task.phase = "none"
      /\ recording' = None
  BY DEF FinalizeRecording, Lifecycle, OneActivity, Late, PipelineHasItsTask
<1>2. CaptureEndsEndTheirLoop'
  BY LateLoopsAborted DEF FinalizeRecording, Late
<1>3. PipelineHasItsTask'
  <2>1. \A m \in Mail' : m.kind = "completed" =>
          m.gen <= generation' /\ m.gen # recording' /\ m.gen # recording
    BY <1>1, MailTypes DEF FinalizeRecording, Late, PipelineHasItsTask, Lifecycle
  <2>2. \A m \in Mail' : m.kind = "completed" => m.gen # None
    BY MailTypes DEF Lifecycle
  <2> QED BY <1>1, <2>1, <2>2 DEF FinalizeRecording, PipelineHasItsTask
<1> QED BY <1>2, <1>3 DEF Late

\* cancel() takes the task away with its pipeline.
LEMMA LateBeginCancel ==
  ASSUME Lifecycle, Late, NEW c, BeginCancel(c), Mail' \subseteq Mail
  PROVE  Late'
<1>0. \A m \in Mail' : m.kind = "completed" => m.gen # None
  BY MailTypes DEF Lifecycle
<1>1. CASE recording # None /\ AbortRecording(c)
  <2>1. CaptureEndsEndTheirLoop'
    BY <1>1, LateLoopsAborted DEF BeginCancel, AbortRecording, Late
  <2>2. PipelineHasItsTask'
    BY <1>0, <1>1 DEF BeginCancel, AbortRecording, Late, PipelineHasItsTask
  <2> QED BY <2>1, <2>2 DEF Late
<1>2. CASE recording = None /\ pipeline # None /\ AbortPipeline(c)
  BY <1>0, <1>2
  DEF BeginCancel, AbortPipeline, NoTask, Late, PipelineHasItsTask, CaptureEndsEndTheirLoop
<1> QED BY <1>1, <1>2 DEF BeginCancel

LEMMA LateActor ==
  ASSUME Lifecycle, Late, ActorNext
  PROVE  Late'
<1> DEFINE c == Head(inbox).client
           Frame == UNCHANGED <<recording, pipeline, generation, task, levelLoop, dying>>
<1>0. TypeOK /\ Mail' \subseteq Mail
  BY ActorPostsNothing DEF Lifecycle
<1>s. ASSUME Frame
      PROVE  Late'
  BY <1>0, <1>s, LateStutter
<1>1. CASE \E d : StartRecording(d)
  BY <1>0, <1>1, LateStart
<1>2. CASE \E d, parks : FinalizeRecording(d, parks)
  BY <1>0, <1>2, LateFinalize
<1>3. CASE \E d : BeginCancel(d)
  BY <1>0, <1>3, LateBeginCancel
<1>4. CASE HandleCompleted
  <2>1. CASE PipelineIdentityMatches(Head(inbox).gen)
    <3>1. Head(inbox) \in Mail /\ Head(inbox).kind = "completed"
      BY <1>0, <1>4, Taken DEF HandleCompleted, Receive
    <3>2. task.phase = "none"
      BY <2>1, <3>1 DEF PipelineIdentityMatches, Late, PipelineHasItsTask
    <3>3. /\ pipeline' = None
          /\ UNCHANGED <<recording, generation, task, levelLoop, dying>>
      BY <1>4, <2>1 DEF HandleCompleted, loops
    <3>4. \A m \in Mail' : m.kind = "completed" => m.gen # None
      BY <1>0, MailTypes
    <3> QED
      BY <1>0, <3>2, <3>3, <3>4 DEF Late, PipelineHasItsTask, CaptureEndsEndTheirLoop
  <2>2. CASE ~PipelineIdentityMatches(Head(inbox).gen)
    BY <1>4, <1>s, <2>2 DEF HandleCompleted, dictation, loops
  <2> QED BY <2>1, <2>2
<1>5. CASE \/ HandleStart \/ HandleStop \/ HandleToggle \/ HandleCancel \/ HandleShutdown
           \/ HandleConfigure \/ HandleCaptureEnded
  BY <1>1, <1>2, <1>3, <1>5, <1>s
  DEF HandleStart, HandleStop, HandleToggle, HandleCancel, HandleShutdown, HandleConfigure,
      HandleCaptureEnded, OnlyReply, dictation, loops
<1>6. CASE \/ FinishCancel \/ HandleProgress \/ HandlePreview \/ HandleLevel
           \/ HandleCancellationFinished \/ HandleModelStatus
  BY <1>6, <1>s
  DEF FinishCancel, HandleProgress, HandlePreview, HandleLevel, HandleCancellationFinished,
      HandleModelStatus, dictation, loops
<1> QED BY <1>4, <1>5, <1>6 DEF ActorNext

LEMMA LatePipeline ==
  ASSUME Lifecycle, Late,
         \/ PipelineSubmits \/ PipelineHears \/ PipelineAnnouncesRefining
         \/ PipelineDelivers \/ PipelineReports
  PROVE  Late'
<1> USE DEF actorState, dictation, loops
<1>0. /\ TypeOK /\ task.phase # "none" /\ pipeline # None /\ task.gen = pipeline
      /\ UNCHANGED <<recording, pipeline, generation, levelLoop, dying>>
      /\ pipeline = generation /\ recording = None
  BY DEF PipelineSubmits, PipelineHears, PipelineAnnouncesRefining, PipelineDelivers,
         PipelineReports, Late, PipelineHasItsTask, Lifecycle, OneActivity
<1>1. CASE PipelineReports
  <2> DEFINE m == [kind |-> "completed", gen |-> task.gen, result |-> task.result]
  <2>1. m \in Message
    BY <1>0, <1>1 DEF PipelineReports, TypeOK, Task, Message
  <2>2. Mail' = Mail \cup {m} /\ task' = NoTask
    BY <1>0, <1>1, <2>1, Posted DEF PipelineReports
  <2>3. PipelineHasItsTask'
    BY <1>0, <2>2 DEF Late, PipelineHasItsTask, NoTask, Lifecycle, TypeOK
  <2> QED BY <1>0, <2>2, <2>3 DEF Late, CaptureEndsEndTheirLoop
<1>2. CASE ~PipelineReports
  <2>1. /\ task'.phase # "none" /\ task'.gen = pipeline
        /\ \A m \in Mail' : m \in Mail \/ m.kind = "progress"
    <3>1. CASE PipelineAnnouncesRefining
      <4>1. [kind |-> "progress", gen |-> task.gen] \in Message
        BY <1>0, <3>1 DEF TypeOK, Task, Message
      <4> QED BY <1>0, <3>1, <4>1, Posted DEF PipelineAnnouncesRefining, TypeOK, Task
    <3>2. CASE ~PipelineAnnouncesRefining
      <4>0. task \in Task
        BY <1>0 DEF TypeOK
      <4>1. UNCHANGED inbox
        BY <1>2, <3>2 DEF PipelineSubmits, PipelineHears, PipelineDelivers
      <4>2. task'.phase # "none" /\ task'.gen = pipeline
        BY <1>0, <1>2, <3>2, <4>0 DEF PipelineSubmits, PipelineHears, PipelineDelivers, Task
      <4> QED BY <4>1, <4>2 DEF Mail
    <3> QED BY <3>1, <3>2
  <2>2. PipelineHasItsTask'
    BY <1>0, <2>1 DEF Late, PipelineHasItsTask
  <2> QED BY <1>0, <2>1, <2>2 DEF Late, CaptureEndsEndTheirLoop
<1> QED BY <1>1, <1>2

\* The level loop of a recording: its capture end is the last thing it sends.
LEMMA LateLevelLoop ==
  ASSUME Lifecycle, Late, NEW g \in Generations,
         LevelReports(g) \/ CaptureEnds(g) \/ LevelLastPoll(g)
  PROVE  Late'
<1> USE DEF actorState, dictation, loops
<1>0. /\ TypeOK /\ g <= generation
      /\ UNCHANGED <<recording, pipeline, generation, task>>
  BY DEF LevelReports, CaptureEnds, LevelLastPoll, Late, CaptureEndsEndTheirLoop, Lifecycle
<1>1. \A kind \in {"level", "captureEnded"} : [kind |-> kind, gen |-> g] \in Message
  BY DEF Message
<1>2. /\ dying' \subseteq dying
      /\ \/ UNCHANGED levelLoop /\ Post([kind |-> "level", gen |-> g])
         \/ /\ levelLoop' = [levelLoop EXCEPT ![g] = "off"]
            /\ \/ Post([kind |-> "captureEnded", gen |-> g])
               \/ Post([kind |-> "level", gen |-> g])
               \/ UNCHANGED inbox
  BY DEF LevelReports, CaptureEnds, LevelLastPoll
<1>3. \A m \in Mail' :
        \/ m \in Mail
        \/ m.kind = "level"
        \/ m.kind = "captureEnded" /\ m.gen = g /\ levelLoop'[g] = "off"
  <2>1. CASE UNCHANGED inbox
    BY <2>1 DEF Mail
  <2>2. CASE Post([kind |-> "level", gen |-> g])
    BY <1>0, <1>1, <2>2, Posted
  <2>3. CASE Post([kind |-> "captureEnded", gen |-> g])
             /\ levelLoop' = [levelLoop EXCEPT ![g] = "off"]
    BY <1>0, <1>1, <2>3, Posted DEF TypeOK
  <2> QED BY <1>2, <2>1, <2>2, <2>3
<1>4. \A h \in Generations : levelLoop'[h] \in {levelLoop[h], "off"}
  BY <1>0, <1>2 DEF TypeOK
<1>5. PipelineHasItsTask'
  BY <1>0, <1>3 DEF Late, PipelineHasItsTask
<1>6. CaptureEndsEndTheirLoop'
  BY <1>0, <1>2, <1>3, <1>4, MailTypes DEF Late, CaptureEndsEndTheirLoop
<1> QED BY <1>5, <1>6 DEF Late

LEMMA LateOtherTasks ==
  ASSUME Lifecycle, Late,
         \/ \E g \in Generations :
              \/ PreviewAsks(g) \/ PreviewStops(g) \/ PreviewHears(g) \/ PreviewReports(g)
              \/ PreviewLastPoll(g) \/ RestartSeen(g) \/ RestartReported(g)
         \/ WatcherBorrows \/ WatcherReports
  PROVE  Late'
<1> USE DEF actorState, dictation, loops
<1>0. TypeOK
  BY DEF Lifecycle
<1>1. ASSUME NEW g \in Generations,
             \/ PreviewAsks(g) \/ PreviewStops(g) \/ PreviewHears(g) \/ RestartSeen(g)
      PROVE  Late'
  <2>1. /\ UNCHANGED <<recording, pipeline, generation, task, levelLoop, dying>>
        /\ Mail' = Mail
    BY <1>1 DEF PreviewAsks, PreviewStops, PreviewHears, RestartSeen, Mail
  <2> QED BY <2>1, LateStutter
<1>2. ASSUME NEW g \in Generations,
             PreviewReports(g) \/ PreviewLastPoll(g) \/ RestartReported(g)
      PROVE  Late'
  <2>1. \A kind \in {"preview", "cancellationFinished"} :
          [kind |-> kind, gen |-> g] \in Message
    BY DEF Message
  <2>2. \/ UNCHANGED inbox
        \/ Post([kind |-> "preview", gen |-> g])
        \/ Post([kind |-> "cancellationFinished", gen |-> g])
    BY <1>2 DEF PreviewReports, PreviewLastPoll, RestartReported
  <2>3. \A m \in Mail' : m \in Mail \/ m.kind \notin {"completed", "captureEnded"}
    <3>1. CASE UNCHANGED inbox
      BY <3>1 DEF Mail
    <3>2. CASE Post([kind |-> "preview", gen |-> g])
      BY <1>0, <2>1, <3>2, Posted
    <3>3. CASE Post([kind |-> "cancellationFinished", gen |-> g])
      BY <1>0, <2>1, <3>3, Posted
    <3> QED BY <2>2, <3>1, <3>2, <3>3
  <2>4. /\ UNCHANGED <<recording, pipeline, generation, task, levelLoop>>
        /\ \A h : <<"level", h>> \in dying' <=> <<"level", h>> \in dying
    BY <1>2 DEF PreviewReports, PreviewLastPoll, RestartReported
  <2> QED BY <2>3, <2>4 DEF Late, PipelineHasItsTask, CaptureEndsEndTheirLoop
<1>3. CASE WatcherBorrows
  BY <1>3, LateStutter DEF WatcherBorrows, Mail
<1>4. CASE WatcherReports
  <2>1. [kind |-> "modelStatus", status |-> watcher] \in Message
    BY <1>4 DEF WatcherReports, Message
  <2>2. \A m \in Mail' : m \in Mail \/ m.kind = "modelStatus"
    BY <1>0, <1>4, <2>1, Posted DEF WatcherReports
  <2> QED BY <1>4, <2>2, LateStutter DEF WatcherReports
<1> QED BY <1>1, <1>2, <1>3, <1>4

LEMMA LateNext ==
  ASSUME Lifecycle, Late, [Next]_vars
  PROVE  Late'
<1>0. TypeOK
  BY DEF Lifecycle
<1>1. ASSUME NEW c \in Clients, NEW op, IssueCommand(c, op)
      PROVE  Late'
  <2>1. [kind |-> "command", client |-> c] \in Message
    BY DEF Message
  <2>2. \A m \in Mail' : m \in Mail \/ m.kind = "command"
    BY <1>0, <1>1, <2>1, Posted DEF IssueCommand
  <2> QED BY <1>1, <2>2, LateStutter DEF IssueCommand, dictation, loops
<1>2. CASE SignalShutdown
  <2>1. [kind |-> "shutdown"] \in Message
    BY DEF Message
  <2>2. \A m \in Mail' : m \in Mail \/ m.kind = "shutdown"
    BY <1>0, <1>2, <2>1, Posted DEF SignalShutdown
  <2> QED BY <1>2, <2>2, LateStutter DEF SignalShutdown, dictation, loops
<1>3. CASE ActorNext
  BY <1>3, LateActor
<1>4. CASE TaskNext
  BY <1>4, LatePipeline, LateLevelLoop, LateOtherTasks DEF TaskNext
<1>5. CASE ServiceNext /\ UNCHANGED daemonVars
  <2>1. UNCHANGED <<recording, pipeline, generation, task, levelLoop, dying, inbox>>
    BY <1>5 DEF daemonVars, actorState, dictation, loops
  <2> QED BY <2>1, LateStutter DEF Mail
<1>6. CASE UNCHANGED vars
  <2>1. UNCHANGED <<recording, pipeline, generation, task, levelLoop, dying, inbox>>
    BY <1>6 DEF vars, dictation, loops
  <2> QED BY <2>1, LateStutter DEF Mail
<1> QED BY <1>1, <1>2, <1>3, <1>4, <1>5, <1>6 DEF Next

LEMMA LateInvariant == Spec => [](Lifecycle /\ Late)
<1>1. Init => Late
  BY DEF Init, Late, PipelineHasItsTask, CaptureEndsEndTheirLoop, NoTask, Mail
<1>2. Lifecycle /\ Late /\ [Next]_vars => Late'
  BY LateNext
<1> QED BY <1>1, <1>2, LifecycleInvariant, PTL DEF Spec

\* Once a cancellation is published, nothing of that dictation is delivered any more:
\* the pipeline was aborted and awaited first, so a task that delivers belongs to the
\* open dictation.
THEOREM NothingAfterCancel == Spec => SilentAfterCancel
<1>1. Lifecycle /\ Late /\ [Next]_vars =>
        [\A g \in Generations :
           outcome[g] = "canceled" /\ g \in output' => g \in output]_vars
  <2> SUFFICES ASSUME Lifecycle, Late, Next, NEW g \in Generations,
                      outcome[g] = "canceled", g \in output', g \notin output
               PROVE  FALSE
    BY DEF vars, history
  <2>1. PipelineDelivers
    <3> USE DEF history
    <3>1. ~ActorNext
      BY DEF ActorNext, HandleStart, HandleStop, HandleToggle, HandleCancel, FinishCancel,
             HandleShutdown, HandleConfigure, HandleProgress, HandlePreview, HandleLevel,
             HandleCaptureEnded, HandleCompleted, HandleCancellationFinished,
             HandleModelStatus
    <3>2. ~SignalShutdown /\ ~\E c \in Clients, op \in Commands \cap Operation : IssueCommand(c, op)
      BY DEF SignalShutdown, IssueCommand
    <3>3. ~(ServiceNext /\ UNCHANGED daemonVars)
      BY DEF daemonVars
    <3>4. TaskNext => PipelineDelivers
      BY DEF TaskNext, PipelineSubmits, PipelineHears, PipelineAnnouncesRefining,
             PipelineReports, PreviewAsks, PreviewStops, PreviewHears, PreviewReports,
             LevelReports, CaptureEnds, PreviewLastPoll, LevelLastPoll, RestartSeen,
             RestartReported, WatcherBorrows, WatcherReports
    <3> QED BY <3>1, <3>2, <3>3, <3>4 DEF Next
  <2>2. g = task.gen /\ task.phase # "none"
    BY <2>1 DEF PipelineDelivers
  <2>3. outcome[pipeline] = "open" /\ g = pipeline
    BY <2>2 DEF Late, PipelineHasItsTask, Lifecycle, NoDictationForgotten, TypeOK
  <2> QED BY <2>3
<1> QED BY <1>1, LateInvariant, PTL DEF Spec, SilentAfterCancel

\* A recording that no client ended has ended its capture itself: the capture end of
\* an earlier recording, however late, does not cut the next one short.
THEOREM RecordingsRunTheirCourse == Spec => NotCutShort
<1>1. Lifecycle /\ Late /\ [Next]_vars =>
        [recording # None /\ recording' = None
           /\ Head(inbox).kind \notin {"command", "shutdown"}
         => levelLoop[recording] = "off"]_vars
  <2> SUFFICES ASSUME Lifecycle, Late, Next, recording # None, recording' = None,
                      Head(inbox).kind \notin {"command", "shutdown"}
               PROVE  levelLoop[recording] = "off"
    OBVIOUS
  <2>1. ActorNext
    BY OthersKeepCycle DEF Next, cycle
  <2>2. HandleCaptureEnded
    BY <2>1
    DEF ActorNext, HandleStart, HandleStop, HandleToggle, HandleCancel, FinishCancel,
        HandleShutdown, HandleConfigure, HandleProgress, HandlePreview, HandleLevel,
        HandleCompleted, HandleCancellationFinished, HandleModelStatus, Receive, dictation
  <2>3. recording = Head(inbox).gen
    BY <2>2 DEF HandleCaptureEnded, dictation
  <2>4. Head(inbox) \in Mail /\ Head(inbox).kind = "captureEnded"
    BY <2>2, Taken DEF HandleCaptureEnded, Receive, Lifecycle
  <2> QED BY <2>3, <2>4 DEF Late, CaptureEndsEndTheirLoop
<1> QED BY <1>1, LateInvariant, PTL DEF Spec, NotCutShort
-------------------------------------------------------------------------------
(* A dictation from its beginning to its end *)

\* What is known of the text of a dictation: it has not left the daemon before the
\* task delivers it, the result the task reports is what became of it, and so is the
\* result in a completion that is on its way.
TextIsKnown ==
  /\ \A g \in output : g <= generation /\ g # recording
  /\ task.phase \in {"started", "transcribing", "transcribed", "refining"} =>
       task.gen \notin output
  /\ task.phase = "reporting" => (task.result = "delivered" <=> task.gen \in output)
  /\ \A m \in Mail :
       m.kind = "completed" => (m.result = "delivered" <=> m.gen \in output)

LEMMA TextStutter ==
  ASSUME TextIsKnown, UNCHANGED <<output, task, recording, generation>>,
         \A m \in Mail' : m \in Mail \/ m.kind # "completed"
  PROVE  TextIsKnown'
  BY DEF TextIsKnown

\* Only the pipeline task delivers, works and reports; what the clients, the loops,
\* the watchers and the supervisor do, leaves the text where it is.
LEMMA OthersLeaveText ==
  ASSUME TypeOK, [Next]_vars, ~ActorNext,
         ~(\/ PipelineSubmits \/ PipelineHears \/ PipelineAnnouncesRefining
           \/ PipelineDelivers \/ PipelineReports)
  PROVE  /\ UNCHANGED <<output, task>>
         /\ \A m \in Mail' : m \in Mail \/ m.kind # "completed"
<1> USE DEF actorState, dictation, history, loops
<1>1. ASSUME NEW c \in Clients, NEW op, IssueCommand(c, op)
      PROVE  /\ UNCHANGED <<output, task>>
             /\ \A m \in Mail' : m \in Mail \/ m.kind # "completed"
  <2>1. [kind |-> "command", client |-> c] \in Message
    BY DEF Message
  <2>2. Mail' = Mail \cup {[kind |-> "command", client |-> c]}
    BY <1>1, <2>1, Posted DEF IssueCommand
  <2> QED BY <1>1, <2>2 DEF IssueCommand
<1>2. ASSUME SignalShutdown
      PROVE  /\ UNCHANGED <<output, task>>
             /\ \A m \in Mail' : m \in Mail \/ m.kind # "completed"
  <2>1. [kind |-> "shutdown"] \in Message
    BY DEF Message
  <2>2. Mail' = Mail \cup {[kind |-> "shutdown"]}
    BY <1>2, <2>1, Posted DEF SignalShutdown
  <2> QED BY <1>2, <2>2 DEF SignalShutdown
<1>3. ASSUME NEW g \in Generations,
             \/ PreviewAsks(g) \/ PreviewStops(g) \/ PreviewHears(g) \/ PreviewReports(g)
             \/ LevelReports(g) \/ CaptureEnds(g)
             \/ PreviewLastPoll(g) \/ LevelLastPoll(g)
             \/ RestartSeen(g) \/ RestartReported(g)
      PROVE  /\ UNCHANGED <<output, task>>
             /\ \A m \in Mail' : m \in Mail \/ m.kind # "completed"
  <2>1. /\ UNCHANGED <<output, task>>
        /\ \/ UNCHANGED inbox
           \/ \E kind \in {"preview", "level", "captureEnded", "cancellationFinished"} :
                Post([kind |-> kind, gen |-> g])
    BY <1>3
    DEF PreviewAsks, PreviewStops, PreviewHears, PreviewReports, LevelReports, CaptureEnds,
        PreviewLastPoll, LevelLastPoll, RestartSeen, RestartReported
  <2>2. ASSUME NEW kind \in {"preview", "level", "captureEnded", "cancellationFinished"},
               Post([kind |-> kind, gen |-> g])
        PROVE  \A m \in Mail' : m \in Mail \/ m.kind # "completed"
    <3>1. [kind |-> kind, gen |-> g] \in Message
      BY DEF Message
    <3> QED BY <2>2, <3>1, Posted
  <2>3. UNCHANGED inbox => Mail' = Mail
    BY DEF Mail
  <2> QED BY <2>1, <2>2, <2>3
<1>4. ASSUME WatcherBorrows \/ WatcherReports
      PROVE  /\ UNCHANGED <<output, task>>
             /\ \A m \in Mail' : m \in Mail \/ m.kind # "completed"
  <2>1. CASE WatcherBorrows
    BY <2>1 DEF WatcherBorrows, Mail
  <2>2. CASE WatcherReports
    <3>1. [kind |-> "modelStatus", status |-> watcher] \in Message
      BY <2>2 DEF WatcherReports, Message
    <3>2. Mail' = Mail \cup {[kind |-> "modelStatus", status |-> watcher]}
      BY <2>2, <3>1, Posted DEF WatcherReports
    <3> QED BY <2>2, <3>2 DEF WatcherReports
  <2> QED BY <1>4, <2>1, <2>2
<1>5. ASSUME UNCHANGED <<output, task, inbox>>
      PROVE  /\ UNCHANGED <<output, task>>
             /\ \A m \in Mail' : m \in Mail \/ m.kind # "completed"
  BY <1>5 DEF Mail
<1>6. (ServiceNext /\ UNCHANGED daemonVars) \/ UNCHANGED vars =>
        UNCHANGED <<output, task, inbox>>
  BY DEF daemonVars, vars
<1> QED BY <1>1, <1>2, <1>3, <1>4, <1>5, <1>6 DEF Next, TaskNext

\* A new dictation has sent nothing, and a recording that goes to its pipeline neither.
LEMMA TextActor ==
  ASSUME Lifecycle, Late, TextIsKnown, ActorNext
  PROVE  TextIsKnown'
<1>0. TypeOK /\ Mail' \subseteq Mail
  BY ActorPostsNothing DEF Lifecycle
<1>1. ASSUME UNCHANGED <<output, task, recording, generation>>
      PROVE  TextIsKnown'
  BY <1>0, <1>1, TextStutter
<1>2. ASSUME NEW c, StartRecording(c), UNCHANGED output
      PROVE  TextIsKnown'
  <2>1. CASE OpenMicrophone(c)
    <3>1. generation' = generation + 1 /\ recording' = generation + 1 /\ UNCHANGED task
      BY <2>1 DEF OpenMicrophone
    <3>2. generation \in Nat /\ \A g \in output : g \in Nat
      BY <1>0 DEF TypeOK, Generations
    <3> QED BY <1>0, <1>2, <3>1, <3>2 DEF TextIsKnown
  <2>2. CASE MicrophoneFails(c) \/ \E ev : OnlyReply(c, ev)
    BY <1>1, <1>2, <2>2 DEF MicrophoneFails, OnlyReply, dictation
  <2> QED BY <1>2, <2>1, <2>2 DEF StartRecording
<1>3. ASSUME NEW c, NEW parks, FinalizeRecording(c, parks), UNCHANGED output
      PROVE  TextIsKnown'
  <2>1. /\ recording # None /\ recording' = None /\ UNCHANGED generation
        /\ \/ UNCHANGED task
           \/ task' = [gen |-> recording, phase |-> "started", result |-> "none"]
    BY <1>3 DEF FinalizeRecording
  <2>2. \A g \in output : g # None
    BY <1>0 DEF TypeOK, Generations, None
  <2> QED BY <1>0, <1>3, <2>1, <2>2 DEF TextIsKnown
<1>4. ASSUME NEW c, BeginCancel(c), UNCHANGED output
      PROVE  TextIsKnown'
  <2>1. /\ recording' \in {recording, None} /\ UNCHANGED generation
        /\ UNCHANGED task \/ task' = NoTask
    BY <1>4 DEF BeginCancel, AbortRecording, AbortPipeline
  <2>2. \A g \in output : g # None
    BY <1>0 DEF TypeOK, Generations, None
  <2> QED BY <1>0, <1>4, <2>1, <2>2 DEF TextIsKnown, NoTask
<1>5. UNCHANGED output
  BY DEF ActorNext, HandleStart, HandleStop, HandleToggle, HandleCancel, FinishCancel,
         HandleShutdown, HandleConfigure, HandleProgress, HandlePreview, HandleLevel,
         HandleCaptureEnded, HandleCompleted, HandleCancellationFinished, HandleModelStatus,
         history
<1>6. CASE \/ HandleStart \/ HandleStop \/ HandleToggle \/ HandleCancel \/ HandleShutdown
           \/ HandleConfigure \/ HandleCaptureEnded
  BY <1>1, <1>2, <1>3, <1>4, <1>5, <1>6
  DEF HandleStart, HandleStop, HandleToggle, HandleCancel, HandleShutdown, HandleConfigure,
      HandleCaptureEnded, OnlyReply, dictation
<1>7. CASE \/ FinishCancel \/ HandleProgress \/ HandlePreview \/ HandleLevel
           \/ HandleCompleted \/ HandleCancellationFinished \/ HandleModelStatus
  BY <1>1, <1>5, <1>7
  DEF FinishCancel, HandleProgress, HandlePreview, HandleLevel, HandleCompleted,
      HandleCancellationFinished, HandleModelStatus, dictation
<1> QED BY <1>6, <1>7 DEF ActorNext

LEMMA TextPipeline ==
  ASSUME Lifecycle, Late, TextIsKnown,
         \/ PipelineSubmits \/ PipelineHears \/ PipelineAnnouncesRefining
         \/ PipelineDelivers \/ PipelineReports
  PROVE  TextIsKnown'
<1> USE DEF actorState, dictation
<1>0. /\ TypeOK /\ task \in Task /\ task.phase # "none" /\ task.gen = pipeline
      /\ pipeline \in Generations /\ pipeline # None
      /\ UNCHANGED <<recording, generation>>
      /\ pipeline = generation /\ recording = None
  BY DEF PipelineSubmits, PipelineHears, PipelineAnnouncesRefining, PipelineDelivers,
         PipelineReports, Late, PipelineHasItsTask, Lifecycle, OneActivity, TypeOK
<1>1. CASE PipelineReports
  <2> DEFINE m == [kind |-> "completed", gen |-> task.gen, result |-> task.result]
  <2>1. m \in Message
    BY <1>0, <1>1 DEF PipelineReports, TypeOK, Task, Message
  <2>2. Mail' = Mail \cup {m} /\ task' = NoTask /\ UNCHANGED output
    BY <1>0, <1>1, <2>1, Posted DEF PipelineReports
  <2>3. m.kind = "completed" => (m.result = "delivered" <=> m.gen \in output)
    BY <1>1 DEF PipelineReports, TextIsKnown
  <2> HIDE DEF m
  <2> QED BY <1>0, <2>2, <2>3 DEF TextIsKnown, NoTask
<1>2. CASE PipelineAnnouncesRefining
  <2>1. [kind |-> "progress", gen |-> task.gen] \in Message
    BY <1>0 DEF Message
  <2>2. Mail' = Mail \cup {[kind |-> "progress", gen |-> task.gen]}
    BY <1>0, <1>2, <2>1, Posted DEF PipelineAnnouncesRefining
  <2>3. task.phase = "transcribed" /\ task'.phase = "refining" /\ task'.gen = task.gen
    BY <1>0, <1>2 DEF PipelineAnnouncesRefining, Task
  <2>4. UNCHANGED output
    BY <1>2 DEF PipelineAnnouncesRefining
  <2> QED BY <1>0, <2>2, <2>3, <2>4 DEF TextIsKnown
<1>3. CASE PipelineSubmits \/ PipelineHears
  <2>1. Mail' = Mail /\ UNCHANGED output
    BY <1>3 DEF PipelineSubmits, PipelineHears, Mail
  <2>2. task.gen \notin output
    BY <1>3 DEF PipelineSubmits, PipelineHears, TextIsKnown
  <2>3. /\ task'.gen = task.gen
        /\ task'.phase = "reporting" => task'.result = "failed"
    BY <1>0, <1>3 DEF PipelineSubmits, PipelineHears, Task
  <2> QED BY <1>0, <2>1, <2>2, <2>3 DEF TextIsKnown
<1>4. CASE PipelineDelivers
  <2>1. Mail' = Mail
    BY <1>4 DEF PipelineDelivers, Mail
  <2>2. task.gen \notin output
    BY <1>4 DEF PipelineDelivers, TextIsKnown
  <2>3. /\ task'.gen = task.gen /\ task'.phase = "reporting"
        /\ \/ task'.result = "delivered" /\ output' = output \cup {task.gen}
           \/ task'.result = "undelivered" /\ UNCHANGED output
    BY <1>0, <1>4 DEF PipelineDelivers, Task
  <2>4. \A m \in Mail : m.kind = "completed" => m.gen # task.gen
    BY <1>0 DEF Late, PipelineHasItsTask
  <2>5. generation <= generation
    BY <1>0 DEF TypeOK
  <2> QED BY <1>0, <2>1, <2>2, <2>3, <2>4, <2>5 DEF TextIsKnown
<1> QED BY <1>1, <1>2, <1>3, <1>4

LEMMA TextInvariant == Spec => [](Lifecycle /\ Late /\ TextIsKnown)
<1>1. Init => TextIsKnown
  BY DEF Init, TextIsKnown, NoTask, Mail
<1>2. Lifecycle /\ Late /\ TextIsKnown /\ [Next]_vars => TextIsKnown'
  <2> SUFFICES ASSUME Lifecycle, Late, TextIsKnown, [Next]_vars
               PROVE  TextIsKnown'
    OBVIOUS
  <2>1. CASE ActorNext
    BY <2>1, TextActor
  <2>2. CASE \/ PipelineSubmits \/ PipelineHears \/ PipelineAnnouncesRefining
             \/ PipelineDelivers \/ PipelineReports
    BY <2>2, TextPipeline
  <2>3. CASE /\ ~ActorNext
             /\ ~(\/ PipelineSubmits \/ PipelineHears \/ PipelineAnnouncesRefining
                  \/ PipelineDelivers \/ PipelineReports)
    <3>1. /\ UNCHANGED <<output, task>>
          /\ \A m \in Mail' : m \in Mail \/ m.kind # "completed"
      BY <2>3, OthersLeaveText DEF Lifecycle
    <3>2. UNCHANGED <<recording, generation>>
      BY <2>3, OthersKeepCycle DEF Next, cycle, vars, dictation
    <3> QED BY <3>1, <3>2, TextStutter
  <2> QED BY <2>1, <2>2, <2>3
<1> QED BY <1>1, <1>2, LateInvariant, PTL DEF Spec

\* The actions of DictationLife, in the daemon's variables.
LEMMA PromisedBegin ==
  ASSUME NEW g \in Generations, outcome[g] = "none",
         \A h \in Generations : h < g => outcome[h] \notin {"none", "open"},
         TypeOK, outcome' = [outcome EXCEPT ![g] = "open"],
         event'.transcript = None, UNCHANGED <<output, latest>>
  PROVE  Life!Next
<1>1. Life!Begin(g)
  BY DEF Life!Begin, Life!Over, Life!Dictations, Life!None, None, Generations, TypeOK
<1> QED BY <1>1 DEF Life!Next, Life!Dictations, Generations

LEMMA PromisedSend ==
  ASSUME NEW g \in Generations, outcome[g] = "open", g \notin output,
         output' = output \cup {g}, UNCHANGED <<outcome, latest, event>>
  PROVE  Life!Next
<1>1. Life!Send(g)
  BY DEF Life!Send
<1> QED BY <1>1 DEF Life!Next, Life!Dictations, Generations

LEMMA PromisedResult ==
  ASSUME NEW g \in Generations, NEW how \in {"delivered", "undelivered"},
         outcome[g] = "open", how = "delivered" <=> g \in output,
         outcome' = [outcome EXCEPT ![g] = how],
         latest' = g, event'.transcript = g, UNCHANGED output
  PROVE  Life!Next
<1>1. Life!EndsWithResult(g, how)
  BY DEF Life!EndsWithResult
<1> QED BY <1>1 DEF Life!Next, Life!Dictations, Generations

LEMMA PromisedEnd ==
  ASSUME NEW g \in Generations, NEW how \in {"failed", "canceled"},
         outcome[g] = "open", how = "failed" => g \notin output,
         outcome' = [outcome EXCEPT ![g] = how],
         event'.transcript = None, UNCHANGED <<output, latest>>
  PROVE  Life!Next
<1>1. Life!Fails(g) \/ Life!IsCanceled(g)
  BY DEF Life!Fails, Life!IsCanceled, Life!None, None
<1> QED BY <1>1 DEF Life!Next, Life!Dictations, Generations

\* A step that begins and ends no dictation and delivers nothing.
LEMMA PromisedStutter ==
  ASSUME UNCHANGED <<outcome, output, latest>>,
         event'.transcript \in {event.transcript, None}
  PROVE  [Life!Next]_Life!vars
<1>1. CASE event'.transcript = event.transcript
  BY <1>1 DEF Life!vars
<1>2. CASE event'.transcript = None
  BY <1>2 DEF Life!Next, Life!Dismiss, Life!None, None
<1> QED BY <1>1, <1>2

\* Start: the new dictation begins, after the end of all earlier ones.
LEMMA PromisedStart ==
  ASSUME Lifecycle, NEW c, StartRecording(c), actor = "ready", UNCHANGED output
  PROVE  [Life!Next]_Life!vars
<1>0. TypeOK
  BY DEF Lifecycle
<1>1. CASE ~Busy /\ OpenMicrophone(c)
  <2>1. generation + 1 \in Generations
    BY <1>0, <1>1, MaxGenerationAssumption DEF OpenMicrophone, TypeOK, Generations
  <2>2. outcome[generation + 1] = "none"
    BY <1>0, <2>1 DEF Lifecycle, NoDictationForgotten, TypeOK
  <2>3. \A h \in Generations : h < generation + 1 => outcome[h] \notin {"none", "open"}
    BY <1>0, <1>1
    DEF Lifecycle, NoDictationForgotten, Busy, Suspended, TypeOK, Generations, None
  <2>4. /\ outcome' = [outcome EXCEPT ![generation + 1] = "open"]
        /\ event'.transcript = None /\ UNCHANGED latest
    BY <1>1, EventFields DEF OpenMicrophone
  <2> QED BY <1>0, <2>1, <2>2, <2>3, <2>4, PromisedBegin
<1>2. CASE MicrophoneFails(c)
  BY <1>2, EventFields, PromisedStutter DEF MicrophoneFails
<1>3. CASE \E ev : OnlyReply(c, ev)
  BY <1>3, PromisedStutter DEF OnlyReply, shown
<1> QED BY <1>1, <1>2, <1>3 DEF StartRecording

\* Stop: the dictation goes on in its pipeline or has failed.
LEMMA PromisedFinalize ==
  ASSUME Lifecycle, TextIsKnown, NEW c, NEW parks, FinalizeRecording(c, parks),
         UNCHANGED output
  PROVE  [Life!Next]_Life!vars
<1>1. recording \in Generations /\ outcome[recording] = "open" /\ recording \notin output
  BY DEF FinalizeRecording, Lifecycle, NoDictationForgotten, TypeOK, TextIsKnown
<1>2. CASE outcome' = [outcome EXCEPT ![recording] = "failed"]
           /\ event' = ErrorEv("Error", "microphone_finish_failed")
  <2>1. event'.transcript = None /\ UNCHANGED latest
    BY <1>2, EventFields DEF FinalizeRecording
  <2> QED BY <1>1, <1>2, <2>1, PromisedEnd
<1>3. CASE UNCHANGED outcome /\ event' = Active("Transcribing", lastPreview)
  BY <1>3, EventFields, PromisedStutter DEF FinalizeRecording
<1> QED BY <1>2, <1>3 DEF FinalizeRecording

\* A completion: the result is what became of the text.
LEMMA PromisedCompletion ==
  ASSUME Lifecycle, TextIsKnown, HandleCompleted
  PROVE  [Life!Next]_Life!vars
<1> DEFINE g == Head(inbox).gen
           result == Head(inbox).result
<1>0. TypeOK /\ g \in Generations /\ result \in {"delivered", "undelivered", "failed"}
  BY Taking, MessageFields DEF Lifecycle, HandleCompleted
<1>1. CASE ~PipelineIdentityMatches(g)
  BY <1>1, PromisedStutter DEF HandleCompleted, shown
<1>2. CASE PipelineIdentityMatches(g)
  <2>1. /\ g = pipeline /\ outcome[g] = "open"
        /\ outcome' = [outcome EXCEPT ![g] = result]
        /\ event' = CompletionEvent(g, result)
        /\ latest' = IF result = "failed" THEN latest ELSE g
        /\ UNCHANGED output
    BY <1>0, <1>2
    DEF HandleCompleted, PipelineIdentityMatches, Lifecycle, NoDictationForgotten
  <2>2. result = "delivered" <=> g \in output
    <3>1. Head(inbox) \in Mail /\ Head(inbox).kind = "completed"
      BY <1>0, Taken DEF HandleCompleted, Receive
    <3> QED BY <3>1 DEF TextIsKnown
  <2>3. CASE result = "failed"
    <3>1. event'.transcript = None /\ UNCHANGED latest
      BY <2>1, <2>3, EventFields DEF CompletionEvent
    <3>2. outcome' = [outcome EXCEPT ![g] = "failed"] /\ g \notin output
      BY <2>1, <2>2, <2>3
    <3> HIDE DEF g, result
    <3> QED BY <1>0, <2>1, <3>1, <3>2, PromisedEnd
  <2>4. CASE result \in {"delivered", "undelivered"}
    <3>1. event'.transcript = g
      <4>1. ErrorEv("Error", "delivery_failed") \in Event /\ QuiescentEvent \in Event
        BY <1>0, EventTypes, QuiescentEventType DEF State, Code
      <4> QED BY <2>1, <2>4, <4>1 DEF CompletionEvent, Event
    <3>2. latest' = g
      BY <2>1, <2>4
    <3> HIDE DEF g, result
    <3> QED BY <1>0, <2>1, <2>2, <2>4, <3>1, <3>2, PromisedResult
  <2> QED BY <1>0, <2>3, <2>4
<1> QED BY <1>1, <1>2

\* The end of a cancellation.
LEMMA PromisedCancel ==
  ASSUME Lifecycle, FinishCancel
  PROVE  [Life!Next]_Life!vars
<1>0. TypeOK
  BY DEF Lifecycle
<1>1. cancelJob.gen \in Generations /\ outcome[cancelJob.gen] = "open"
  BY <1>0
  DEF FinishCancel, Suspended, Lifecycle, OneActivity, NoDictationForgotten, TypeOK
<1>2. event'.transcript = None
  <2>1. \A ev : ev \in Event => Notify(ev, "canceled").transcript = ev.transcript
    BY DEF Notify, Event
  <2>2. Ev("Canceling") \in Event /\ QuiescentEvent \in Event
    BY <1>0, EventTypes, QuiescentEventType DEF State
  <2> QED BY <1>0, <2>1, <2>2, EventFields, QuiescentFields DEF FinishCancel
<1>3. /\ outcome' = [outcome EXCEPT ![cancelJob.gen] = "canceled"]
      /\ UNCHANGED <<output, latest>>
  BY DEF FinishCancel
<1> QED BY <1>1, <1>2, <1>3, PromisedEnd

LEMMA PromisedActor ==
  ASSUME Lifecycle, TextIsKnown, ActorNext
  PROVE  [Life!Next]_Life!vars
<1>0. TypeOK
  BY DEF Lifecycle
<1> USE DEF Receive, history
<1>1. CASE HandleStart \/ HandleStop \/ HandleToggle
  BY <1>1, PromisedStart, PromisedFinalize, PromisedStutter
  DEF HandleStart, HandleStop, HandleToggle, OnlyReply, shown
<1>2. CASE HandleCancel \/ HandleShutdown
  BY <1>2, PromisedStutter DEF HandleCancel, HandleShutdown, BeginCancel, OnlyReply, shown
<1>3. CASE FinishCancel
  BY <1>3, PromisedCancel
<1>4. CASE HandleConfigure
  <2>1. /\ event' = event \/ event' = QuiescentEvent
        /\ UNCHANGED <<latest, outcome, output>>
    BY <1>4 DEF HandleConfigure, OnlyReply, shown
  <2> QED BY <1>0, <2>1, QuiescentFields, PromisedStutter
<1>5. CASE HandleProgress \/ HandlePreview \/ HandleLevel
  BY <1>5, EventFields, PromisedStutter DEF HandleProgress, HandlePreview, HandleLevel
<1>6. CASE HandleCaptureEnded
  BY <1>6, PromisedFinalize, PromisedStutter DEF HandleCaptureEnded, shown
<1>7. CASE HandleCompleted
  BY <1>7, PromisedCompletion
<1>8. CASE HandleCancellationFinished
  <2>1. event'.transcript \in {event.transcript, None}
    BY <1>0, <1>8, ModelEventFields DEF HandleCancellationFinished, TypeOK
  <2> QED BY <1>8, <2>1, PromisedStutter DEF HandleCancellationFinished
<1>9. CASE HandleModelStatus
  <2>1. Ev("Idle") \in Event /\ ModelEvent("Unavailable") \in Event
    BY EventTypes, QuiescentEventType DEF State
  <2>2. event'.transcript \in {event.transcript, None}
    BY <1>9, <2>1, PreservedFields, EventFields, ModelEventFields DEF HandleModelStatus
  <2> QED BY <1>9, <2>2, PromisedStutter DEF HandleModelStatus
<1> QED BY <1>1, <1>2, <1>3, <1>4, <1>5, <1>6, <1>7, <1>8, <1>9 DEF ActorNext

\* The pipeline delivers the text of the open dictation, for the first time.
LEMMA PromisedDelivery ==
  ASSUME Lifecycle, Late, TextIsKnown, PipelineDelivers
  PROVE  [Life!Next]_Life!vars
<1>1. task.gen \in Generations /\ outcome[task.gen] = "open" /\ task.gen \notin output
  BY DEF PipelineDelivers, Late, PipelineHasItsTask, Lifecycle, NoDictationForgotten, TypeOK,
         TextIsKnown
<1>2. UNCHANGED <<outcome, latest, event>>
  BY DEF PipelineDelivers, actorState, shown
<1> QED BY <1>1, <1>2, PromisedSend, PromisedStutter DEF PipelineDelivers

\* The daemon lives up to the promise of module DictationLife: dictations begin one
\* after the other, the text of one leaves at most once and only while it is open, it
\* ends once and is said to have been delivered when it was, and its result is shown
\* and kept from then on until something newer takes its place.
THEOREM DaemonKeepsItsPromise == Spec => LivesUpToPromise
<1>1. Init => Life!Init
  BY EventFields DEF Init, Life!Init, Life!Dictations, Life!None, None, Generations
<1>2. Lifecycle /\ Late /\ TextIsKnown /\ [Next]_vars => [Life!Next]_Life!vars
  <2> SUFFICES ASSUME Lifecycle, Late, TextIsKnown, [Next]_vars
               PROVE  [Life!Next]_Life!vars
    OBVIOUS
  <2>1. CASE ActorNext
    BY <2>1, PromisedActor
  <2>2. CASE PipelineDelivers
    BY <2>2, PromisedDelivery
  <2>3. CASE ~ActorNext /\ ~PipelineDelivers
    <3>1. UNCHANGED <<outcome, latest, event>>
      BY <2>3, OthersKeepDisplay DEF Next, display, cycle, vars, shown, history
    <3>2. UNCHANGED output
      BY <2>3, OthersLeaveText
      DEF Lifecycle, PipelineSubmits, PipelineHears, PipelineAnnouncesRefining, PipelineReports
    <3> QED BY <3>1, <3>2, PromisedStutter
  <2> QED BY <2>1, <2>2, <2>3
<1> QED BY <1>1, <1>2, TextInvariant, PTL DEF Spec, LivesUpToPromise, Life!Spec
-------------------------------------------------------------------------------
(* The channel to the supervisor *)

InFlight(r) == r \in InChannel \cup accepted

\* Nothing of a request is left over: it may be sent.
Quiet(r) == ~InFlight(r) /\ oneshot[r] = "closed"

\* There is one copy of a request and one cancellation; what was answered is not
\* in flight; and a cancellation in the channel is the one cancel() waits for.
OneCopy ==
  /\ \A i, j \in DOMAIN commands :
       \/ commands[i] = commands[j]
       \/ commands[i].kind = "cancel" /\ commands[j].kind = "cancel"
       => i = j
  /\ InChannel \cap accepted = {}
  /\ \A r \in Request : InFlight(r) => oneshot[r] \in {"open", "closed"}
  /\ (\E m \in InChannel : m.kind = "cancel") => Suspended /\ cancelReply = "open"
  /\ ~Suspended => cancelReply = "closed"

\* What a task is about to send is quiet: a loop that is not waiting for an answer, a
\* recording that may get a pipeline, a pipeline that has not asked yet, and all of
\* the dictations to come.
QuietBeforeSending ==
  /\ \A r \in Request : r.gen > generation => Quiet(r)
  /\ \A g \in Generations : previewLoop[g] # "off" => g <= generation
  /\ \A g \in Generations : previewLoop[g] \in {"sleeping", "reporting"} => Quiet(Preview(g))
  /\ recording # None => Quiet(Final(recording))
  /\ task.phase = "started" => Quiet(Final(task.gen))

Contracted == OneCopy /\ QuietBeforeSending

LEMMA Requests ==
  \A g \in Generations :
    /\ Final(g) \in Request /\ Preview(g) \in Request
    /\ Final(g) \in Command /\ Preview(g) \in Command
    /\ Final(g).gen = g /\ Preview(g).gen = g
    /\ Final(g).kind = "final" /\ Preview(g).kind = "preview"
    /\ [kind |-> "cancel", gen |-> g] \in Command
  BY DEF Final, Preview, Request, Command

LEMMA Sent ==
  ASSUME ServiceTypeOK, NEW m \in Command, commands' = Append(commands, m)
  PROVE  /\ InChannel' = InChannel \cup {m}
         /\ DOMAIN commands = 1 .. Len(commands) /\ Len(commands) \in Nat
         /\ DOMAIN commands' = 1 .. Len(commands) + 1
         /\ \A i \in DOMAIN commands : commands'[i] = commands[i]
         /\ commands'[Len(commands) + 1] = m
<1>1. /\ DOMAIN commands = 1 .. Len(commands) /\ Len(commands) \in Nat
      /\ DOMAIN commands' = 1 .. Len(commands) + 1
      /\ \A i \in DOMAIN commands : commands'[i] = commands[i]
      /\ commands'[Len(commands) + 1] = m
  BY DEF ServiceTypeOK
<1> QED BY <1>1 DEF InChannel

LEMMA Delivered ==
  ASSUME ServiceTypeOK, commands # <<>>, commands' = Tail(commands)
  PROVE  /\ InChannel = InChannel' \cup {Head(commands)}
         /\ Head(commands) = commands[1] /\ 1 \in DOMAIN commands
         /\ Head(commands) \in Command
         /\ \A i \in DOMAIN commands' :
              i \in Nat \ {0} /\ i + 1 \in DOMAIN commands /\ commands'[i] = commands[i + 1]
<1>1. /\ DOMAIN commands = 1 .. Len(commands) /\ Len(commands) \in Nat \ {0}
      /\ DOMAIN commands' = 1 .. Len(commands) - 1
      /\ \A i \in DOMAIN commands' : commands'[i] = commands[i + 1]
      /\ Head(commands) = commands[1] /\ Head(commands) \in Command
  BY DEF ServiceTypeOK
<1>2. ASSUME NEW i \in DOMAIN commands, i # 1
      PROVE  i - 1 \in DOMAIN commands' /\ commands[i] = commands'[i - 1]
  BY <1>1, <1>2
<1> QED BY <1>1, <1>2 DEF InChannel

\* What is taken from the channel is in it no more.
LEMMA DeliveredOnce ==
  ASSUME ServiceTypeOK, OneCopy, commands # <<>>, commands' = Tail(commands)
  PROVE  /\ Head(commands) \notin InChannel'
         /\ Head(commands).kind = "cancel" => \A m \in InChannel' : m.kind # "cancel"
         /\ \A i, j \in DOMAIN commands' :
              \/ commands'[i] = commands'[j]
              \/ commands'[i].kind = "cancel" /\ commands'[j].kind = "cancel"
              => i = j
<1>1. \A i \in DOMAIN commands' :
        /\ commands'[i] # Head(commands)
        /\ ~(commands'[i].kind = "cancel" /\ Head(commands).kind = "cancel")
  <2>1. ASSUME NEW i \in DOMAIN commands',
               \/ commands'[i] = Head(commands)
               \/ commands'[i].kind = "cancel" /\ Head(commands).kind = "cancel"
        PROVE  FALSE
    <3>1. i + 1 = 1 /\ i \in Nat \ {0}
      BY <2>1, Delivered DEF OneCopy
    <3> QED BY <3>1
  <2> QED BY <2>1
<1>2. \A i, j \in DOMAIN commands' :
        \/ commands'[i] = commands'[j]
        \/ commands'[i].kind = "cancel" /\ commands'[j].kind = "cancel"
        => i = j
  BY Delivered DEF OneCopy
<1> QED BY <1>1, <1>2 DEF InChannel

\* What the supervisor does to the requests: it moves or ends them, and answers only
\* what it ends.
LEMMA ServiceEffect ==
  ASSUME ServiceTypeOK, OneCopy, ServiceNext, UNCHANGED actor
  PROVE  /\ OneCopy'
         /\ \A r \in Request : Quiet(r) => Quiet(r)'
<1> USE DEF Suspended
<1>0. \A R, result : \A r \in Request :
        /\ r \notin R \/ oneshot[r] # "open" => Answered(R, result)[r] = oneshot[r]
        /\ oneshot[r] = "closed" => Answered(R, result)[r] = "closed"
  BY DEF Answered
<1>1. ASSUME UNCHANGED <<commands, accepted, oneshot, cancelReply>>
      PROVE  OneCopy' /\ \A r \in Request : Quiet(r) => Quiet(r)'
  BY <1>1 DEF OneCopy, InChannel, InFlight, Quiet
<1>2. CASE Accept \/ Refuse
  <2>1. /\ commands # <<>> /\ commands' = Tail(commands) /\ Head(commands).kind # "cancel"
        /\ UNCHANGED cancelReply
    BY <1>2 DEF Accept, Refuse
  <2>2. Head(commands) \in Request /\ Head(commands) \notin accepted
    BY <2>1, Delivered DEF Command, Request, OneCopy
  <2>3. PICK ended \in SUBSET Request, result \in {"nothing", "error"} :
          /\ oneshot' = Answered(ended, result)
          /\ ended \cap accepted' = {} /\ ended \cap InChannel' = {}
          /\ accepted' \subseteq accepted \cup {Head(commands)}
    <3>1. CASE Accept
      <4>1. PICK superseded \in SUBSET {r \in accepted : r.kind = "preview"} :
              /\ accepted' = (accepted \ superseded) \cup {Head(commands)}
              /\ oneshot' = Answered(superseded, "nothing")
        BY <3>1 DEF Accept
      <4>2. superseded \in SUBSET Request /\ superseded \cap InChannel' = {}
        BY <2>1, <4>1, Delivered DEF ServiceTypeOK, OneCopy
      <4> QED BY <2>2, <4>1, <4>2
    <3>2. CASE Refuse
      <4>1. accepted' = accepted
            /\ \E result \in {"nothing", "error"} :
                 oneshot' = Answered({Head(commands)}, result)
        BY <3>2 DEF Refuse
      <4> QED BY <2>1, <2>2, <4>1, DeliveredOnce
    <3> QED BY <1>2, <3>1, <3>2
  <2>4. \A r \in Request : InFlight(r)' => InFlight(r) /\ oneshot'[r] = oneshot[r]
    BY <1>0, <2>1, <2>2, <2>3, Delivered DEF InFlight
  <2>5. \A r \in Request : Quiet(r) => Quiet(r)'
    BY <1>0, <2>3, <2>4 DEF Quiet
  <2>6. InChannel' \cap accepted' = {}
    BY <2>1, <2>3, Delivered, DeliveredOnce DEF OneCopy
  <2>7. (\E m \in InChannel' : m.kind = "cancel") => \E m \in InChannel : m.kind = "cancel"
    BY <2>1, Delivered
  <2> QED BY <2>1, <2>4, <2>5, <2>6, <2>7, DeliveredOnce DEF OneCopy
<1>3. CASE CancelRequests
  <2>1. /\ commands # <<>> /\ commands' = Tail(commands) /\ Head(commands).kind = "cancel"
        /\ Head(commands) \in InChannel
    BY <1>3, Delivered DEF CancelRequests
  <2>2. PICK ended \in SUBSET accepted :
          accepted' = accepted \ ended /\ oneshot' = Answered(ended, "nothing")
    BY <1>3 DEF CancelRequests
  <2>3. \A r \in Request : InFlight(r)' => InFlight(r) /\ oneshot'[r] = oneshot[r]
    BY <1>0, <2>1, <2>2, Delivered DEF InFlight, OneCopy
  <2>4. \A r \in Request : Quiet(r) => Quiet(r)'
    BY <1>0, <2>2, <2>3 DEF Quiet
  <2> QED BY <2>1, <2>2, <2>3, <2>4, Delivered, DeliveredOnce DEF OneCopy
<1>4. CASE CancelUnavailable
  <2>1. /\ commands # <<>> /\ commands' = Tail(commands) /\ Head(commands).kind = "cancel"
        /\ Head(commands) \in InChannel /\ UNCHANGED <<accepted, oneshot>>
    BY <1>4, Delivered DEF CancelUnavailable
  <2>2. \A r : InFlight(r)' => InFlight(r)
    BY <2>1, Delivered DEF InFlight
  <2> QED BY <2>1, <2>2, Delivered, DeliveredOnce DEF OneCopy, Quiet
<1>5. CASE \E r \in Request : AnswerText(r) \/ AnswerWithoutText(r)
  <2>1. PICK r \in Request, result \in {"text", "nothing", "error"} :
          /\ r \in accepted /\ accepted' = accepted \ {r}
          /\ oneshot' = Answered({r}, result)
          /\ UNCHANGED <<commands, cancelReply>>
    BY <1>5 DEF AnswerText, AnswerWithoutText
  <2>2. InChannel' = InChannel /\ r \notin InChannel
    BY <2>1 DEF InChannel, OneCopy
  <2>3. \A q \in Request : InFlight(q)' => InFlight(q) /\ oneshot'[q] = oneshot[q]
    BY <1>0, <2>1, <2>2 DEF InFlight
  <2>4. \A q \in Request : Quiet(q) => Quiet(q)'
    BY <1>0, <2>1, <2>3 DEF Quiet
  <2> QED BY <2>1, <2>2, <2>3, <2>4 DEF OneCopy
<1>6. CASE WorkerLost \/ \E outcome0 \in {"Loading", "Ready", "Unavailable"} : Load(outcome0)
  BY <1>1, <1>6 DEF WorkerLost, Load
<1> QED BY <1>2, <1>3, <1>4, <1>5, <1>6 DEF ServiceNext

LEMMA RequestSent ==
  ASSUME ServiceTypeOK, OneCopy, NEW r \in Request, Quiet(r),
         SendRequest(r) \/ SendOrphan(r), UNCHANGED <<callerRest, actor>>
  PROVE  /\ CallerNext
         /\ OneCopy'
         /\ \A q \in Request : q # r /\ Quiet(q) => Quiet(q)'
<1> USE DEF Suspended, callerRest
<1>1. /\ r \in Command /\ r.kind # "cancel"
      /\ commands' = Append(commands, r)
      /\ oneshot'[r] \in {"open", "closed"}
      /\ \A q \in Request : q # r => oneshot'[q] = oneshot[q]
  BY DEF SendRequest, SendOrphan, Closed, ServiceTypeOK, Request, Command
<1>2. CallerSends(r)
  BY DEF CallerSends, Quiet, InFlight
<1>3. \A i, j \in DOMAIN commands' :
        \/ commands'[i] = commands'[j]
        \/ commands'[i].kind = "cancel" /\ commands'[j].kind = "cancel"
        => i = j
  <2>1. \A i \in DOMAIN commands : commands[i] # r
    BY DEF Quiet, InFlight, InChannel
  <2> QED BY <1>1, <2>1, Sent DEF OneCopy
<1>4. \A q \in Request : q # r => (InFlight(q)' <=> InFlight(q))
  BY <1>1, Sent DEF InFlight
<1>5. InChannel' \cap accepted' = {}
  BY <1>1, Sent DEF OneCopy, Quiet, InFlight
<1>6. (\E m \in InChannel' : m.kind = "cancel") => \E m \in InChannel : m.kind = "cancel"
  BY <1>1, Sent
<1>7. OneCopy'
  BY <1>1, <1>3, <1>4, <1>5, <1>6 DEF OneCopy
<1> QED BY <1>1, <1>2, <1>4, <1>7 DEF CallerNext, Quiet

LEMMA ReceiverDropped ==
  ASSUME ServiceTypeOK, OneCopy, NEW r \in Request, oneshot' = Closed({r}),
         UNCHANGED <<commands, callerRest, actor>>
  PROVE  /\ CallerNext
         /\ OneCopy'
         /\ \A q \in Request : Quiet(q) => Quiet(q)'
         /\ ~InFlight(r) => Quiet(r)'
<1> USE DEF Suspended, callerRest
<1>1. \A q \in Request : oneshot'[q] = IF q = r THEN "closed" ELSE oneshot[q]
  BY DEF Closed
<1>2. InChannel' = InChannel /\ \A q : InFlight(q)' <=> InFlight(q)
  BY DEF InChannel, InFlight
<1>3. DropsReceivers
  <2>1. CASE oneshot[r] # "closed"
    BY <2>1 DEF DropsReceivers
  <2>2. CASE oneshot[r] = "closed"
    <3>1. oneshot' = Closed({})
      BY <2>2 DEF Closed
    <3> QED BY <3>1 DEF DropsReceivers
  <2> QED BY <2>1, <2>2
<1>4. CallerNext
  BY <1>3 DEF CallerNext, CallerReceives
<1>5. OneCopy'
  BY <1>1, <1>2 DEF OneCopy
<1> QED BY <1>1, <1>2, <1>4, <1>5 DEF Quiet

LEMMA ContractedBeginCancel ==
  ASSUME Lifecycle, Late, Contracted, NEW c, BeginCancel(c), actor = "ready",
         UNCHANGED <<accepted, canceled, status, unseen>>
  PROVE  CallerNext /\ Contracted'
<1>0. /\ ServiceTypeOK /\ Suspended' /\ ~Suspended /\ cancelReply = "closed"
      /\ cancelReply' = "open" /\ UNCHANGED <<generation, previewLoop>>
      /\ \A m \in InChannel : m.kind # "cancel"
  BY DEF BeginCancel, AbortRecording, AbortPipeline, SendCancel, Suspended, Lifecycle, TypeOK,
         Contracted, OneCopy
<1>1. PICK g \in Generations, dropped \in SUBSET {r \in Request : oneshot[r] # "closed"} :
        /\ SendCancel(g)
        /\ oneshot' = Closed(dropped)
  <2>1. CASE recording # None /\ AbortRecording(c)
    <3>1. oneshot' = Closed({})
      BY <1>0, <2>1 DEF AbortRecording, Closed, ServiceTypeOK
    <3> QED BY <2>1, <3>1 DEF AbortRecording, Lifecycle, TypeOK
  <2>2. CASE pipeline # None /\ AbortPipeline(c)
    <3>1. pipeline \in Generations /\ Final(pipeline) \in Request
      BY <2>2, Requests DEF Lifecycle, TypeOK
    <3>2. CASE oneshot[Final(pipeline)] = "closed"
      <4>1. oneshot' = Closed({})
        BY <2>2, <3>2 DEF AbortPipeline, Closed
      <4> QED BY <2>2, <3>1, <4>1 DEF AbortPipeline
    <3>3. CASE oneshot[Final(pipeline)] # "closed"
      BY <2>2, <3>1, <3>3 DEF AbortPipeline
    <3> QED BY <3>2, <3>3
  <2> QED BY <2>1, <2>2 DEF BeginCancel
<1> DEFINE m == [kind |-> "cancel", gen |-> g]
<1>2. /\ m \in Command /\ m.kind = "cancel" /\ commands' = Append(commands, m)
      /\ m \notin Request
  BY <1>1, Requests DEF SendCancel, Request
<1>3. CallerNext
  BY <1>0, <1>1 DEF CallerNext, CallerCancels, DropsReceivers
<1>4. \A q \in Request : InFlight(q)' <=> InFlight(q)
  BY <1>0, <1>2, Sent DEF InFlight
<1>5. \A q \in Request : oneshot'[q] \in {"closed", oneshot[q]}
  BY <1>1 DEF Closed
<1>6. \A q \in Request : Quiet(q) => Quiet(q)'
  BY <1>4, <1>5 DEF Quiet
<1>7. \A i, j \in DOMAIN commands' :
        \/ commands'[i] = commands'[j]
        \/ commands'[i].kind = "cancel" /\ commands'[j].kind = "cancel"
        => i = j
  <2>1. \A i \in DOMAIN commands : commands[i] # m /\ commands[i].kind # "cancel"
    BY <1>0, <1>2 DEF InChannel
  <2> HIDE DEF m
  <2> QED BY <1>0, <1>2, <2>1, Sent DEF Contracted, OneCopy
<1>8. InChannel' \cap accepted' = {}
  BY <1>0, <1>2, Sent DEF Contracted, OneCopy, ServiceTypeOK
<1>9. OneCopy'
  BY <1>0, <1>4, <1>5, <1>7, <1>8 DEF Contracted, OneCopy
<1>10. QuietBeforeSending'
  <2>1. task'.phase = "started" => task.phase = "started" /\ task'.gen = task.gen
    BY DEF BeginCancel, AbortRecording, AbortPipeline, NoTask
  <2>2. recording' # None => recording' = recording
    BY DEF BeginCancel, AbortRecording, AbortPipeline
  <2>3. /\ recording # None => Final(recording) \in Request
        /\ task.phase = "started" => Final(task.gen) \in Request
        /\ \A g0 \in Generations : Preview(g0) \in Request
    BY Requests DEF Lifecycle, TypeOK, Task
  <2> QED BY <1>0, <1>6, <2>1, <2>2, <2>3 DEF Contracted, QuietBeforeSending
<1> QED BY <1>3, <1>9, <1>10 DEF Contracted

\* The other handlers send nothing: what they prepare to send is quiet.
LEMMA ContractedStutter ==
  ASSUME Contracted, UNCHANGED <<service, generation, previewLoop, recording, task>>,
         Suspended' <=> Suspended
  PROVE  Contracted'
<1>1. InChannel' = InChannel /\ \A r : (InFlight(r)' <=> InFlight(r)) /\ (Quiet(r)' <=> Quiet(r))
  BY DEF service, InChannel, InFlight, Quiet
<1> QED BY <1>1 DEF Contracted, OneCopy, QuietBeforeSending, service

LEMMA ContractedStart ==
  ASSUME Lifecycle, Contracted, NEW c, StartRecording(c), UNCHANGED <<service, actor>>
  PROVE  Contracted'
<1> USE DEF Suspended
<1>1. CASE OpenMicrophone(c)
  <2>1. InChannel' = InChannel
        /\ \A r : (InFlight(r)' <=> InFlight(r)) /\ (Quiet(r)' <=> Quiet(r))
    BY DEF service, InChannel, InFlight, Quiet
  <2>2. generation \in Nat /\ generation + 1 \in Generations
    BY <1>1, MaxGenerationAssumption DEF OpenMicrophone, Lifecycle, TypeOK, Generations
  <2>3. PICK new \in Generations : new = generation + 1
    BY <2>2
  <2>4. /\ generation' = new /\ recording' = new /\ task' = task
        /\ \A g \in Generations : g # new => previewLoop'[g] = previewLoop[g]
    BY <1>1, <2>3 DEF OpenMicrophone, Lifecycle, TypeOK
  <2>5. Quiet(Final(new)) /\ Quiet(Preview(new))
    <3>1. /\ Final(new) \in Request /\ Final(new).gen = new
          /\ Preview(new) \in Request /\ Preview(new).gen = new
      BY Requests
    <3>2. new > generation
      BY <2>2, <2>3
    <3>3. Final(new).gen > generation /\ Preview(new).gen > generation
      BY <3>1, <3>2
    <3> QED BY <3>1, <3>3 DEF Contracted, QuietBeforeSending
  <2>6. /\ \A r \in Request : r.gen \in Nat
        /\ \A g \in Generations : g \in Nat
    BY DEF Request, Generations
  <2>7. OneCopy'
    BY <2>1 DEF Contracted, OneCopy, service
  <2>8. QuietBeforeSending'
    BY <2>1, <2>2, <2>3, <2>4, <2>5, <2>6 DEF Contracted, QuietBeforeSending
  <2> QED BY <2>7, <2>8 DEF Contracted
<1>2. CASE MicrophoneFails(c) \/ \E ev : OnlyReply(c, ev)
  BY <1>2, ContractedStutter DEF MicrophoneFails, OnlyReply, dictation, loops
<1> QED BY <1>1, <1>2 DEF StartRecording

LEMMA ContractedFinalize ==
  ASSUME Contracted, NEW c, NEW parks, FinalizeRecording(c, parks), UNCHANGED <<service, actor>>
  PROVE  Contracted'
<1> USE DEF Suspended
<1>1. InChannel' = InChannel /\ \A r : (InFlight(r)' <=> InFlight(r)) /\ (Quiet(r)' <=> Quiet(r))
  BY DEF service, InChannel, InFlight, Quiet
<1>2. /\ UNCHANGED <<generation, previewLoop>> /\ recording' = None
      /\ task' = task \/ task'.gen = recording
      /\ recording # None
  BY DEF FinalizeRecording
<1>3. OneCopy'
  BY <1>1 DEF Contracted, OneCopy, service
<1>4. QuietBeforeSending'
  BY <1>1, <1>2 DEF Contracted, QuietBeforeSending
<1> QED BY <1>3, <1>4 DEF Contracted

LEMMA ContractedActor ==
  ASSUME Lifecycle, Late, Contracted, ActorNext
  PROVE  (UNCHANGED service \/ CallerNext) /\ Contracted'
<1>s. ASSUME UNCHANGED <<service, generation, previewLoop, recording, task, actor>>
      PROVE  (UNCHANGED service \/ CallerNext) /\ Contracted'
  BY <1>s, ContractedStutter DEF Suspended
<1>1. CASE UNCHANGED <<service, actor>> /\ \E d : StartRecording(d)
  BY <1>1, ContractedStart
<1>2. CASE UNCHANGED <<service, actor>> /\ \E d, parks : FinalizeRecording(d, parks)
  BY <1>2, ContractedFinalize
<1>3. CASE HandleStart \/ HandleStop \/ HandleToggle \/ HandleCaptureEnded
  BY <1>1, <1>2, <1>3, <1>s
  DEF HandleStart, HandleStop, HandleToggle, HandleCaptureEnded, OnlyReply, dictation, loops
<1>4. CASE \/ HandleConfigure \/ HandleProgress \/ HandlePreview \/ HandleLevel
           \/ HandleCompleted \/ HandleCancellationFinished \/ HandleModelStatus
  BY <1>4, <1>s
  DEF HandleConfigure, HandleProgress, HandlePreview, HandleLevel, HandleCompleted,
      HandleCancellationFinished, HandleModelStatus, OnlyReply, dictation, loops
<1>5. CASE HandleCancel \/ HandleShutdown
  <2>1. CASE \E d : BeginCancel(d)
    BY <1>5, <2>1, ContractedBeginCancel DEF HandleCancel, HandleShutdown, Receive
  <2>2. CASE ~\E d : BeginCancel(d)
    <3>1. /\ UNCHANGED <<service, generation, previewLoop, recording, task>>
          /\ actor = "ready" /\ actor' \in {"ready", "stopped"}
      BY <1>5, <2>2
      DEF HandleCancel, HandleShutdown, Receive, OnlyReply, dictation, loops, service
    <3> QED BY <3>1, ContractedStutter DEF Suspended
  <2> QED BY <2>1, <2>2
<1>6. CASE FinishCancel
  <2>1. /\ cancelReply \in {"active", "inactive"} /\ cancelReply' = "closed"
        /\ UNCHANGED <<commands, accepted, canceled, oneshot, status, unseen>>
        /\ UNCHANGED <<generation, previewLoop, recording, task>>
        /\ ServiceTypeOK
    BY <1>6 DEF FinishCancel, loops, Lifecycle, TypeOK
  <2>2. oneshot' = Closed({})
    BY <2>1 DEF Closed, ServiceTypeOK
  <2>3. CallerNext
    BY <2>1, <2>2 DEF CallerNext, CallerReceives, DropsReceivers
  <2>4. InChannel' = InChannel /\ \A r : (InFlight(r)' <=> InFlight(r)) /\ (Quiet(r)' <=> Quiet(r))
    BY <2>1 DEF InChannel, InFlight, Quiet
  <2>5. ~\E m \in InChannel : m.kind = "cancel"
    BY <2>1 DEF Contracted, OneCopy
  <2>6. OneCopy'
    BY <2>1, <2>4, <2>5 DEF Contracted, OneCopy
  <2>7. QuietBeforeSending'
    BY <2>1, <2>4 DEF Contracted, QuietBeforeSending
  <2> QED BY <2>3, <2>6, <2>7 DEF Contracted
<1> QED BY <1>3, <1>4, <1>5, <1>6 DEF ActorNext

LEMMA ContractedPipeline ==
  ASSUME Lifecycle, Late, Contracted,
         \/ PipelineSubmits \/ PipelineHears \/ PipelineAnnouncesRefining
         \/ PipelineDelivers \/ PipelineReports
  PROVE  (UNCHANGED service \/ CallerNext) /\ Contracted'
<1> USE DEF actorState, dictation, loops
<1>0. /\ TypeOK /\ ServiceTypeOK /\ task \in Task /\ task.gen \in Generations
      /\ pipeline = task.gen /\ recording = None
      /\ UNCHANGED <<actor, generation, recording, previewLoop>>
      /\ Final(task.gen) \in Request
      /\ \A g \in Generations : Preview(g) # Final(task.gen) /\ Preview(g) \in Request
      /\ task.gen <= generation /\ task.gen \in Nat /\ generation \in Nat
  <2>1. /\ TypeOK /\ task.phase # "none" /\ UNCHANGED <<actor, generation, recording, previewLoop>>
    BY DEF PipelineSubmits, PipelineHears, PipelineAnnouncesRefining, PipelineDelivers,
           PipelineReports, Lifecycle
  <2>2. /\ task \in Task /\ task.gen \in Generations /\ pipeline = task.gen
        /\ recording = None /\ task.gen <= generation
        /\ task.gen \in Nat /\ generation \in Nat
    BY <2>1
    DEF TypeOK, Late, PipelineHasItsTask, Lifecycle, OneActivity, Task, Generations, None
  <2>3. ServiceTypeOK
    BY <2>1 DEF TypeOK
  <2> QED BY <2>1, <2>2, <2>3, Requests
<1>1. CASE PipelineSubmits
  <2>1. /\ SendRequest(Final(task.gen)) /\ UNCHANGED callerRest /\ Quiet(Final(task.gen))
        /\ task'.phase # "started"
    BY <1>0, <1>1 DEF PipelineSubmits, Contracted, QuietBeforeSending, Task
  <2>2. /\ CallerNext /\ OneCopy'
        /\ \A q \in Request : q # Final(task.gen) /\ Quiet(q) => Quiet(q)'
    BY <1>0, <2>1, RequestSent DEF Contracted
  <2>3. \A r \in Request : r.gen > generation => r # Final(task.gen)
    <3>1. Final(task.gen).gen = task.gen
      BY <1>0, Requests
    <3> QED BY <1>0, <3>1
  <2>4. QuietBeforeSending'
    BY <1>0, <2>1, <2>2, <2>3 DEF Contracted, QuietBeforeSending
  <2> QED BY <2>2, <2>4 DEF Contracted
<1>2. CASE PipelineHears
  <2>1. /\ oneshot' = Closed({Final(task.gen)}) /\ UNCHANGED <<commands, callerRest>>
        /\ task'.phase # "started"
    BY <1>0, <1>2 DEF PipelineHears, Task
  <2>2. /\ CallerNext /\ OneCopy'
        /\ \A q \in Request : Quiet(q) => Quiet(q)'
    BY <1>0, <2>1, ReceiverDropped DEF Contracted
  <2>3. QuietBeforeSending'
    BY <1>0, <2>1, <2>2 DEF Contracted, QuietBeforeSending
  <2> QED BY <2>2, <2>3 DEF Contracted
<1>3. CASE PipelineAnnouncesRefining \/ PipelineDelivers \/ PipelineReports
  <2>1. UNCHANGED service /\ task'.phase # "started"
    <3>1. UNCHANGED service
      BY <1>3 DEF PipelineAnnouncesRefining, PipelineDelivers, PipelineReports
    <3>2. \/ task' = [task EXCEPT !.phase = "refining"]
          \/ \E result : task' = [task EXCEPT !.phase = "reporting", !.result = result]
          \/ task' = NoTask
      BY <1>3 DEF PipelineAnnouncesRefining, PipelineDelivers, PipelineReports
    <3>3. task'.phase \in {"refining", "reporting", "none"}
      <4>1. task = [gen |-> task.gen, phase |-> task.phase, result |-> task.result]
        BY <1>0 DEF Task
      <4>2. ASSUME NEW result, task' = [task EXCEPT !.phase = "reporting", !.result = result]
            PROVE  task'.phase = "reporting"
        BY <4>1, <4>2
      <4>3. ASSUME task' = [task EXCEPT !.phase = "refining"]
            PROVE  task'.phase = "refining"
        BY <4>1, <4>3
      <4>4. NoTask.phase = "none"
        BY DEF NoTask
      <4> QED BY <3>2, <4>2, <4>3, <4>4
    <3> QED BY <3>1, <3>3
  <2>2. InChannel' = InChannel /\ \A r : (InFlight(r)' <=> InFlight(r)) /\ (Quiet(r)' <=> Quiet(r))
    BY <2>1 DEF service, InChannel, InFlight, Quiet
  <2>3. OneCopy'
    BY <1>0, <2>1, <2>2 DEF Contracted, OneCopy, service, Suspended
  <2>4. QuietBeforeSending'
    BY <1>0, <2>1, <2>2 DEF Contracted, QuietBeforeSending
  <2> QED BY <2>1, <2>3, <2>4 DEF Contracted
<1> QED BY <1>1, <1>2, <1>3

\* A preview loop asks again only when its last request was answered; the last poll of
\* an aborted one leaves an orphan that no later loop will ask for.
LEMMA ContractedPreview ==
  ASSUME Lifecycle, Contracted, NEW g \in Generations,
         PreviewAsks(g) \/ PreviewHears(g) \/ PreviewLastPoll(g)
  PROVE  (UNCHANGED service \/ CallerNext) /\ Contracted'
<1> USE DEF actorState, dictation
<1> DEFINE r == Preview(g)
<1>0. /\ TypeOK /\ ServiceTypeOK /\ r \in Request /\ r.gen = g
      /\ UNCHANGED <<actor, generation, recording, task>>
      /\ recording # None => Final(recording) \in Request /\ Final(recording) # r
      /\ task.phase = "started" => Final(task.gen) \in Request /\ Final(task.gen) # r
      /\ \A h \in Generations : Preview(h) \in Request /\ (Preview(h) = r => h = g)
      /\ \A h \in Generations : h # g => previewLoop'[h] = previewLoop[h]
      /\ UNCHANGED callerRest
  <2>1. TypeOK /\ UNCHANGED <<actor, generation, recording, task, callerRest>>
    BY DEF PreviewAsks, PreviewHears, PreviewLastPoll, Lifecycle
  <2>2. /\ recording # None => recording \in Generations
        /\ task.phase = "started" => task.gen \in Generations
        /\ ServiceTypeOK
    BY <2>1 DEF TypeOK, Task
  <2>3. \A h \in Generations : h # g => previewLoop'[h] = previewLoop[h]
    BY <2>1 DEF PreviewAsks, PreviewHears, PreviewLastPoll, TypeOK
  <2>4. /\ r \in Request /\ r.gen = g /\ r.kind = "preview"
        /\ \A h \in Generations :
             /\ Preview(h) \in Request /\ Preview(h).gen = h
             /\ Final(h) \in Request /\ Final(h).kind = "final"
    BY Requests
  <2> HIDE DEF r
  <2>5. /\ recording # None => Final(recording) \in Request /\ Final(recording) # r
        /\ task.phase = "started" => Final(task.gen) \in Request /\ Final(task.gen) # r
        /\ \A h \in Generations : Preview(h) \in Request /\ (Preview(h) = r => h = g)
    BY <2>2, <2>4
  <2> QED BY <2>1, <2>2, <2>3, <2>4, <2>5
<1>1. CASE /\ previewLoop[g] = "sleeping"
           /\ SendRequest(r) \/ SendOrphan(r)
           /\ previewLoop'[g] \in {"awaiting", "off"}
  <2>1. Quiet(r) /\ g <= generation
    BY <1>1 DEF Contracted, QuietBeforeSending
  <2>2. /\ CallerNext /\ OneCopy'
        /\ \A q \in Request : q # r /\ Quiet(q) => Quiet(q)'
    BY <1>0, <1>1, <2>1, RequestSent DEF Contracted
  <2>3. \A q \in Request : q.gen > generation => q # r
    BY <1>0, <2>1 DEF Lifecycle, TypeOK, Generations
  <2> HIDE DEF r
  <2>4. QuietBeforeSending'
    BY <1>0, <1>1, <2>1, <2>2, <2>3 DEF Contracted, QuietBeforeSending
  <2> QED BY <2>2, <2>4 DEF Contracted
<1>2. CASE /\ oneshot' = Closed({r}) /\ UNCHANGED commands
           /\ \/ previewLoop'[g] = "off"
              \/ /\ previewLoop'[g] \in {"sleeping", "reporting"} /\ previewLoop[g] # "off"
                 /\ oneshot[r] \notin {"open", "closed"}
  <2>1. /\ CallerNext /\ OneCopy'
        /\ \A q \in Request : Quiet(q) => Quiet(q)'
        /\ ~InFlight(r) => Quiet(r)'
    BY <1>0, <1>2, ReceiverDropped DEF Contracted
  <2>2. previewLoop'[g] # "off" => ~InFlight(r) /\ g <= generation
    BY <1>0, <1>2 DEF Contracted, OneCopy, QuietBeforeSending
  <2> HIDE DEF r
  <2>4. QuietBeforeSending'
    <3>1. \A h \in Generations : previewLoop'[h] # "off" => h <= generation'
      BY <1>0, <2>2 DEF Contracted, QuietBeforeSending
    <3>2. \A h \in Generations :
            previewLoop'[h] \in {"sleeping", "reporting"} => Quiet(Preview(h))'
      BY <1>0, <2>1, <2>2 DEF Contracted, QuietBeforeSending, r
    <3> QED BY <1>0, <2>1, <3>1, <3>2 DEF Contracted, QuietBeforeSending
  <2> QED BY <2>1, <2>4 DEF Contracted
<1>3. \/ /\ previewLoop[g] = "sleeping"
         /\ SendRequest(r) \/ SendOrphan(r)
         /\ previewLoop'[g] \in {"awaiting", "off"}
      \/ /\ oneshot' = Closed({r}) /\ UNCHANGED commands
         /\ \/ previewLoop'[g] = "off"
            \/ /\ previewLoop'[g] \in {"sleeping", "reporting"} /\ previewLoop[g] # "off"
               /\ oneshot[r] \notin {"open", "closed"}
  BY <1>0 DEF PreviewAsks, PreviewHears, PreviewLastPoll, TypeOK
<1> QED BY <1>1, <1>2, <1>3

LEMMA ContractedOtherTasks ==
  ASSUME Lifecycle, Contracted,
         \/ \E g \in Generations :
              \/ PreviewStops(g) \/ PreviewReports(g) \/ LevelReports(g) \/ CaptureEnds(g)
              \/ LevelLastPoll(g) \/ RestartSeen(g) \/ RestartReported(g)
         \/ WatcherBorrows \/ WatcherReports
  PROVE  (UNCHANGED service \/ CallerNext) /\ Contracted'
<1> USE DEF actorState, dictation, loops
<1>1. /\ UNCHANGED <<actor, generation, recording, task>>
      /\ UNCHANGED <<commands, accepted, oneshot, cancelReply>>
      /\ UNCHANGED service \/ WatcherLooks
      /\ \A g \in Generations :
           \/ previewLoop'[g] = previewLoop[g]
           \/ previewLoop'[g] = "off"
           \/ previewLoop[g] = "reporting"
  BY DEF PreviewStops, PreviewReports, LevelReports, CaptureEnds, LevelLastPoll, RestartSeen,
         RestartReported, WatcherBorrows, WatcherReports, WatcherLooks, service, Lifecycle,
         TypeOK
<1>2. InChannel' = InChannel /\ \A r : (InFlight(r)' <=> InFlight(r)) /\ (Quiet(r)' <=> Quiet(r))
  BY <1>1 DEF InChannel, InFlight, Quiet
<1>3. OneCopy'
  BY <1>1, <1>2 DEF Contracted, OneCopy, Suspended
<1>4. QuietBeforeSending'
  BY <1>1, <1>2 DEF Contracted, QuietBeforeSending
<1> QED BY <1>1, <1>3, <1>4 DEF Contracted, CallerNext

LEMMA ContractedNext ==
  ASSUME Lifecycle, Late, Contracted, [Next]_vars
  PROVE  (UNCHANGED service \/ CallerNext \/ ServiceNext) /\ Contracted'
<1>1. CASE \/ \E c \in Clients, op \in Commands \cap Operation : IssueCommand(c, op)
           \/ SignalShutdown
  BY <1>1, ContractedStutter
  DEF IssueCommand, SignalShutdown, Suspended, dictation, loops
<1>2. CASE ActorNext
  BY <1>2, ContractedActor
<1>3. CASE TaskNext
  BY <1>3, ContractedPipeline, ContractedPreview, ContractedOtherTasks DEF TaskNext
<1>4. CASE ServiceNext /\ UNCHANGED daemonVars
  <2>1. UNCHANGED <<actor, generation, previewLoop, recording, task>>
    BY <1>4 DEF daemonVars, actorState, dictation, loops
  <2>2. OneCopy' /\ \A r \in Request : Quiet(r) => Quiet(r)'
    BY <1>4, <2>1, ServiceEffect DEF Contracted, Lifecycle, TypeOK
  <2>3. /\ recording # None => Final(recording) \in Request
        /\ task.phase = "started" => Final(task.gen) \in Request
        /\ \A g \in Generations : Preview(g) \in Request
    BY Requests DEF Lifecycle, TypeOK, Task
  <2>4. QuietBeforeSending'
    BY <2>1, <2>2, <2>3 DEF Contracted, QuietBeforeSending
  <2> QED BY <1>4, <2>2, <2>4 DEF Contracted
<1>5. CASE UNCHANGED vars
  <2>1. UNCHANGED <<service, generation, previewLoop, recording, task, actor>>
    BY <1>5 DEF vars, dictation, loops
  <2> QED BY <2>1, ContractedStutter DEF Suspended
<1> QED BY <1>1, <1>2, <1>3, <1>4, <1>5 DEF Next

\* The daemon keeps its side of the supervisor's contract, on which everything the
\* supervisor promises rests: never two copies of a request under way, although loops
\* are aborted in the middle of a poll, and never two unanswered cancellations.
THEOREM ContractIsKept == Spec => KeepsContract
<1>1. Init => Contracted
  BY Requests
  DEF Init, ServiceInit, Contracted, OneCopy, QuietBeforeSending, Quiet, InFlight, InChannel,
      Suspended, NoTask
<1>2. Lifecycle /\ Late /\ Contracted /\ [Next]_vars =>
        Contracted' /\ [UNCHANGED service \/ CallerNext \/ ServiceNext]_service
  BY ContractedNext
<1> QED BY <1>1, <1>2, LateInvariant, PTL DEF Spec, KeepsContract
==================================================================================
