-------------------------------- MODULE Server --------------------------------
(***************************************************************************)
(* The socket of the daemon: who may serve it (run, StartupLock and          *)
(* ensure_socket_available, with a stale socket left by a daemon that was    *)
(* killed), and the connections it serves (serve_until, handle_client), each *)
(* by a task of its own that holds one of MAX_CLIENTS permits.  The other    *)
(* end of a connection is a milevox process (run_client): a command, or a    *)
(* follower of the status, as the panel runs one and starts it again when it *)
(* exits.  The actor appears as what a connection sees of it: it answers     *)
(* commands and publishes events, which are numbered; a follower needs only  *)
(* the last.  Audio levels take the same way and are left out.               *)
(***************************************************************************)
EXTENDS Integers, FiniteSets

CONSTANTS
  Daemons,         \* processes that run as the daemon, by number
  Clients,         \* connections that are open at the same time, by number
  MaxClients,      \* MAX_CLIENTS
  None,
  Stale,           \* a socket left behind
  MaxStarts,       \* bound on daemons started
  MaxEvents,       \* bound on events
  MaxConnections,  \* bound on connections
  MaxKills         \* bound on daemons and clients killed

ASSUME ServerAssumption ==
  /\ None \notin Daemons /\ Stale \notin Daemons \cup {None} /\ MaxClients \in Nat \ {0}
  /\ MaxStarts \in Nat /\ MaxEvents \in Nat /\ MaxConnections \in Nat /\ MaxKills \in Nat
  /\ Daemons \subseteq Nat /\ Clients \subseteq Nat /\ IsFiniteSet(Clients)

VARIABLES
  lock,      \* who holds milevox.lock
  socket,    \* whose socket milevox.sock is
  daemon,    \* how far each daemon is
  permits,   \* the free permits of each daemon
  event,     \* the number of the last event of each daemon
  conn,      \* the daemon's end of each connection
  peer,      \* the client's end
  counts     \* starts, events, connections and kills so far, against the bounds

startup == <<lock, socket>>
vars == <<startup, daemon, permits, event, conn, peer, counts>>

(* Requests: a command; status --follow; a line that is too long, malformed  *)
(* or another user's; and a client that never ends its line.                 *)
Requests == {"command", "follow", "refused", "silent"}

Phases == {"off", "locked", "stale", "cleared", "bound", "serving", "closing", "stopping", "ended"}
Listening(d) == d \in Daemons /\ daemon[d] \in {"bound", "serving"}
ActorRuns(d) == daemon[d] \in {"serving", "closing", "stopping"}

Connection(d, step) == [at |-> d, step |-> step, line |-> "none", seen |-> 0, carries |-> 0]
NoConnection == Connection(None, "none")
Holding == {"reading", "submitting", "waiting", "writing", "following", "woken"}
ConnType == [at : Daemons \cup {None}, step : {"none", "queued"} \cup Holding,
             line : Requests \cup {"none"}, seen : 0 .. MaxEvents, carries : 0 .. MaxEvents]
PeerType == [step : {"off", "open", "answered", "failed", "dead"},
             request : Requests \cup {"none"}, shows : -1 .. MaxEvents]
Gone(how) == [step |-> how, request |-> "none", shows |-> -1]

GoTo(d, phase) == daemon' = [daemon EXCEPT ![d] = phase]
Counted(what, maximum) ==
  counts[what] < maximum /\ counts' = [counts EXCEPT ![what] = @ + 1]

-----------------------------------------------------------------------------
(* Starting (run).                                                           *)

(* Numbers are only names: a process and a connection get the first free one. *)
Off(d) == daemon[d] = "off"
Free(c) == peer[c].step # "open" /\ conn[c].step = "none"

\* (Mutant: the lock is shared.)
AcquireLockShared(d) ==
  /\ Off(d) /\ \A e \in Daemons : e < d => ~Off(e)
  /\ Counted("starts", MaxStarts)
  /\ lock' = d
  /\ GoTo(d, "locked")
  /\ UNCHANGED <<socket, permits, event, conn, peer>>

(* StartupLock::acquire: a daemon that does not get the lock gives up.       *)
AcquireLock(d) ==
  /\ Off(d) /\ \A e \in Daemons : e < d => ~Off(e)
  /\ lock = None
  /\ Counted("starts", MaxStarts)
  /\ lock' = d
  /\ GoTo(d, "locked")
  /\ UNCHANGED <<socket, permits, event, conn, peer>>

LetGo(d) == lock' = IF lock = d THEN None ELSE lock

(* ensure_socket_available connects: nobody there, nobody listening, or       *)
(* another daemon.                                                           *)
ProbeSocket(d) ==
  /\ daemon[d] = "locked"
  /\ ~Listening(socket)
  /\ GoTo(d, IF socket = None THEN "cleared" ELSE "stale")
  /\ UNCHANGED <<startup, permits, event, conn, peer, counts>>

RemoveStaleSocket(d) ==
  /\ daemon[d] = "stale"
  /\ socket' = None
  /\ GoTo(d, "cleared")
  /\ UNCHANGED <<lock, permits, event, conn, peer, counts>>

Bind(d) ==
  /\ daemon[d] = "cleared" /\ socket = None
  /\ socket' = d
  /\ GoTo(d, "bound")
  /\ UNCHANGED <<lock, permits, event, conn, peer, counts>>

(* Connections already wait in the backlog.                                  *)
Serve(d) ==
  /\ daemon[d] = "bound"
  /\ GoTo(d, "serving")
  /\ permits' = [permits EXCEPT ![d] = MaxClients]
  /\ UNCHANGED <<startup, event, conn, peer, counts>>

-----------------------------------------------------------------------------
(* The ends of connections.                                                  *)

(* Connections closed by the daemon; a client without its answer fails.      *)
Close(closed) ==
  /\ conn' = [c \in Clients |-> IF c \in closed THEN NoConnection ELSE conn[c]]
  /\ peer' = [c \in Clients |-> IF c \in closed /\ peer[c].step = "open"
                                THEN Gone("failed") ELSE peer[c]]
At(d, steps) == {c \in Clients : conn[c].at = d /\ conn[c].step \in steps}

(* The task of a connection ends, and its permit is dropped.                 *)
TaskEnds(c) ==
  /\ permits' = [permits EXCEPT ![conn[c].at] = @ + 1]
  /\ Close({c})
  /\ UNCHANGED <<startup, daemon, event, counts>>

\* (Mutant: a task that fails keeps its permit.)
TaskFailsWithPermit(c) ==
  /\ Close({c})
  /\ UNCHANGED <<startup, daemon, permits, event, counts>>

TaskFails(c) == TaskEnds(c)

Moves(c, end) ==
  /\ conn' = [conn EXCEPT ![c] = end]
  /\ UNCHANGED <<startup, daemon, permits, event, peer, counts>>

-----------------------------------------------------------------------------
(* The client (run_client, and the status process of the panel).             *)

(* A connection is for a client that connects; one whose process ended is    *)
(* free again once the daemon has noticed.                                   *)
Connect(c, request) ==
  /\ Free(c) /\ \A b \in Clients : b < c => ~Free(b)
  /\ Listening(socket)
  /\ Counted("connections", MaxConnections)
  /\ conn' = [conn EXCEPT ![c] = Connection(socket, "queued")]
  /\ peer' = [peer EXCEPT ![c] = [step |-> "open", request |-> request, shows |-> -1]]
  /\ UNCHANGED <<startup, daemon, permits, event>>

SendRequest(c) ==
  /\ peer[c].step = "open" /\ conn[c].line = "none" /\ peer[c].request # "silent"
  /\ conn' = [conn EXCEPT ![c].line = peer[c].request]
  /\ UNCHANGED <<startup, daemon, permits, event, peer, counts>>

(* Its process is killed or the user gives up; the daemon does not notice.   *)
ClientDies(c) ==
  /\ peer[c].step = "open"
  /\ Counted("kills", MaxKills)
  /\ peer' = [peer EXCEPT ![c] = Gone("dead")]
  /\ UNCHANGED <<startup, daemon, permits, event, conn>>

-----------------------------------------------------------------------------
(* Serving (serve_until, handle_client).                                     *)

(* subscribe: what was published until now counts as seen.                   *)
Accept(c) ==
  LET d == conn[c].at
  IN /\ conn[c].step = "queued" /\ daemon[d] = "serving" /\ permits[d] > 0
     /\ permits' = [permits EXCEPT ![d] = @ - 1]
     /\ conn' = [conn EXCEPT ![c].step = "reading", ![c].seen = event[d]]
     /\ UNCHANGED <<startup, daemon, event, peer, counts>>

(* Without a permit the connection is closed at once.                        *)
Reject(c) ==
  /\ conn[c].step = "queued" /\ daemon[conn[c].at] = "serving" /\ permits[conn[c].at] = 0
  /\ Close({c})
  /\ UNCHANGED <<startup, daemon, permits, event, counts>>

ReadRequest(c) ==
  /\ conn[c].step = "reading"
  /\ \/ conn[c].line = "command" /\ Moves(c, [conn[c] EXCEPT !.step = "submitting"])
     \/ conn[c].line = "follow"
        /\ Moves(c, [conn[c] EXCEPT !.step = "writing", !.carries = event[conn[c].at]])

(* Another user, too long, malformed, ended early, or timed out.             *)
ReadFails(c) ==
  /\ conn[c].step = "reading"
  /\ conn[c].line \in {"none", "refused"}
  /\ TaskFails(c)

Submit(c) ==
  /\ conn[c].step = "submitting"
  /\ IF ActorRuns(conn[c].at) THEN Moves(c, [conn[c] EXCEPT !.step = "waiting"])
                              ELSE TaskFails(c)

NextEvent(d) == Counted("events", MaxEvents) /\ event' = [event EXCEPT ![d] = @ + 1]

(* The actor answers, and may have published the event it answers with.      *)
ActorAnswers(c) ==
  LET d == conn[c].at
  IN /\ conn[c].step = "waiting" /\ ActorRuns(d)
     /\ \/ NextEvent(d)
        \/ UNCHANGED <<event, counts>>
     /\ conn' = [conn EXCEPT ![c].step = "writing"]
     /\ UNCHANGED <<startup, daemon, permits, peer>>

(* The actor is gone: the reply channel or the event channel is closed.      *)
ActorGone(c) ==
  /\ conn[c].step \in {"waiting", "following"} /\ daemon[conn[c].at] = "ended"
  /\ TaskEnds(c)

(* Something else publishes: a worker, a pipeline, a recording.              *)
Publish(d) ==
  /\ ActorRuns(d)
  /\ NextEvent(d)
  /\ UNCHANGED <<startup, daemon, permits, conn, peer>>

AnswerWritten(c) ==
  /\ conn[c].step = "writing" /\ conn[c].line = "command" /\ peer[c].step = "open"
  /\ permits' = [permits EXCEPT ![conn[c].at] = @ + 1]
  /\ conn' = [conn EXCEPT ![c] = NoConnection]
  /\ peer' = [peer EXCEPT ![c] = Gone("answered")]
  /\ UNCHANGED <<startup, daemon, event, counts>>

\* (Mutant: what was published during the write counts as seen.)
EventWrittenForgettingLater(c) ==
  /\ conn[c].step = "writing" /\ conn[c].line = "follow" /\ peer[c].step = "open"
  /\ conn' = [conn EXCEPT ![c].step = "following", ![c].seen = event[conn[c].at]]
  /\ peer' = [peer EXCEPT ![c].shows = conn[c].carries]
  /\ UNCHANGED <<startup, daemon, permits, event, counts>>

EventWritten(c) ==
  /\ conn[c].step = "writing" /\ conn[c].line = "follow" /\ peer[c].step = "open"
  /\ conn' = [conn EXCEPT ![c].step = "following"]
  /\ peer' = [peer EXCEPT ![c].shows = conn[c].carries]
  /\ UNCHANGED <<startup, daemon, permits, event, counts>>

(* The client is gone, or does not read for too long.                        *)
WriteFails(c) == conn[c].step = "writing" /\ TaskFails(c)

(* changed marks as seen what borrow is yet to read.                         *)
FollowerWakes(c) ==
  /\ conn[c].step = "following" /\ conn[c].seen < event[conn[c].at]
  /\ Moves(c, [conn[c] EXCEPT !.step = "woken", !.seen = event[conn[c].at]])
FollowerBorrows(c) ==
  /\ conn[c].step = "woken"
  /\ Moves(c, [conn[c] EXCEPT !.step = "writing", !.carries = event[conn[c].at]])

-----------------------------------------------------------------------------
(* Stopping.                                                                 *)

(* A signal, or accept fails: the listener is dropped with its backlog.      *)
StopServing(d) ==
  /\ daemon[d] = "serving"
  /\ GoTo(d, "closing")
  /\ Close(At(d, {"queued"}))
  /\ UNCHANGED <<startup, permits, event, counts>>

(* serve removes the file of that name, or cannot and goes on.               *)
RemoveSocket(d) ==
  /\ daemon[d] = "closing"
  /\ socket' \in {None, socket}
  /\ GoTo(d, "stopping")
  /\ UNCHANGED <<lock, permits, event, conn, peer, counts>>

(* The actor has stopped and run returns; tasks of connections go on.        *)
RunReturns(d) ==
  /\ daemon[d] = "stopping"
  /\ GoTo(d, "ended")
  /\ LetGo(d)
  /\ UNCHANGED <<socket, permits, event, conn, peer, counts>>

ProcessGone(d) ==
  /\ GoTo(d, "off")
  /\ LetGo(d)
  /\ Close(At(d, {"queued"} \cup Holding))
  /\ permits' = [permits EXCEPT ![d] = 0]
  /\ event' = [event EXCEPT ![d] = 0]
  /\ socket' = IF socket = d THEN Stale ELSE socket

ProcessEnds(d) ==
  /\ daemon[d] = "ended"
  /\ ProcessGone(d)
  /\ UNCHANGED counts

(* Another daemon listens, or a step of the start fails.                     *)
StartFails(d) ==
  /\ daemon[d] \in {"locked", "stale", "cleared", "bound"}
  /\ Counted("kills", MaxKills)
  /\ ProcessGone(d)

DaemonKilled(d) ==
  /\ daemon[d] \in {"serving", "closing", "stopping", "ended"}
  /\ Counted("kills", MaxKills)
  /\ ProcessGone(d)

-----------------------------------------------------------------------------
Init ==
  /\ lock = None /\ socket \in {None, Stale}
  /\ daemon = [d \in Daemons |-> "off"]
  /\ permits = [d \in Daemons |-> 0]
  /\ event = [d \in Daemons |-> 0]
  /\ conn = [c \in Clients |-> NoConnection]
  /\ peer = [c \in Clients |-> Gone("off")]
  /\ counts = [starts |-> 0, events |-> 0, connections |-> 0, kills |-> 0]

Starting(d) == ProbeSocket(d) \/ RemoveStaleSocket(d) \/ Bind(d) \/ Serve(d)
Stopping(d) == RemoveSocket(d) \/ RunReturns(d) \/ ProcessEnds(d)
(* What the task of a connection does by itself, and the actor's answer.     *)
TaskRuns(c) ==
  \/ Accept(c) \/ Reject(c) \/ ReadRequest(c) \/ ReadFails(c) \/ Submit(c)
  \/ ActorGone(c) \/ AnswerWritten(c) \/ EventWritten(c)
  \/ WriteFails(c) \/ FollowerWakes(c) \/ FollowerBorrows(c)
Handling(c) == TaskRuns(c) \/ ActorAnswers(c)

Next ==
  \/ \E d \in Daemons :
       \/ AcquireLock(d) \/ Starting(d) \/ StartFails(d) \/ Publish(d)
       \/ StopServing(d) \/ Stopping(d) \/ DaemonKilled(d)
  \/ \E c \in Clients :
       \/ \E request \in Requests : Connect(c, request)
       \/ SendRequest(c) \/ ClientDies(c) \/ Handling(c)

Spec == Init /\ [][Next]_vars

(* The runtime polls every task that can go on, timers included, and a client *)
(* sends what it has to say.  Nobody has to start or stop a daemon, and the  *)
(* actor need not answer: it may park a Stop for ever.                       *)
Fairness ==
  /\ \A d \in Daemons : WF_vars(Starting(d)) /\ WF_vars(Stopping(d))
  /\ \A c \in Clients : WF_vars(SendRequest(c)) /\ WF_vars(TaskRuns(c))
FairSpec == Spec /\ Fairness

-----------------------------------------------------------------------------
PermitsKept ==
  \A d \in Daemons : ActorRuns(d) \/ daemon[d] = "ended" =>
    permits[d] + Cardinality(At(d, Holding)) = MaxClients

(* The types of all variables; and every permit is free or held by one task,  *)
(* so that none is ever lost to a client that failed (serve_until).          *)
TypeOK ==
  /\ lock \in Daemons \cup {None} /\ socket \in Daemons \cup {None, Stale}
  /\ daemon \in [Daemons -> Phases]
  /\ event \in [Daemons -> 0 .. MaxEvents]
  /\ conn \in [Clients -> ConnType]
  /\ peer \in [Clients -> PeerType]
  /\ permits \in [Daemons -> 0 .. MaxClients]
  /\ PermitsKept

(* A daemon that serves can be reached: the socket is its own, whoever else   *)
(* started, died or stopped before or meanwhile, and no second daemon serves  *)
(* (StartupLock, ensure_socket_available, serve).                            *)
ServesAlone ==
  \A d \in Daemons : daemon[d] \in {"bound", "serving"} => socket = d

(* The actor has the command of the client and has not answered it.          *)
Kept(c) == conn[c].step = "waiting" /\ ActorRuns(conn[c].at)

(* Only the actor can keep a client waiting: a client that connected hears    *)
(* its answer or the end of the connection, however stalled, rejected or      *)
(* unread, unless the actor has its command, keeps it and runs on; once the   *)
(* actor answers or stops that client hears it too.  A follower ends up       *)
(* showing the last event, however events, writes and a stopping daemon fall  *)
(* together, and the connection of a dead one is given up at the latest when  *)
(* something is published (serve_until, handle_client).                      *)
ClientsAreServed ==
  \A c \in Clients :
    /\ peer[c].step = "open" /\ peer[c].request # "follow" /\ ~Kept(c) ~>
         peer[c].step # "open" \/ Kept(c)
    /\ peer[c].step = "open" /\ peer[c].request = "follow" ~>
         peer[c].step # "open" \/ peer[c].shows = event[conn[c].at]
    /\ conn[c].step = "following" /\ peer[c].step = "dead" /\ conn[c].seen < event[conn[c].at] ~>
         conn[c].step = "none"
===============================================================================
