----------------------------- MODULE ServerProofs -----------------------------
(***************************************************************************)
(* The socket, for any number of daemons, connections and permits: a daemon  *)
(* that serves is the one clients reach, and no permit is ever lost.         *)
(***************************************************************************)
EXTENDS Server, FiniteSetTheorems, TLAPS

(* ServesAlone is not inductive: a daemon may replace the socket because it  *)
(* holds the lock, and whoever serves holds it too.                          *)
LockHeld == \A d \in Daemons : lock = d <=> daemon[d] \notin {"off", "ended"}
Alone == daemon \in [Daemons -> Phases] /\ LockHeld /\ ServesAlone

LEMMA AloneInit == Init => Alone
  BY ServerAssumption DEF Init, Alone, LockHeld, ServesAlone, Phases

\* What the invariant looks at.
LEMMA AloneStutter ==
  ASSUME Alone, UNCHANGED <<startup, daemon>>
  PROVE  Alone'
  BY DEF Alone, LockHeld, ServesAlone, startup

LEMMA AloneGone ==
  ASSUME Alone, NEW d \in Daemons, ProcessGone(d)
  PROVE  Alone'
  BY ServerAssumption
  DEF ProcessGone, GoTo, LetGo, Alone, LockHeld, ServesAlone, Phases

LEMMA AloneStarts ==
  ASSUME Alone, NEW d \in Daemons, AcquireLock(d) \/ Starting(d)
  PROVE  Alone'
<1> USE ServerAssumption DEF GoTo, Alone, LockHeld, ServesAlone, Phases
<1>1. CASE AcquireLock(d)
  BY <1>1 DEF AcquireLock, Off
<1>2. CASE ProbeSocket(d)
  BY <1>2 DEF ProbeSocket, startup
<1>3. CASE RemoveStaleSocket(d)
  BY <1>3 DEF RemoveStaleSocket
<1>4. CASE Bind(d)
  BY <1>4 DEF Bind
<1>5. CASE Serve(d)
  BY <1>5 DEF Serve, startup
<1> QED BY <1>1, <1>2, <1>3, <1>4, <1>5 DEF Starting

LEMMA AloneStops ==
  ASSUME Alone, NEW d \in Daemons,
         StopServing(d) \/ Stopping(d) \/ StartFails(d) \/ DaemonKilled(d)
  PROVE  Alone'
<1> USE ServerAssumption DEF GoTo, Alone, LockHeld, ServesAlone, Phases
<1>1. CASE StopServing(d)
  BY <1>1 DEF StopServing, startup
<1>2. CASE RemoveSocket(d)
  BY <1>2 DEF RemoveSocket
<1>3. CASE RunReturns(d)
  BY <1>3 DEF RunReturns, LetGo
<1>4. CASE ProcessGone(d)
  BY <1>4, AloneGone
<1> QED BY <1>1, <1>2, <1>3, <1>4 DEF Stopping, ProcessEnds, StartFails, DaemonKilled

LEMMA AloneServes ==
  ASSUME Alone, NEW c \in Clients,
         (\E request \in Requests : Connect(c, request)) \/ SendRequest(c)
           \/ ClientDies(c) \/ Handling(c)
  PROVE  Alone'
<1>1. UNCHANGED <<startup, daemon>>
  BY DEF Connect, SendRequest, ClientDies, Handling, TaskRuns, Accept, Reject, ReadRequest,
         ReadFails, Submit, ActorAnswers, ActorGone, AnswerWritten, EventWritten, WriteFails,
         FollowerWakes, FollowerBorrows, TaskEnds, TaskFails, Moves
<1> QED BY <1>1, AloneStutter

LEMMA AloneStep == Alone /\ [Next]_vars => Alone'
<1> SUFFICES ASSUME Alone, [Next]_vars PROVE Alone'
  OBVIOUS
<1>1. CASE UNCHANGED vars
  BY <1>1, AloneStutter DEF vars
<1>2. ASSUME NEW d \in Daemons, Publish(d) PROVE Alone'
  BY <1>2, AloneStutter DEF Publish
<1> QED BY <1>1, <1>2, AloneStarts, AloneStops, AloneServes DEF Next

(* A daemon that listens or serves has its own socket at the well-known path, *)
(* for any number of daemons that start, fail, stop and are killed (run,     *)
(* StartupLock, ensure_socket_available, serve).                             *)
THEOREM ServingIsReachable == Spec => []ServesAlone
<1>1. Alone => ServesAlone
  BY DEF Alone
<1> QED BY AloneInit, AloneStep, <1>1, PTL DEF Spec

-----------------------------------------------------------------------------
(* Permits.  That they are kept is not inductive: a task runs only while its *)
(* daemon does, so that a daemon starts with none; and an event is counted    *)
(* before it is numbered.                                                    *)
Counts == [starts : Nat, events : Nat, connections : Nat, kills : Nat]
Alive(d) == ActorRuns(d) \/ daemon[d] = "ended"
Connections ==
  /\ counts \in Counts /\ counts.events <= MaxEvents
  /\ \A d \in Daemons : event[d] <= counts.events
  /\ \A c \in Clients :
       /\ conn[c].step = "queued" => conn[c].at \in Daemons /\ Listening(conn[c].at)
       /\ conn[c].step \in Holding => conn[c].at \in Daemons /\ Alive(conn[c].at)
Typed == TypeOK /\ Connections

\* Typed without the permits.
Shape ==
  /\ lock \in Daemons \cup {None} /\ socket \in Daemons \cup {None, Stale}
  /\ daemon \in [Daemons -> Phases]
  /\ event \in [Daemons -> 0 .. MaxEvents]
  /\ conn \in [Clients -> ConnType]
  /\ peer \in [Clients -> PeerType]
  /\ permits \in [Daemons -> 0 .. MaxClients]
  /\ Connections

LEMMA TypedIsShape == Typed <=> Shape /\ PermitsKept
  BY DEF Typed, Shape, TypeOK

LEMMA HoldersFinite ==
  ASSUME NEW d
  PROVE  /\ IsFiniteSet(At(d, Holding))
         /\ Cardinality(At(d, Holding)) \in Nat
<1>1. At(d, Holding) \subseteq Clients
  BY DEF At
<1> QED BY <1>1, FS_Subset, FS_CardinalityType, ServerAssumption

\* What a step writes into conn and peer as a whole.
LEMMA EndTypes ==
  /\ NoConnection \in ConnType /\ NoConnection.step = "none"
  /\ \A d \in Daemons : Connection(d, "queued") \in ConnType
  /\ \A how \in {"off", "answered", "failed", "dead"} : Gone(how) \in PeerType
  /\ \A request \in Requests : [step |-> "open", request |-> request, shows |-> -1] \in PeerType
  BY ServerAssumption DEF NoConnection, Connection, Gone, ConnType, PeerType, Requests

LEMMA TypedInit == Init => Typed
<1> SUFFICES ASSUME Init PROVE Typed
  OBVIOUS
<1>1. Shape
  BY ServerAssumption, EndTypes
  DEF Init, Shape, Connections, Counts, Phases, Connection, NoConnection, Holding
<1>2. PermitsKept
  BY DEF Init, PermitsKept, ActorRuns
<1> QED BY <1>1, <1>2, TypedIsShape

\* No task comes or goes.
LEMMA PermitsStay ==
  ASSUME Typed, Shape',
         \A d \in Daemons : Alive(d)' =>
           Alive(d) /\ permits'[d] = permits[d] /\ At(d, Holding)' = At(d, Holding)
  PROVE  Typed'
<1>1. PermitsKept'
  <2> SUFFICES ASSUME NEW d \in Daemons, Alive(d)'
               PROVE  permits'[d] + Cardinality(At(d, Holding)') = MaxClients
    BY DEF PermitsKept, Alive, ActorRuns
  <2>1. Alive(d) /\ permits'[d] = permits[d] /\ At(d, Holding)' = At(d, Holding)
    OBVIOUS
  <2>2. permits[d] + Cardinality(At(d, Holding)) = MaxClients
    BY <2>1, TypedIsShape DEF PermitsKept, Alive
  <2> QED BY <2>1, <2>2
<1> QED BY <1>1 DEF Typed, TypeOK, Shape

\* A task ends.
LEMMA PermitReturned ==
  ASSUME Typed, Shape', UNCHANGED daemon, NEW c \in Clients, NEW d \in Daemons,
         c \in At(d, Holding),
         permits' = [permits EXCEPT ![d] = @ + 1],
         At(d, Holding)' = At(d, Holding) \ {c},
         \A e \in Daemons \ {d} : At(e, Holding)' = At(e, Holding)
  PROVE  Typed'
<1>1. Cardinality(At(d, Holding)') = Cardinality(At(d, Holding)) - 1
  <2>1. IsFiniteSet(At(d, Holding))
    BY HoldersFinite
  <2>2. Cardinality(At(d, Holding) \ {c}) = Cardinality(At(d, Holding)) - 1
    BY ONLY <2>1, c \in At(d, Holding), FS_RemoveElement
  <2> QED BY <2>2
<1>2. Cardinality(At(d, Holding)) \in Nat /\ permits \in [Daemons -> 0 .. MaxClients]
  BY HoldersFinite, TypedIsShape DEF Shape
<1>3. PermitsKept'
  <2> SUFFICES ASSUME NEW e \in Daemons, ActorRuns(e)' \/ daemon'[e] = "ended"
               PROVE  permits'[e] + Cardinality(At(e, Holding)') = MaxClients
    BY DEF PermitsKept
  <2>1. permits[e] + Cardinality(At(e, Holding)) = MaxClients
    BY TypedIsShape DEF PermitsKept, ActorRuns
  <2>2. CASE e = d
    BY <1>1, <1>2, <2>1, <2>2, ServerAssumption
  <2>3. CASE e # d
    BY <1>2, <2>1, <2>3
  <2> QED BY <2>2, <2>3
<1> QED BY <1>3 DEF Typed, TypeOK, Shape

\* The steps that leave connections alone, except those that end a process.
LEMMA TypedStarts ==
  ASSUME Typed, NEW d \in Daemons,
         AcquireLock(d) \/ ProbeSocket(d) \/ RemoveStaleSocket(d) \/ Bind(d)
           \/ RemoveSocket(d) \/ RunReturns(d) \/ Publish(d)
  PROVE  Typed'
<1>1. Shape'
  <2> USE ServerAssumption
      DEF Typed, TypeOK, Shape, Connections, Counts, Phases, Listening, Alive, ActorRuns, GoTo
  <2>1. CASE AcquireLock(d)
    BY <2>1 DEF AcquireLock, Off, Counted
  <2>2. CASE ProbeSocket(d)
    BY <2>2 DEF ProbeSocket, startup
  <2>3. CASE RemoveStaleSocket(d)
    BY <2>3 DEF RemoveStaleSocket
  <2>4. CASE Bind(d)
    BY <2>4 DEF Bind
  <2>5. CASE RemoveSocket(d)
    BY <2>5 DEF RemoveSocket
  <2>6. CASE RunReturns(d)
    BY <2>6 DEF RunReturns, LetGo
  <2>7. CASE Publish(d)
    BY <2>7 DEF Publish, startup, NextEvent, Counted
  <2> QED BY <2>1, <2>2, <2>3, <2>4, <2>5, <2>6, <2>7
<1>2. UNCHANGED <<permits, conn>> /\ \A e \in Daemons : Alive(e)' => Alive(e)
  BY DEF Typed, TypeOK, Alive, ActorRuns, GoTo, Off, AcquireLock, ProbeSocket,
         RemoveStaleSocket, Bind, RemoveSocket, RunReturns, Publish
<1> QED BY <1>1, <1>2, PermitsStay DEF At

\* A daemon that starts to serve has no connection accepted.
LEMMA TypedServes ==
  ASSUME Typed, NEW d \in Daemons, Serve(d)
  PROVE  Typed'
<1>1. Shape'
  BY ServerAssumption
  DEF Typed, TypeOK, Shape, Connections, Counts, Phases, Listening, Alive, ActorRuns, GoTo,
      Serve, startup
<1>2. At(d, Holding)' = {} /\ \A e \in Daemons : At(e, Holding)' = At(e, Holding)
  BY DEF Typed, Connections, Alive, ActorRuns, Serve, At
<1>3. PermitsKept'
  <2> SUFFICES ASSUME NEW e \in Daemons, ActorRuns(e)' \/ daemon'[e] = "ended"
               PROVE  permits'[e] + Cardinality(At(e, Holding)') = MaxClients
    BY DEF PermitsKept
  <2>1. CASE e = d
    <3>1. permits'[e] = MaxClients
      BY <2>1 DEF Serve, Typed, TypeOK
    <3>2. At(e, Holding)' = {}
      BY <1>2, <2>1 DEF At
    <3> QED BY <3>1, <3>2, FS_EmptySet, ServerAssumption
  <2>2. CASE e # d
    <3>1. permits'[e] = permits[e] /\ daemon'[e] = daemon[e]
      BY <2>2 DEF Serve, GoTo, Typed, TypeOK
    <3>2. permits[e] + Cardinality(At(e, Holding)) = MaxClients
      BY <3>1 DEF Typed, TypeOK, PermitsKept, ActorRuns
    <3> QED BY <1>2, <2>2, <3>1, <3>2
  <2> QED BY <2>1, <2>2
<1> QED BY <1>1, <1>3 DEF Typed, TypeOK, Shape

\* A process that ends takes its connections along, and a listener its backlog.
LEMMA TypedStops ==
  ASSUME Typed, NEW d \in Daemons,
         StopServing(d) \/ ProcessEnds(d) \/ StartFails(d) \/ DaemonKilled(d)
  PROVE  Typed'
<1>1. Shape'
  <2> USE ServerAssumption, EndTypes
      DEF Typed, TypeOK, Shape, Connections, Counts, Phases, Listening, Alive, ActorRuns, GoTo,
          Close, At, NoConnection, Connection, Holding
  <2>1. CASE StopServing(d)
    BY <2>1 DEF StopServing, startup
  <2>2. ASSUME ProcessGone(d), counts' \in Counts, counts'.events = counts.events
        PROVE  Shape'
    BY <2>2 DEF ProcessGone, LetGo
  <2> QED BY <2>1, <2>2 DEF ProcessEnds, StartFails, DaemonKilled, Counted
<1>2. ASSUME NEW e \in Daemons, Alive(e)'
      PROVE  Alive(e) /\ permits'[e] = permits[e] /\ At(e, Holding)' = At(e, Holding)
  <2> USE <1>2 DEF Typed, TypeOK, Alive, ActorRuns, GoTo, Close, At, Holding
  <2>1. CASE StopServing(d)
    BY <2>1 DEF StopServing, NoConnection, Connection
  <2>2. CASE ProcessGone(d)
    BY <2>2 DEF ProcessGone, NoConnection, Connection
  <2> QED BY <2>1, <2>2 DEF ProcessEnds, StartFails, DaemonKilled
<1> QED BY <1>1, <1>2, PermitsStay

\* A client's own steps: its connection is not accepted yet, or goes on.
LEMMA TypedClient ==
  ASSUME Typed, NEW c \in Clients,
         (\E request \in Requests : Connect(c, request)) \/ SendRequest(c) \/ ClientDies(c)
  PROVE  Typed'
<1>1. Shape'
  <2> USE ServerAssumption
      DEF Typed, TypeOK, Shape, Connections, Counts, Listening, Alive, ActorRuns, Holding, startup
  <2>1. ASSUME NEW request \in Requests, Connect(c, request) PROVE Shape'
    <3>1. Connection(socket, "queued") \in ConnType
      BY <2>1, EndTypes DEF Connect
    <3>2. [step |-> "open", request |-> request, shows |-> -1] \in PeerType
      BY EndTypes
    <3>3. counts' \in Counts /\ counts'.events = counts.events
      BY <2>1 DEF Connect, Counted
    <3>4. \A b \in Clients :
            /\ conn'[b].step = "queued" => conn'[b].at \in Daemons /\ Listening(conn'[b].at)
            /\ conn'[b].step \in Holding => conn'[b].at \in Daemons /\ Alive(conn'[b].at)
      BY <2>1 DEF Connect, Connection
    <3> QED BY <2>1, <3>1, <3>2, <3>3, <3>4 DEF Connect
  <2>2. CASE SendRequest(c)
    BY <2>2 DEF SendRequest, ConnType, PeerType
  <2>3. CASE ClientDies(c)
    BY <2>3, EndTypes DEF ClientDies, Counted
  <2> QED BY <2>1, <2>2, <2>3
<1>2. UNCHANGED <<daemon, permits>>
  BY DEF Connect, SendRequest, ClientDies
<1>3. ASSUME NEW e \in Daemons PROVE At(e, Holding)' = At(e, Holding)
  <2> USE DEF Typed, TypeOK, At, Holding
  <2>1. ASSUME NEW request \in Requests, Connect(c, request)
        PROVE  At(e, Holding)' = At(e, Holding)
    BY <2>1 DEF Connect, Connection, Free
  <2>2. CASE SendRequest(c)
    BY <2>2 DEF SendRequest
  <2>3. CASE ClientDies(c)
    BY <2>3 DEF ClientDies
  <2> QED BY <2>1, <2>2, <2>3
<1> QED BY <1>1, <1>2, <1>3, PermitsStay DEF Alive, ActorRuns

\* A task ends, whatever became of its client.
LEMMA TypedTaskEnds ==
  ASSUME Typed, NEW c \in Clients, conn[c].step \in Holding, TaskEnds(c) \/ AnswerWritten(c)
  PROVE  Typed'
<1> PICK d \in Daemons : d = conn[c].at
  BY DEF Typed, Connections
<1>1. Alive(d) /\ c \in At(d, Holding)
  BY DEF Typed, Connections, At
<1>2. permits' = [permits EXCEPT ![d] = @ + 1] /\ UNCHANGED <<startup, daemon, event, counts>>
  BY DEF TaskEnds, AnswerWritten
<1>3. /\ conn' \in [Clients -> ConnType]
      /\ conn'[c].step = "none"
      /\ \A b \in Clients \ {c} : conn'[b] = conn[b]
  BY EndTypes DEF TaskEnds, AnswerWritten, Close, Typed, TypeOK
<1>4. peer' \in [Clients -> PeerType]
  BY EndTypes DEF TaskEnds, AnswerWritten, Close, Typed, TypeOK
<1>5. permits' \in [Daemons -> 0 .. MaxClients]
  <2>1. At(d, Holding) # {} /\ IsFiniteSet(At(d, Holding)) /\ Cardinality(At(d, Holding)) \in Nat
    BY <1>1, HoldersFinite
  <2>2. Cardinality(At(d, Holding)) # 0
    BY <2>1, FS_EmptySet
  <2>3. permits[d] + Cardinality(At(d, Holding)) = MaxClients
    BY <1>1 DEF Typed, TypeOK, PermitsKept, Alive
  <2>4. permits[d] \in 0 .. MaxClients
    BY <1>1 DEF Typed, TypeOK
  <2>5. permits[d] + 1 \in 0 .. MaxClients
    BY <2>1, <2>2, <2>3, <2>4, ServerAssumption
  <2> QED BY <1>2, <2>5 DEF Typed, TypeOK
<1>6. Shape'
  BY <1>2, <1>3, <1>4, <1>5
  DEF Typed, TypeOK, Shape, Connections, Listening, Alive, ActorRuns, startup, Holding
<1>7. At(d, Holding)' = At(d, Holding) \ {c}
  BY <1>3 DEF At, Holding
<1>8. \A e \in Daemons \ {d} : At(e, Holding)' = At(e, Holding)
  BY <1>1, <1>3 DEF At, Holding
<1> QED BY <1>1, <1>2, <1>6, <1>7, <1>8, PermitReturned

\* A connection is accepted with a permit that is free.
LEMMA TypedAccept ==
  ASSUME Typed, NEW c \in Clients, Accept(c)
  PROVE  Typed'
<1> PICK d \in Daemons : d = conn[c].at
  BY DEF Typed, Connections, Accept
<1>1. /\ conn[c].step = "queued" /\ daemon[d] = "serving" /\ permits[d] > 0
      /\ permits' = [permits EXCEPT ![d] = @ - 1]
      /\ conn' = [conn EXCEPT ![c].step = "reading", ![c].seen = event[d]]
      /\ UNCHANGED <<startup, daemon, event, peer, counts>>
  BY DEF Accept
<1>2. permits[d] \in 0 .. MaxClients /\ permits[d] - 1 \in 0 .. MaxClients
  BY <1>1, ServerAssumption DEF Typed, TypeOK
<1>3. Shape'
  <2>1. /\ conn' \in [Clients -> ConnType] /\ conn'[c].at = d /\ conn'[c].step = "reading"
        /\ \A b \in Clients \ {c} : conn'[b] = conn[b]
    <3>1. conn[c] \in ConnType /\ conn[c].at = d /\ event[d] \in 0 .. MaxEvents
      BY DEF Typed, TypeOK
    <3>2. [conn[c] EXCEPT !.step = "reading", !.seen = event[d]] \in ConnType
      BY <3>1 DEF ConnType, Holding
    <3>3. conn' = [conn EXCEPT ![c] = [conn[c] EXCEPT !.step = "reading", !.seen = event[d]]]
      BY <1>1 DEF Typed, TypeOK, ConnType
    <3> QED BY <3>1, <3>2, <3>3 DEF Typed, TypeOK, ConnType
  <2>2. permits' \in [Daemons -> 0 .. MaxClients]
    BY <1>1, <1>2 DEF Typed, TypeOK
  <2> QED BY <1>1, <2>1, <2>2
    DEF Typed, TypeOK, Shape, Connections, Listening, Alive, ActorRuns, startup, Holding
<1>4. At(d, Holding)' = At(d, Holding) \cup {c} /\ c \notin At(d, Holding)
  BY <1>1 DEF At, Holding, Typed, TypeOK
<1>5. \A e \in Daemons \ {d} : At(e, Holding)' = At(e, Holding)
  BY <1>1 DEF At, Holding, Typed, TypeOK
<1>6. Cardinality(At(d, Holding)') = Cardinality(At(d, Holding)) + 1
  BY <1>4, HoldersFinite, FS_AddElement
<1>7. PermitsKept'
  <2> SUFFICES ASSUME NEW e \in Daemons, ActorRuns(e)' \/ daemon'[e] = "ended"
               PROVE  permits'[e] + Cardinality(At(e, Holding)') = MaxClients
    BY DEF PermitsKept
  <2>1. permits[e] + Cardinality(At(e, Holding)) = MaxClients
    BY <1>1 DEF Typed, TypeOK, PermitsKept, ActorRuns
  <2>2. CASE e = d
    <3>1. permits'[e] = permits[e] - 1
      BY <1>1, <2>2 DEF Typed, TypeOK
    <3> QED BY <1>2, <1>6, <2>1, <2>2, <3>1, HoldersFinite
  <2>3. CASE e # d
    <3>1. permits'[e] = permits[e]
      BY <1>1, <2>3 DEF Typed, TypeOK
    <3> QED BY <1>5, <2>1, <2>3, <3>1
  <2> QED BY <2>2, <2>3
<1> QED BY <1>3, <1>7 DEF Typed, TypeOK, Shape

\* A task goes on.
LEMMA TypedTaskMoves ==
  ASSUME Typed, NEW c \in Clients,
         \/ ReadRequest(c) \/ FollowerWakes(c) \/ FollowerBorrows(c)
         \/ ActorAnswers(c) \/ EventWritten(c)
         \/ conn[c].step = "submitting" /\ Moves(c, [conn[c] EXCEPT !.step = "waiting"])
  PROVE  Typed'
<1> USE DEF Typed, TypeOK
<1> PICK d \in Daemons : d = conn[c].at
  BY DEF Connections, ReadRequest, FollowerWakes, FollowerBorrows, ActorAnswers, EventWritten,
         Holding
<1>1. conn[c].step \in Holding /\ UNCHANGED <<startup, daemon, permits>>
  BY DEF ReadRequest, FollowerWakes, FollowerBorrows, ActorAnswers, EventWritten, Holding, Moves
<1>2. /\ conn'[c].at = d /\ conn'[c].step \in Holding
      /\ \A b \in Clients \ {c} : conn'[b] = conn[b]
      /\ conn' \in [Clients -> ConnType]
  <2>1. conn[c] \in ConnType /\ conn[c].at = d /\ event[d] \in 0 .. MaxEvents
    OBVIOUS
  <2>2. ASSUME NEW end \in ConnType, end.at = d, end.step \in Holding,
               conn' = [conn EXCEPT ![c] = end]
        PROVE  /\ conn'[c].at = d /\ conn'[c].step \in Holding
               /\ \A b \in Clients \ {c} : conn'[b] = conn[b]
               /\ conn' \in [Clients -> ConnType]
    BY <2>2
  <2> HIDE DEF Typed, TypeOK
  <2>3. CASE ReadRequest(c)
    <3>1. [conn[c] EXCEPT !.step = "submitting"] \in ConnType
      BY <2>1 DEF ConnType, Holding
    <3>2. [conn[c] EXCEPT !.step = "writing", !.carries = event[d]] \in ConnType
      BY <2>1 DEF ConnType, Holding
    <3> QED BY <2>1, <2>2, <2>3, <3>1, <3>2 DEF ReadRequest, Moves, Holding, ConnType
  <2>4. CASE FollowerWakes(c)
    <3>1. [conn[c] EXCEPT !.step = "woken", !.seen = event[d]] \in ConnType
      BY <2>1 DEF ConnType, Holding
    <3> QED BY <2>1, <2>2, <2>4, <3>1 DEF FollowerWakes, Moves, Holding, ConnType
  <2>5. CASE FollowerBorrows(c)
    <3>1. [conn[c] EXCEPT !.step = "writing", !.carries = event[d]] \in ConnType
      BY <2>1 DEF ConnType, Holding
    <3> QED BY <2>1, <2>2, <2>5, <3>1 DEF FollowerBorrows, Moves, Holding, ConnType
  <2>6. ASSUME NEW step \in Holding, conn' = [conn EXCEPT ![c].step = step]
        PROVE  /\ conn'[c].at = d /\ conn'[c].step \in Holding
               /\ \A b \in Clients \ {c} : conn'[b] = conn[b]
               /\ conn' \in [Clients -> ConnType]
    BY <2>1, <2>6 DEF ConnType, Typed, TypeOK
  <2>7. CASE ActorAnswers(c) \/ EventWritten(c)
    BY <2>6, <2>7 DEF ActorAnswers, EventWritten, Holding
  <2>8. CASE conn[c].step = "submitting" /\ Moves(c, [conn[c] EXCEPT !.step = "waiting"])
    <3>1. [conn[c] EXCEPT !.step = "waiting"] \in ConnType
      BY <2>1 DEF ConnType, Holding
    <3> QED BY <2>1, <2>2, <2>8, <3>1 DEF Moves, Holding, ConnType
  <2> QED BY <2>3, <2>4, <2>5, <2>7, <2>8
<1>3. peer' \in [Clients -> PeerType]
  <2>1. CASE EventWritten(c)
    <3>1. peer[c] \in PeerType /\ conn[c].carries \in -1 .. MaxEvents
      BY ServerAssumption DEF ConnType
    <3>2. [peer[c] EXCEPT !.shows = conn[c].carries] \in PeerType
      BY <3>1 DEF PeerType
    <3> QED BY <2>1, <3>2 DEF EventWritten
  <2> QED BY <2>1 DEF ReadRequest, FollowerWakes, FollowerBorrows, ActorAnswers, Moves
<1>4. /\ counts' \in Counts /\ counts'.events <= MaxEvents
      /\ event' \in [Daemons -> 0 .. MaxEvents]
      /\ \A e \in Daemons : event'[e] <= counts'.events
  <2>1. CASE ActorAnswers(c) /\ NextEvent(d)
    BY <2>1, ServerAssumption DEF NextEvent, Counted, Connections, Counts
  <2>2. CASE UNCHANGED <<event, counts>>
    BY <2>2 DEF Connections
  <2> QED BY <2>1, <2>2 DEF ReadRequest, FollowerWakes, FollowerBorrows, ActorAnswers,
                            EventWritten, Moves
<1>5. Shape'
  BY <1>1, <1>2, <1>3, <1>4 DEF Shape, Connections, Listening, Alive, ActorRuns, startup, Holding
<1>6. \A e \in Daemons : At(e, Holding)' = At(e, Holding)
  BY <1>1, <1>2 DEF At, Holding
<1> QED BY <1>1, <1>5, <1>6, PermitsStay DEF Alive, ActorRuns

\* A connection is turned away.
LEMMA TypedReject ==
  ASSUME Typed, NEW c \in Clients, Reject(c)
  PROVE  Typed'
<1> USE DEF Typed, TypeOK
<1>1. /\ conn' \in [Clients -> ConnType] /\ conn'[c].step = "none"
      /\ \A b \in Clients \ {c} : conn'[b] = conn[b]
      /\ conn[c].step = "queued"
  BY EndTypes DEF Reject, Close
<1>2. peer' \in [Clients -> PeerType]
  BY EndTypes DEF Reject, Close
<1>3. UNCHANGED <<startup, daemon, permits, event, counts>>
  BY DEF Reject
<1>4. Shape'
  BY <1>1, <1>2, <1>3 DEF Shape, Connections, Listening, Alive, ActorRuns, startup, Holding
<1>5. \A e \in Daemons : At(e, Holding)' = At(e, Holding)
  BY <1>1 DEF At, Holding
<1> QED BY <1>3, <1>4, <1>5, PermitsStay DEF Alive, ActorRuns

LEMMA TypedStep == Typed /\ [Next]_vars => Typed'
<1> SUFFICES ASSUME Typed, [Next]_vars PROVE Typed'
  OBVIOUS
<1>1. CASE UNCHANGED vars
  BY <1>1
  DEF vars, startup, Typed, TypeOK, Connections, PermitsKept, Listening, Alive, ActorRuns, At
<1>2. ASSUME NEW d \in Daemons,
             AcquireLock(d) \/ Starting(d) \/ StartFails(d) \/ Publish(d)
               \/ StopServing(d) \/ Stopping(d) \/ DaemonKilled(d)
      PROVE  Typed'
  BY <1>2, TypedStarts, TypedServes, TypedStops DEF Starting, Stopping
<1>3. ASSUME NEW c \in Clients, Handling(c) PROVE Typed'
  <2>1. CASE ReadFails(c) \/ WriteFails(c) \/ ActorGone(c) \/ AnswerWritten(c)
             \/ (conn[c].step = "submitting" /\ TaskFails(c))
    BY <2>1, TypedTaskEnds
    DEF ReadFails, WriteFails, ActorGone, AnswerWritten, TaskFails, Holding
  <2>2. CASE Submit(c)
    BY <2>1, <2>2, TypedTaskMoves DEF Submit
  <2> QED BY <1>3, <2>1, <2>2, TypedAccept, TypedReject, TypedTaskMoves DEF Handling, TaskRuns
<1>4. ASSUME NEW c \in Clients,
             (\E request \in Requests : Connect(c, request)) \/ SendRequest(c) \/ ClientDies(c)
      PROVE  Typed'
  BY <1>4, TypedClient
<1>5. CASE Next
  <2>1. CASE \E d \in Daemons :
               AcquireLock(d) \/ Starting(d) \/ StartFails(d) \/ Publish(d)
                 \/ StopServing(d) \/ Stopping(d) \/ DaemonKilled(d)
    BY <1>2, <2>1
  <2>2. CASE \E c \in Clients :
               (\E request \in Requests : Connect(c, request))
                 \/ SendRequest(c) \/ ClientDies(c) \/ Handling(c)
    BY <1>3, <1>4, <2>2
  <2> QED BY <1>5, <2>1, <2>2 DEF Next
<1> QED BY <1>1, <1>5

(* The variables have their types and no permit is ever lost: each is free or *)
(* held by one task of a connection, for any number of daemons, connections  *)
(* and permits, whatever clients do (serve_until, handle_client).            *)
THEOREM PermitsAreKept == Spec => []TypeOK
<1>1. Typed => TypeOK
  BY DEF Typed
<1> QED BY TypedInit, TypedStep, <1>1, PTL DEF Spec
===============================================================================
