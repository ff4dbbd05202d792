# TLA+ models of Milevox

Milevox is a speech-to-text daemon. One actor task owns the dictation, other
tasks talk to it through a bounded mailbox, and a supervisor task owns the worker
process that holds the speech model. A dictation goes from the microphone through
the speech model and a text provider to the active window or the clipboard. This
directory models the daemon with the supervisor, a dictation from end to end, what is
kept on disk, and the socket with its clients; it model-checks them with TLC and
proves facts about them with TLAPS.

Source paths below are those of the repository (`src/daemon.rs` and so on).

## The system

| part | state it keeps | operations | talks to |
| --- | --- | --- | --- |
| dictation actor, `src/daemon.rs` (`Daemon`) | recording, pipeline, `canceling_generation`, generation counter, last preview, level, model status, published event, parked Stops, latest transcript | Start, Stop, Toggle, Cancel, settings, tokens, debug; progress, preview, level, capture end, completion, cancellation end, model status, shutdown | mailbox of 16 (`mpsc`), event and level watches, supervisor |
| pipeline task, `run_pipeline` | the audio of one dictation | decode, refine, deliver, write the debug entry, post `Completed` | supervisor, post-processing, output, actor |
| preview and level loops | what was already decoded | a preview decode, a level every 80 ms, `CaptureEnded` | supervisor, actor |
| model watcher, restart waiter | none | forward the model status; report that the worker is back | supervisor's watch, actor |
| supervisor, `src/transcription.rs` | worker process, queue of finals, one preview slot, highest canceled generation, status watch | push, pop, cancel, start and replace the worker, serve without a model | command channel of 32, oneshot replies, worker's pipes |
| IPC server, `serve_until`, `handle_client` | 16 permits | accept, read one command, reply or follow the status | actor |
| IPC client and command line, `src/ipc.rs`, `src/main.rs` | none | send a command, print the reply | IPC server |
| startup, `StartupLock`, `ensure_socket_available` | lock file, socket | exclude a second daemon, remove a stale socket | file system |
| audio capture, `src/audio.rs` | pool of 16 blocks, sample buffer, first capture issue | callback, capture worker, finish | level and preview loops |
| text delivery, `src/output.rs` | none | check the target window, type, fall back to the clipboard, time out | pipeline |
| debug log, `DebugLog`, `append_debug_log` | FIFO of appends and clears, a log and its backup | append, rotate, cap, clear | pipeline, actor |
| settings and tokens, `src/config.rs`, `src/credentials.rs`, `src/private_file.rs` | copies in memory, files on disk | reload, change, save atomically | actor |
| post-processing, `src/post_processing.rs` | none | call a provider, validate, fall back to the raw text | pipeline |
| Omarchy GUI, `guis/omarchy` | status on display | follow the status, run actions, reconnect | command line |
| paths, installers, packaging | none | sequential scripts and pure functions | |

What is hard in it: the actor is suspended inside `cancel()` while everything
else goes on; tasks are aborted, some of them without being awaited; results of
canceled dictations arrive late; a Stop is parked until another task has ended;
the worker breaks, times out, exits or does not load any more; and a full mailbox
blocks its senders. The list of hazards in `PROJECT.json` names the lines.

What makes each part correct:

- *actor*: one dictation at a time, each ends exactly once; what is displayed
  matches what is done; every command is answered once and a Stop after the end
  of its dictation; nothing is delivered after a cancellation.
- *supervisor*: a request is held in one place and answered once; nothing of a
  canceled generation is decoded; finals are not starved; cancellations return.
- *IPC server and startup*: permits come back, one daemon owns the socket.
- *capture*: audio is in order and the first issue is the one reported.
- *delivery*: a text goes to the window it was dictated for, or the clipboard.
- *debug log*: within its limit, in order, and empty after a clear.
- *settings*: memory and disk agree, or the user is told; a crash keeps a whole file.
- *GUI*: the display ends up at the daemon's last event.

## Modules

- `Transcriber` is the contract between the daemon and the supervisor: the command
  channel, the set of requests the supervisor has taken, the replies, the reply of
  a cancellation, and the watched model status. `ServiceNext` says what the
  supervisor may do, `CallerNext` what its callers may do.
- `Daemon` (extends `Transcriber`) is the actor with its mailbox and tasks. Each
  branch of `Daemon::run` and `handle_command` is an action `Handle...`; the
  helpers `StartRecording`, `FinalizeRecording`, `BeginCancel`, `QuiescentEvent`
  and so on are the methods of these names. `cancel()` awaits the supervisor, so
  it is two actions: `BeginCancel` up to the await, `FinishCancel` from it on; the
  variable `actor` says that the actor is suspended in between. The tasks are
  `Pipeline...`, `Preview...`, `Level...`, `Restart...`, `Watcher...`.
- `DictationLife` is what a user is promised about dictations, without messages, tasks or
  a model: one is open at a time, its text leaves at most once and while it is open, it
  ends once and truthfully, and a result is put on display at an end only. `Daemon`
  refines it (`LivesUpToPromise`).
- `Supervisor` is `supervise_worker` and what it calls: the phases are the places
  in that function, `finals`, `slot`, `canceledGen` are `RequestQueue`, `active` is
  the request in `run_supervised_request`. `Contract` instantiates `Transcriber`
  with `accepted` refined to the requests in the queue and with the worker.
- `System` is `Daemon` with `Supervisor` in the place of the contract, as `run` in
  `src/daemon.rs` puts them together.
- `PrivateFile` is `src/private_file.rs`: a directory, the system calls on it, and its
  functions as sequences of these calls. The file system keeps apart what processes
  see (`dir`, `data`) and what a crash may leave (`survivors`: the directories since
  the last sync of the directory; `disk`: the contents since the last sync of a file).
- `Storage` has two of these directories. The actor's commands on settings and tokens
  are `UpdateSettings`, `UpdateDebug`, `UpdateToken` up to their save and
  `SettingsSaved`, `TokenSaved`, `SaveFailed` after it. The `DebugLog` task takes its
  queue one command at a time (`QueueTakes`, `LogCall`, then `Appended`,
  `DebugCleared` or `ClearFailed`). `ProcessKilled`, `MachineCrashes` and
  `EditByHand` may come between any two calls, and `StartDaemon` reads it all again.
- `SavedFile` is a register of whole values: replaced at one instant, acknowledged when no
  crash can undo it, in use only then. `Storage` refines it twice, for `config.toml` and
  for the credentials (`FilesAreRegisters`); `Saves` says what a save writes and what the
  daemon goes on with, which differ in a model left behind in an inline table.
- `Capture` is one recording: the callback, the capture worker, `finish` and the
  preview loop run as threads of their own, an action for each piece they do between
  two things another thread can see. A frame is its number and a sample the number of
  the frame it stands for, so that order, gaps and repetitions show.
- `Transcript` holds the pure algorithms of `src/post_processing.rs` as operators with
  the names of the functions: the parsers of spoken numbers, `AnalyzeRaw`,
  `StripSupportedFormatting` and `SuspiciousError`. `Instructions` is the reference
  they are held against: a script of clauses and items, how it is said (`Spoken`), and
  what the instructions of the provider make of it (`Written`). `Misread` and
  `TakesMoneyBack` name the scripts on which the code parts from the instructions.
- `Pipeline` is `run_pipeline` with the provider and with the child processes hyprctl,
  wtype and wl-copy, which run on their own, fail, hang and are killed; `DropTask` is
  the abort at any await. `Dictation` puts `Capture` and `Pipeline` one after the other.
- `Server` is the socket: `run` from the lock to the socket's removal for each of
  several daemons (`daemon`), the connections of `serve_until` and `handle_client`
  (`conn`), and the milevox processes at their other ends (`peer`), a follower of the
  status among them. `TaskRuns` is what the task of a connection does by itself,
  `ActorAnswers` the one step it waits for the actor in.
- `MCDaemon`, `MCSupervisor`, `MCSupervisorLive`, `MCSystem`, `MCStorage`,
  `MCDictation` and `MCServer` are the instances for TLC.
- `DaemonProofs` and `MailboxProofs` hold the theorems about `Daemon`, `SupervisorProofs`,
  `SystemProofs`, `DictationProofs` and `ServerProofs` those about the modules they are
  named for, `StorageProofs` and `LogProofs` the two about `Storage`: one for the
  configuration directory, one for the debug log.

Nothing in a module that is proved about is recursive. `Supervisor` states the queue that
`SelectSeq` leaves as `Retained`, `Capture` the flattened buffer by its indices, and
`Transcript` has its two loops as recursive functions.

`Storage`, `Dictation` and `Server` each look at one side of the daemon and show of the
actor what this side sees: `Storage` when dictations are under way and what they
append, `Dictation` the task of one dictation, `Server` that commands may be answered and
events published. What the actor does about all of it is `Daemon`.

Abstractions of `Daemon` and `Supervisor`: a transcript, a preview or a level is the generation
it comes from; an event is its state, its transcript, its partial transcript and
the codes of its notices; the output target travels with the generation and is left
out (it is compared together with the generation and never differs when that agrees).
The level loop reports only a level that changes something, and only when no level
is in the mailbox. `abort()` of a loop without `await` leaves it in `dying`, from
which it may finish the poll that was under way: send at most one message or
request. The settings, token and debug commands are one action, `HandleConfigure`:
refused, or replacing the event; the queries only reply. `outcome` and `output` are
history variables. The command channel of the supervisor holds 32 in the code and is
unbounded here; on the instances with two dictations it never holds more than 3.

Abstractions of the other modules. A setting is its value, and of the form of the file
only whether `post_processing` is an inline table; a token is a name, a debug
entry the dictation it is of and a size; a file has its contents or, when they did not
reach it whole, `Torn`. Temporary files have fresh names, and one that is left behind is
never met again. The resampler works at whole ratios and is a delay line of one sample,
which keeps its bookkeeping (delay, trimming, flushing) and leaves out its arithmetic. In
the preview every sample is a word, `Speech` says which, and the same word may be said at
several samples: the code compares the words, and the property asks at which sample each
shown word was said. Texts are token sequences;
splitting text into words is left out, unsafe characters and unsupported markup are
marks of a segment. hyprctl is asked once where the code asks for the instance first. A
client's request is its kind; the levels a follower may ask for are left out.

Operators marked "Mutant" are alternatives no specification uses: each is a plausible
mistake which, put in the place of the definition after it, breaks a property.

## Runs

| run | instance | shows |
| --- | --- | --- |
| `daemon` | `MCDaemon.cfg`: 2 clients, 2 dictations, all commands, all worker faults, no loops | `OneActivity`, `StateMatchesActivity`, `EveryCommandIsSomewhere`, `StopWaitsForTheEnd`, `SilentAfterCancel`, `TypeOK` |
| `daemon_late` | `MCDaemonLate.cfg`: 3 clients, 2 dictations, mailbox of 4, Stop, Toggle, Cancel | `NoDictationForgotten`, `ResultsAreCurrent` with results as late as they can be; `LivesUpToPromise`, the refinement of `DictationLife` |
| `daemon_loops` | `MCDaemonLoops.cfg`: 1 client, 2 recordings with both loops | `NothingStaleOnDisplay`, `NotCutShort` |
| `daemon_live` | `MCDaemonLive.cfg`: 2 clients, 1 dictation, level loop | `StopIsAnswered`, `CancelingEnds`, `DictationsEnd`, `ModelLossIsShown`, `ShutdownCompletes` |
| `supervisor` | `MCSupervisor.cfg`: the most general callers, 2 generations, all faults | `KeepsPromises` (it implements `Transcriber!ServiceSpec`), `CanceledIsGone`, `HeldOnce`, `TypeOK` |
| `supervisor_live` | `MCSupervisorLive.cfg`: callers that listen, channel of 3 | `FinalsAreAnswered`, `CancelsAreAnswered`, `RestartsEnd` |
| `system` | `MCSystem.cfg`: 1 client, 2 dictations, preview loop, model may fail to load | `ImplementsDaemon`: both together are the daemon with the contract; `KeepsContract`, the other half of that argument |
| `storage` | `MCStorage.cfg`: 2 providers with 1 model each, log limit of 2 entries, oversized log and backup at the start, 3 operations, 1 crash or kill | `FilesAreRegisters`, `PromisesKept`, `StaysStartable`: acknowledged settings and tokens last and never keep the daemon from starting, but for a model left behind; `ClearedIsGone`, `LogsStayBounded` for the debug log; `TypeOK` |
| `dictation` | `MCDictation.cfg`: pool of 2 blocks of 2 frames, 7 frames, limit of 5 samples, 2 source rates, a word said three times; 2 windows, 2 typed parts; some 760 scripts | `AudioIsWhole`, `PreviewFollows` for the capture; `TextIsFaithful` for the validator; `ReportIsTrue`, `OnlyTypesWhileTyping` for the delivery; `TypeOK` with no block ever lost |
| `server` | `MCServer.cfg`: 2 daemons, 2 connections, 1 permit, 1 kill | `ServesAlone`, `ClientsAreServed`, and that no permit is lost (`TypeOK`) |
| `system_stop` | `MCSystemStop.cfg`: 1 client, 1 dictation, model may fail to load | violates `StopIsAnswered` |
| `daemon_delivered` | `MCDaemonDelivered.cfg`: 2 clients, 1 dictation, no faults | violates `CanceledMeansUndelivered` |

Bounds. Two generations are enough for what concerns "late" messages: an older and
a newer dictation; every property compares at most two. Two clients give a parked
Stop and somebody who cancels, starts or shuts down meanwhile. A mailbox of 1 makes
every sender block at some time, and messages of different tasks still arrive in
every order; but what is in it was sent after the message the actor handles. A
completion is dangerous when it was sent before its dictation was canceled, and most
of all when the next dictation has a pipeline already: a cancel, a start and a stop of
clients that are not parked, then the completion. Hence the three clients and the
mailbox of 4 in `daemon_late`. `MaxGeneration` stops `OpenMicrophone` (Start then only
fails): all runs therefore have `CHECK_DEADLOCK FALSE`, and the daemon may really stop after a
shutdown. `Observed` names the commands whose reply is kept in the state after it
was sent; without it a replied client is as good as a new one. `MaxQueued` bounds
the command channel in `supervisor_live`. `Permutations(Clients)` is a symmetry of
`daemon` and `daemon_late` only, which check no liveness.

Three operations in `storage` are a save, a second one that meets what the first left, and
a dictation or clear in between; a second crash finds nothing the first did not, as a
crash leaves all files as after a start. `LogInodes` and `ConfigInodes` are as many files
as can have a name at a time, so that `Create` never lacks one. In `dictation` seven
frames are more than the pool holds and give more samples than the limit at ratio 1, and
odd blocks at ratio 2; a preview window of two samples overlaps the last by one. The
scripts have up to two items of each kind, in one clause or two, a correction between two items, or one
number out of a list with every scale, carry and gap; `Near` gives for each what a provider
may take it for, which differs in an item, the format or the value. No script is left out:
those that the validator reads otherwise than the instructions are in the run, and
`TextIsFaithful` claims less of them (see below). At ratio 1 the samples 2, 3 and 4 are the
same word, so that windows repeat it and the longest overlap is not the true one; at ratio
2 no word is said again and the preview has to be all of the speech. In `server` one permit makes every connection compete for it, and two daemons and
one kill give each order of lock, stale socket and removal. The dictation ends, daemons
may all have stopped and the operations run out: these runs have `CHECK_DEADLOCK FALSE`
too.

Fairness. `DaemonFairness`: Tokio polls every task that is ready (weak fairness of
the actor and of the steps that wait for nothing), and its `mpsc` channel admits
blocked senders in the order they came (strong fairness of the steps that need room
in the mailbox); a recording ends at the latest at its limit (`CaptureEnds`); a task
that waits for the status to leave Loading is woken when it does. Commands are issued
without fairness. `ServiceFairness` and `SupervisorFairness`: the deadlines for
loading a model and for an inference bound what the supervisor waits for, and while a
request runs `select!` polls the command channel and the worker in random order.
One wait has no deadline: `send_worker_request` is awaited
before the deadline is set and outside `select!`, so that the worker is taken to read the
frame it is sent (a worker that never reads would hold the supervisor up, and with it
`FinalsAreAnswered` and `CancelsAreAnswered`).

`Server`'s `Fairness`: Tokio
polls the tasks that start, serve and stop a daemon and those of the connections, its
timers included, so that a read or a write that would wait for ever times out; a client
sends the line it has to say. That the actor answers is not assumed: a parked Stop may wait
for ever (`system_stop`), and `ClientsAreServed` excepts the command that the actor keeps
(`Kept`), whose connection also keeps its permit; once the actor answers or stops, the
client must hear it. That a daemon which was told to stop gets to its end (`RunReturns`)
is `ShutdownCompletes` of `Daemon`, taken over here. Nobody is made to connect, publish,
stop or die.

No worker is made to break or exit. The runs about liveness leave out the fault
"exit" (a worker that exits whenever it is idle): the code restarts it without
limit and looks for an exit before it looks for commands, so nothing is promised then.

Two runs find that the code does not do what a text of the repository says:

- `system_stop`. `docs/configuration.md` says that `record stop` waits "and reports
  any terminal failure". A final decode that waits in the queue behind a preview is
  kept by `serve_fatal_worker` when the preview's worker breaks and the next one does
  not load; its reply never comes, and neither does that of the parked Stop.
  (A cancellation does end it.) `daemon_live` has no preview loop, so a final is
  never behind another request there, and shows that nothing else keeps a Stop
  waiting; `FinalsAreAnswered` excepts the phase "fatal" for the same reason.
  `DictationsEnd` has the same limit: with a preview loop, the dictation of that final
  does not end either, and the property is claimed of instances without one.
- `daemon_delivered`. `cancel()` tells a parked Stop "Dictation was canceled before
  delivery finished". The text is delivered before its completion reaches the actor;
  a Cancel handled in between says so of a text that was delivered.

## Proofs

TLAPS proves the following for all values of the constants that satisfy the assumptions
in the modules. Of `Transcriber` and `Daemon` these are `MaxGenerationAssumption`,
`FaultsAssumption`, `ClientsAssumption`, `InboxCapacityAssumption`, `LoopsAssumption` and
`CommandsAssumption`; of `Storage`, `CatalogAssumption` (the default provider has its
default model), `LogAssumption` (an entry fits the log: `bounded_debug_entry`),
`BoundsAssumption`, `FilesAssumption`, `InputsAssumption`, `TornAssumption`,
`FoundAssumption`; of `Capture` and `Pipeline`, `CaptureAssumption` and
`PipelineAssumption`; of `Server`, `ServerAssumption`. They give the constants their
types, keep the special values apart and ask for at least one block, sample or permit.

Each property of the runs that is an invariant, speaks of single steps or is a refinement
is proved, except `TextIsFaithful`. None of them but
`TypeCorrect` is inductive as it stands; the invariants are:

| module | theorems | inductive invariant |
| --- | --- | --- |
| `DaemonProofs` | `TypeCorrect`, `AtMostOneActivity`, `EveryDictationAccountedFor`, `DictationsEndOnce` | `Lifecycle == TypeOK /\ OneActivity /\ NoDictationForgotten` |
| | `DisplayMatchesActivity`, `DisplayIsNeverStale`, `ResultsStayCurrent` | `StateMatchesActivity`, `NothingStale`, `Current`, each over `Lifecycle` |
| `MailboxProofs` | `EveryCommandIsKept`, `StopsWaitForTheEnd` | `Somewhere`; `ParkedOnADictation` with `SettledReplies` |
| | `NothingAfterCancel`, `RecordingsRunTheirCourse` | `Late == PipelineHasItsTask /\ CaptureEndsEndTheirLoop` |
| | `ContractIsKept` | `Contracted == OneCopy /\ QuietBeforeSending` |
| | `DaemonKeepsItsPromise` | `TextIsKnown`, over `Lifecycle` and `Late` |
| `SupervisorProofs` | `SupervisorIsTyped`, `CancellationReachesAll`, `RequestsAreHeldOnce`, `SupervisorKeepsPromises` | `Supervising == TypeOK /\ StatusFollows /\ Holding /\ ChannelOK` |
| `SystemProofs` | `SystemIsTheDaemon`, `SystemKeepsContract`, `SystemDisplayIsNeverStale`, `SystemKeepsItsPromise`, `SystemIsSafe`, `SystemStepsAreSafe`, `DaemonCallsSafely` | `Together == Lifecycle /\ Late /\ Contracted /\ Supervising /\ Linked` |
| `StorageProofs` | `StorageIsTyped`, `PromisesSurvive`, `SettingsStayStartable` | `Storing == TypeOK /\ Counting /\ ClearAwaited /\ Durable` |
| | `FilesImplementRegisters` | `Storing` and `Stillness` |
| `LogProofs` | `ClearsLast`, `LogsAreBounded` | `Storing /\ Logging`, with `Logging == LogFiles /\ QueueIsClear /\ DictationsAreClear` |
| `DictationProofs` | `DictationIsTyped`, `AudioStaysWhole`, `PreviewKeepsUp`, `ReportsAreTrue`, `TypingIsAwaited` | `Dictating == Recording /\ PreviewOK /\ Delivering` |
| | `NumbersAreReadBack` | none: it is about an operator |
| `ServerProofs` | `ServingIsReachable`, `PermitsAreKept` | `Alone`, which adds `LockHeld` to `ServesAlone`; `Typed`, which adds `Connections` to `TypeOK` |

*Life of a dictation.* Neither conjunct of `Lifecycle` is inductive alone: that a Start may
take the next generation needs the older ones to be the current activity or ended, and
that an ending dictation is the open one needs that recording, pipeline, canceling and a
suspended cancellation exclude each other. Only eight actions touch these fields; the
others are one lemma, `LifecycleStutter`. `NothingStale` says of level, preview and event
whose they may be (`UnderWay`); a handler either clears the three or leaves the
dictation alone. `Current` names the dictations with a result (`Yielded`); the newest is
`latest` because a result can only come from the open generation.

*Mailbox.* A command is in the mailbox, parked, or owned by a suspended cancellation, and
in one of them only (`Somewhere`); the proof works on the mailbox as a set (`Mail`) with
at most one command of a client, and `Posted`, `Taken` say what sending and receiving do
to it. What makes late messages harmless is the order in which a task sends: a completion
is the last message of its pipeline task, a capture end the last of its level loop
(`Late`). So a completion of a canceled dictation, which is still in the mailbox, finds
another generation on record.

*The promise to the user.* For `DaemonKeepsItsPromise` each action of `Daemon` is an action
of `DictationLife` or leaves its four variables alone: `FinishCancel` is `IsCanceled`, the
pipeline's delivery is `Send`, a completion is `EndsWithResult` or `Fails`. That the report
is true is known only two tasks and a mailbox later: `TextIsKnown` carries it from the
delivery through the task's result to the completion that is on its way.

*Contract and composition.* The daemon is proved with the contract of `Transcriber` in the
supervisor's place. Three facts make that an argument about the program. The daemon keeps
its side (`KeepsContract`): it sends a request only when nothing of it is in flight
(`QuietBeforeSending`), and one cancellation at a time. The supervisor keeps its own side
against any caller that does (`SupervisorKeepsPromises`, a refinement with a step for each
of its actions; the queue after a cancellation is any sequence of the requests that stay,
in order). And the composition of the two implements the daemon (`SystemIsTheDaemon`):
`Linked` ties what the contract says is accepted to what the supervisor holds, and the
lemmas `SameSteps`, `SameService` and `SameCaller` carry the definitions of one instance of
the contract over to the other. Every theorem about the daemon then holds of the two
together: `SystemIsSafe`, `SystemDisplayIsNeverStale` and `SystemStepsAreSafe` state its
invariants and action properties, `SystemKeepsItsPromise` the refinement of `DictationLife`;
`DaemonCallsSafely` states the supervisor's with this daemon as its caller.

*Storage.* `PromisesKept` and `StaysStartable` speak of what the next start would read, and
so of every directory a crash may leave. `SurvivorsAreWhole` says that each holds whole,
synced files; `CommandIsSaved` follows a save through its five calls, that is, what has to
be known after each for the next to be safe: contents in the temporary file before its
sync, on the disk before the rename, in place before the sync of the directory. A save
writes what memory gets when it is acknowledged, or that with the model that was in the
file, where the provider changes in an inline table (`LeavesModel`). What was
promised is then in all survivors and in whatever is being saved (`Promised`); for tokens
in memory too, from where the next save starts.

For `FilesImplementRegisters` the rename is the instant at which the register's value
changes, and the sync of the directory takes the older values away; all other calls, of
either file and also failing, are stutters, for which the same two invariants say what the
survivors hold. `Stillness` (a daemon that does not run has nothing in memory) makes a
start a `Load`.

*Debug log.* No file that a process finds or a crash may leave holds an entry of a cleared
dictation (`FilesAreClear`), and the calls still to be made write none (`CallsAreClear`).
A clear is the last command in the queue (`QueueIsClear`), since the actor waits for it,
and when it is acknowledged it has unlinked both names (`ClearUnderWay`). For the limit, a
log that is too long is cut before it becomes the backup (`CutBeforeRotation`).

*Dictation.* `Recording` follows the frames backwards from the callback to the worker:
its input, the queued blocks and the block in hand link up, without a gap as long as no
issue is reported (`InOrder`, `Links`); the worker has put the frames up to `last` into
the resampler, which has given every ratio-th of them to the buffer but for one in its
delay line and a rest of less than a chunk pending (`Resampling`). A limit or a loss
ends that, and only order remains. `Flattening` shows that the chunks read back as the
buffer, for any chunk size and start. For the preview, what was heard ends with
the words that the window begins with, so the overlap that merging finds is that one or a
longer one, in which words are said again (`Merging`). Either way the samples after it are
put on top in their order and the newest word stays the last (`HearsOn`, `EndsOn`); if no
window repeats a word the overlap is the true one and nothing is missing. A snapshot taken late is that of the moment the window
was counted, as the buffer only grows (`SamplesGrow`, `PreviewStays`). For the delivery,
a child runs only in the step that waits for it (`ChildrenAreAwaited`), so that nothing
changes the screen or the clipboard behind the result that will be reported.

*Numbers.* `NumbersAreReadBack` proves the part of the validator that is arithmetic: what
`Spell` makes of a number below 10^12 `ParseCardinal` reads back, wherever it stands; the
integers of TLC end at 2^31. The loop of `parse_cardinal` is a recursive function, and a
definition of that form says something only if such a function exists. That needs no
induction here: each round asks only for rounds with a smaller last scale
(`RoundDependsOnLower`), there are three scales, and so the rounds agree after four
(`RoundsAgree`, `GroupsGoOn`). `ReadsUnderThousand` reads a group, `LastGroup` and
`ScaledGroup` are one round, and `ChunkRead` goes through billions, millions, thousands.

*Server.* A daemon removes and binds a socket of the same name as another's; `LockHeld` adds
that whoever is between its start and its end holds the lock, and so nobody else is. For
the permits, `Connections` adds that an accepted connection belongs to a daemon that is
there; without it a permit could be returned to a daemon that was started since. The
counting is in two lemmas, `PermitsStay` and `PermitReturned`, on the cardinality of the
holders.

The proofs rest on lemmas about the helpers (`Posting`, `Taking`, `EventTypes`,
`TypedFinalize`, `Thinning`, `Joined`, ...), one per idea, and have one step per action.

Only model-checked, and why:

- `TextIsFaithful`. It compares what the validator computes with the instructions, for each
  script: its loops are recursive, and what a recursive definition computes for texts of
  every length needs induction over data, for which the provers have no rule they can
  apply. The scripts are data of the instance anyway. Of the parsers, cardinals are proved;
  ordinals, decimals, times and amounts are only checked.
- All liveness (`StopIsAnswered`, `CancelingEnds`, `DictationsEnd`, `ModelLossIsShown`,
  `ShutdownCompletes`, `FinalsAreAnswered`, `CancelsAreAnswered`, `RestartsEnd`,
  `ClientsAreServed`): it rests on fairness and ENABLED, which are out of the provers' reach.

## What the models leave to say

Found while modelling, and left as remarks since no text of the repository is against
them or the models state the weaker fact:

- After a token's save failed at the sync of the directory, the token is on the disk and
  not in memory. `remove_token` then finds nothing, saves nothing and says "No stored
  token was configured"; after a restart the token is there. `PromisesKept` promises the
  removal of tokens that memory holds. In the same way, a clear of the debug log after
  one whose directory sync failed finds no files and does not sync (`cleared.lasting`).
- The append that a canceled dictation queued may run after `debug disable` was
  acknowledged, and `debug clear` creates the state directory with logging disabled;
  `docs/diagnostics.md` says that Milevox does not touch it then.
- `update_settings` reads the file twice, for the check and for the document it changes. A
  hand edit between the two is combined with the command unchecked; `EditByHand` comes
  between commands only.
- A crash after `set_len` and before the sync leaves an oversized backup until the next
  append caps it.
- `docs/configuration.md` says that settings can be changed live, and the test
  `targeted_updates_preserve_comments_order_and_unrelated_values` wants the model gone after
  a change of the provider. `save_post_processing` takes it out of a `[post_processing]`
  table, but not out of an inline table, which `Config::load` accepts and which a save
  itself writes when the file or the section is missing. So `milevox settings set --model X`, then
  `settings set --provider` another one leaves X in the file and nothing in memory: the next start
  reads X, and refuses to start if post-processing is enabled and X is none of the new
  provider's models. `Saved` models that. `PromisesKept`, `FilesAreRegisters` and
  `StaysStartable` name this case (`LeavesModel`) as the only one besides hand edits.
- The preview may lose words that are said again: "go go go" heard in windows that overlap by
  one "go" can come out as two. `PreviewFollows` says what stays true then.
- The two reports of a failed delivery speak of the clipboard only: what was typed before
  wtype failed or timed out stays on the screen, and that may be all of the text. A failed
  transcription drops the warnings of its capture and its debug entry. `ReportIsTrue`
  states both as they are.
- Numbers: a scale that is not smaller than the last one starts a number of its own, but
  counts one into the number before it ("two thousand thousand" is 2001 and 1000); "and"
  after a scale or a hundred is consumed even when no number follows.
- Texts the validator reads otherwise than the instructions say (`Misread`): a spoken
  "period" does not end the clause that a correction takes back, although the
  instructions say "never an earlier clause"; an article at the end of a clause makes a
  punctuation command at the start of the next a word; and a number runs on into the next
  across whatever parts the two. There a right answer may be refused, and one that goes as
  far as the validator is accepted.
- Amounts are counted in the raw text (`currency_mentions`), so that a correction which
  takes one back ("five dollars no wait six dollars") makes every right answer refused, and
  the raw text is delivered with a notice (`TakesMoneyBack`).
- Amounts with cents are accepted in the form they were said or as "$x.yy", nothing else.
- A text with a line break can never be typed: wtype refuses control characters, and the
  fallback or an error follows. The active window may change after hyprctl looked.
- A follower whose process died is noticed at the next event. As many dead followers as
  there are permits, while nothing is published, and every new client is turned away;
  `ClientsAreServed` says that the next event frees them.
- `settings` commands given while the model is unavailable are saved and answered with the
  state Error, which the command line reports as a failure.

## Not modelled

Closing of the command channel and of the mailbox while the daemon runs (their senders
live as long as it does). Panics. `copy_last` and `clear_debug_at` await inside the actor;
they are atomic in `Daemon`, since nothing but the actor writes its fields and they read
none before the await that they use after it except the guard; `Storage` has the clear
with its steps.

The speech model and the provider themselves: any text and any answer of the instance may
come. The choice of microphone and format, and the filter of the resampler: no state the
properties could tell apart. Parsing and printing of the command line: one step each. The
Omarchy panel: it appears as the process that follows the status and is started again; in
which order QML delivers the signals of its two processes is not fixed by the repository,
so an order of their events would be an assumption and not a model. Paths, installers and
packaging: pure functions and sequential scripts.

## Plan

Done: the daemon, the supervisor, their contract and composition; storage, dictation and
server; every invariant and action property of the runs but `TextIsFaithful` proved; and
the refinements: of the contract by the supervisor, of the
daemon by the system, of `DictationLife` by the daemon and the system, of `SavedFile` by
the storage.

Left for later: the number parsers other than cardinals (ordinals and amounts are built on
`ParseCardinal`, so that `NumbersAreReadBack` is where their proofs would begin), and a
model of the panel, once the order of its two processes' events is fixed by the repository.
