------------------------------- MODULE Storage -------------------------------
(***************************************************************************)
(* What Milevox keeps on disk: the settings and the provider tokens, which  *)
(* the actor holds in memory and saves in the configuration directory, and  *)
(* the debug log with its backup, which a task of its own (DebugLog) writes *)
(* in the state directory.  Dictations appear as far as they write: each    *)
(* appends one entry before it completes, and a canceled one may leave its  *)
(* entry in the queue.  The actor handles one command at a time, the queue  *)
(* is served meanwhile.  The machine and the process may stop at any time.  *)
(***************************************************************************)
EXTENDS Integers, Sequences, FiniteSets

CONSTANTS
  Providers,      \* post-processing providers
  Catalog,        \* [Providers -> the models offered]
  DefaultProvider, DefaultModel,  \* the default, and the first model of each catalog
  Tokens,         \* valid tokens
  EnvTokens,      \* the providers with a token in the environment
  None,           \* an option that is not given, a missing token, model, file
  Torn,           \* a file that does not parse
  Any,            \* the promise about what a failed save may have changed
  ConfigInodes, LogInodes,  \* bounds, see PrivateFile
  LogLimit,       \* DEBUG_LOG_MAX_BYTES
  EntrySizes,     \* sizes of debug entries, after bounded_debug_entry
  Changes,        \* the settings commands: [enabled, provider, model]
  FoundLogs,      \* the log and backup found at the start: [log, backup]
  FoundConfigs,   \* the settings found at the start, or None
  Edits,          \* the settings written by hand
  MaxOperations,  \* bound on dictations, commands and edits together
  MaxStops        \* bound on crashes and kills

ASSUME CatalogAssumption ==
  DefaultProvider \in Providers /\ \A p \in Providers : DefaultModel[p] \in Catalog[p]
ASSUME LogAssumption == LogLimit \in Nat /\ EntrySizes \subseteq 1 .. LogLimit
ASSUME BoundsAssumption == MaxOperations \in Nat /\ MaxStops \in Nat

VARIABLES
  configFiles,    \* the configuration directory
  stateFiles,     \* the state directory
  running,        \* the daemon runs
  config,         \* Daemon::config
  credentials,    \* Daemon::credentials
  settings,       \* Daemon::settings, the snapshot every event shows
  command,        \* the command the actor is in the middle of
  activity,       \* "none", "recording", "pipeline" or "canceling"
  generation,     \* dictations begun
  logging,        \* the pipeline's copy of debug.enabled
  lastEntry,      \* the dictation of last_debug_entry, 0 for none
  queue,          \* the commands of the DebugLog task; its head is under way
  promised,       \* ghost: by setting, what was acknowledged or edited
  promisedToken,  \* ghost: by provider, the token acknowledged
  cleared,        \* ghost: the last acknowledged clear
  counts          \* operations, edits and stops so far, against the bounds

settingsVars == <<configFiles, config, credentials, settings, promised, promisedToken>>
logVars == <<stateFiles, queue, lastEntry, cleared>>
dictationVars == <<activity, generation, logging>>
vars == <<settingsVars, logVars, dictationVars, running, command, counts>>

ConfigDir == INSTANCE PrivateFile WITH fs <- configFiles, Missing <- None,
  Names <- {"config", "credentials", "temp"}, Inodes <- ConfigInodes
StateDir == INSTANCE PrivateFile WITH fs <- stateFiles, Missing <- None,
  Names <- {"log", "backup", "temp"}, Inodes <- LogInodes

ASSUME FilesAssumption == ConfigDir!FilesFit /\ StateDir!FilesFit

(* inline is about the file alone: post_processing is written there as an    *)
(* inline table, or not yet, and then a save creates it as one.  Memory      *)
(* carries it along and no command changes it.                               *)
Config == [enabled : BOOLEAN, provider : Providers,
           model : (UNION {Catalog[p] : p \in Providers}) \cup {None},
           debug : BOOLEAN, fallback : BOOLEAN, inline : BOOLEAN]
DefaultConfig == [enabled |-> FALSE, provider |-> DefaultProvider, model |-> None,
                  debug |-> FALSE, fallback |-> FALSE, inline |-> TRUE]
Credentials == [Providers -> Tokens \cup {None}]
NoCredentials == [p \in Providers |-> None]

ASSUME InputsAssumption ==
  /\ \A change \in Changes : /\ change.enabled \in BOOLEAN \cup {None}
                             /\ change.provider \in Providers \cup {None}
  /\ FoundConfigs \subseteq Config \cup {None} /\ Edits \subseteq Config
ASSUME TornAssumption == Torn \notin Config \cup Credentials

ConfigOnDisk == ConfigDir!Read("config", DefaultConfig)
CredentialsOnDisk == ConfigDir!Read("credentials", NoCredentials)

EmptyLog == [size |-> 0, of |-> {}]

(* A log that is found holds entries of dictations before the first, 0.      *)
ASSUME FoundAssumption ==
  \A found \in FoundLogs : \A log \in {found.log, found.backup} :
    log = None \/ log \in [size : Nat, of : SUBSET {0}]

NothingCleared == [upTo |-> -1, lasting |-> TRUE]
NoCommand == [kind |-> "none"]
Idle == running /\ command = NoCommand
Ready == Idle /\ activity = "none"

-----------------------------------------------------------------------------
(* The settings.                                                             *)

(* provider_settings and validate: a model must be in its provider's catalog,*)
(* which matters once post-processing is enabled.                            *)
ValidModel(c) == c.model = None \/ c.model \in Catalog[c.provider]
Valid(c) == c.enabled => ValidModel(c)

ProviderChanges(c, provider) == provider # None /\ provider # c.provider

Given(option, value) == IF option = None THEN value ELSE option

(* apply_settings: the settings the daemon will use.                         *)
Applied(c, enabled, provider, model) ==
  [c EXCEPT !.enabled = Given(enabled, @),
            !.provider = Given(provider, @),
            !.model = IF model # None THEN model
                      ELSE IF ProviderChanges(c, provider) THEN None ELSE @]

(* Mutant: enabling does not check the model that was there before.          *)
AcceptedAsFound(c, provider, model) == provider \/ model # None => ValidModel(c)

Accepted(c, provider, model) ==
  IF c.enabled \/ provider \/ model # None THEN ValidModel(c) ELSE Valid(c)

(* save_post_processing: the keys it writes into the document on the disk.   *)
(* It removes a model only from a section that is a table: as_table_mut finds *)
(* none in an inline table, where the model of the provider before remains.  *)
Saved(document, enabled, provider, model, removeModel) ==
  [document EXCEPT !.enabled = Given(enabled, @),
                   !.provider = Given(provider, @),
                   !.model = IF model # None THEN model
                             ELSE IF removeModel /\ ~document.inline THEN None ELSE @]

TokenSource(c, tokens) ==
  IF tokens[c.provider] # None THEN "stored"
  ELSE IF c.provider \in EnvTokens THEN "environment" ELSE "none"

Snapshot(c, tokens) ==
  [enabled |-> c.enabled, provider |-> c.provider,
   model |-> Given(c.model, DefaultModel[c.provider]),
   token |-> TokenSource(c, tokens), debug |-> c.debug]

(* Mutant: the snapshot is not refreshed.                                    *)
RefreshNothing(c, tokens) == config' = c /\ credentials' = tokens /\ UNCHANGED settings

Refresh(c, tokens) == config' = c /\ credentials' = tokens /\ settings' = Snapshot(c, tokens)

Counted(what, maximum) ==
  counts[what] < maximum /\ counts' = [counts EXCEPT ![what] = @ + 1]

BeginSave(file, contents, update) ==
  /\ Counted("operations", MaxOperations)
  /\ ConfigDir!Begin(ConfigDir!AtomicWrite(file, contents))
  /\ command' = update
  /\ UNCHANGED <<config, credentials, settings, logVars, dictationVars, running>>

Doubtful(promises, changed) ==
  [x \in DOMAIN promises |-> IF x \in changed THEN Any ELSE promises[x]]

UpdateSettings(enabled, provider, model) ==
  /\ Ready
  /\ ~(enabled = None /\ provider = None /\ model = None)
  /\ ConfigOnDisk # Torn
  /\ LET changes == ProviderChanges(ConfigOnDisk, provider)
         updated == Applied(ConfigOnDisk, enabled, provider, model)
         document == Saved(ConfigOnDisk, enabled, provider, model, changes /\ model = None)
     IN /\ Accepted(updated, changes, model)
        /\ BeginSave("config", document,
                     [kind |-> "settings", updated |-> updated, written |-> document])
        /\ promised' = Doubtful(promised, {f \in DOMAIN updated : updated[f] # ConfigOnDisk[f]})
  /\ UNCHANGED promisedToken

UpdateDebug(enabled) ==
  /\ Ready
  /\ ConfigOnDisk # Torn
  /\ LET updated == [ConfigOnDisk EXCEPT !.debug = enabled]
     IN BeginSave("config", updated,
                  [kind |-> "settings", updated |-> updated, written |-> updated])
  /\ promised' = Doubtful(promised, {"debug"})
  /\ UNCHANGED promisedToken

(* update_token, and remove_token of a token that is there: without one it   *)
(* saves nothing.                                                            *)
UpdateToken(provider, token) ==
  /\ Ready
  /\ token # None \/ credentials[provider] # None
  /\ LET updated == [credentials EXCEPT ![provider] = token]
     IN BeginSave("credentials", updated, [kind |-> "token", updated |-> updated])
  /\ promisedToken' = Doubtful(promisedToken, {provider})
  /\ UNCHANGED promised

(* The settings acknowledged are those in memory, and where a model is left  *)
(* behind that of the provider before is in the file.                        *)
LeavesModel == command.kind = "settings" /\ command.written # command.updated

SettingsSaved ==
  /\ command.kind = "settings"
  /\ ConfigDir!Take("ok")
  /\ Refresh(command.updated, credentials)
  /\ promised' = IF LeavesModel THEN [command.updated EXCEPT !.model = Any]
                                ELSE command.updated
  /\ command' = NoCommand
  /\ UNCHANGED <<promisedToken, logVars, dictationVars, running, counts>>

TokenSaved ==
  /\ command.kind = "token"
  /\ ConfigDir!Take("ok")
  /\ Refresh(config, command.updated)
  /\ promisedToken' = command.updated
  /\ command' = NoCommand
  /\ UNCHANGED <<promised, logVars, dictationVars, running, counts>>

SaveFailed ==
  /\ ConfigDir!Take("failed")
  /\ command' = NoCommand
  /\ UNCHANGED <<config, credentials, settings, promised, promisedToken,
                 logVars, dictationVars, running, counts>>

ConfigCall ==
  /\ ConfigDir!CallStep
  /\ UNCHANGED <<config, credentials, settings, promised, promisedToken,
                 logVars, dictationVars, running, command, counts>>

(* Somebody edits config.toml, between two commands.                         *)
EditByHand(c) ==
  /\ counts.operations < MaxOperations
  /\ counts' = [counts EXCEPT !.operations = @ + 1, !.edits = @ + 1]
  /\ ConfigDir!Idle
  /\ ConfigDir!Replaced("config", c)
  /\ promised' = c
  /\ UNCHANGED <<config, credentials, settings, promisedToken,
                 logVars, dictationVars, running, command>>

-----------------------------------------------------------------------------
(* Dictations, as far as they write, and the debug log.                      *)

StartRecording ==
  /\ Ready
  /\ Counted("operations", MaxOperations)
  /\ generation' = generation + 1
  /\ activity' = "recording"
  /\ UNCHANGED <<settingsVars, logVars, logging, running, command>>

(* The pipeline works with a copy of the configuration.                      *)
FinalizeRecording ==
  /\ Idle
  /\ activity = "recording"
  /\ activity' = "pipeline"
  /\ logging' = config.debug
  /\ UNCHANGED <<settingsVars, logVars, generation, running, command, counts>>

(* persist: the entry is queued, and the pipeline waits for the reply.       *)
Persist(size) ==
  /\ activity = "pipeline" /\ logging
  /\ activity' = "persisting"
  /\ queue' = Append(queue, [kind |-> "append", of |-> generation, size |-> size])
  /\ UNCHANGED <<settingsVars, stateFiles, lastEntry, cleared, generation, logging,
                 running, command, counts>>

Completed ==
  /\ Idle
  /\ \/ activity = "pipeline" /\ ~logging
     \/ activity = "written"
  /\ activity' = "none"
  /\ lastEntry' = generation
  /\ UNCHANGED <<settingsVars, stateFiles, queue, cleared, generation, logging,
                 running, command, counts>>

(* cancel aborts the pipeline, wherever it is, but not what it queued.       *)
Cancel ==
  /\ Idle
  /\ activity \in {"recording", "pipeline", "persisting", "written"}
  /\ activity' = "canceling"
  /\ UNCHANGED <<settingsVars, logVars, generation, logging, running, command, counts>>

CancellationFinished ==
  /\ Idle
  /\ activity = "canceling"
  /\ activity' = "none"
  /\ UNCHANGED <<settingsVars, logVars, generation, logging, running, command, counts>>

ClearDebug ==
  /\ Ready
  /\ Counted("operations", MaxOperations)
  /\ queue' = Append(queue, [kind |-> "clear"])
  /\ command' = [kind |-> "clear"]
  /\ UNCHANGED <<settingsVars, stateFiles, lastEntry, cleared, dictationVars, running>>

(* Mutant: one too many fits.                                                *)
RotatesLate(current, entry) == current > 0 /\ current + entry.size > LogLimit + 1

Rotates(current, entry) == current > 0 /\ current + entry.size > LogLimit

(* append_debug_log.                                                         *)
AppendCalls(entry) ==
  LET log == StateDir!Read("log", EmptyLog)
      current == IF log.size > LogLimit THEN LogLimit ELSE log.size
      rotates == Rotates(current, entry)
      before == IF rotates THEN EmptyLog ELSE [log EXCEPT !.size = current]
  IN StateDir!Cap("backup", LogLimit)
     \o StateDir!OpenAppend("log", EmptyLog)
     \o (IF log.size > LogLimit THEN StateDir!Cut("log", LogLimit) ELSE <<>>)
     \o (IF rotates THEN StateDir!Rotate("log", "backup")
                         \o << StateDir!Call("create", "log", EmptyLog) >> ELSE <<>>)
     \o << StateDir!Call("write", "log", [size |-> before.size + entry.size,
                                          of |-> before.of \cup {entry.of}]),
           StateDir!Call("sync", "log", Torn) >>

(* Mutant: the backup is kept.                                               *)
ClearLogOnly == StateDir!Remove("log")

(* clear_debug_logs.                                                         *)
ClearCalls == StateDir!Remove("log") \o StateDir!Remove("backup")

QueueTakes ==
  /\ running /\ queue # <<>>
  /\ StateDir!Begin(IF Head(queue).kind = "append" THEN AppendCalls(Head(queue)) ELSE ClearCalls)
  /\ UNCHANGED <<settingsVars, queue, lastEntry, cleared, dictationVars,
                 running, command, counts>>

LogCall ==
  /\ StateDir!CallStep
  /\ UNCHANGED <<settingsVars, queue, lastEntry, cleared, dictationVars,
                 running, command, counts>>

(* The reply to persist, if the pipeline is still there; a failure is only a *)
(* warning.                                                                  *)
Appended ==
  /\ queue # <<>> /\ Head(queue).kind = "append"
  /\ \E result \in {"ok", "failed"} : StateDir!Take(result)
  /\ queue' = Tail(queue)
  /\ activity' = IF activity = "persisting" /\ Head(queue).of = generation
                   THEN "written" ELSE activity
  /\ UNCHANGED <<settingsVars, lastEntry, cleared, generation, logging,
                 running, command, counts>>

DebugCleared ==
  /\ queue # <<>> /\ Head(queue).kind = "clear"
  /\ StateDir!Take("ok")
  /\ queue' = Tail(queue)
  /\ lastEntry' = 0
  /\ cleared' = [upTo |-> generation, lasting |-> stateFiles.survivors = {stateFiles.dir}]
  /\ command' = NoCommand
  /\ UNCHANGED <<settingsVars, dictationVars, running, counts>>

ClearFailed ==
  /\ queue # <<>> /\ Head(queue).kind = "clear"
  /\ StateDir!Take("failed")
  /\ queue' = Tail(queue)
  /\ command' = NoCommand
  /\ UNCHANGED <<settingsVars, lastEntry, cleared, dictationVars, running, counts>>

-----------------------------------------------------------------------------
(* The process and the machine.                                              *)

Stopped ==
  /\ Counted("stops", MaxStops)
  /\ running' = FALSE
  /\ config' = DefaultConfig /\ credentials' = NoCredentials
  /\ settings' = Snapshot(DefaultConfig, NoCredentials)
  /\ command' = NoCommand
  /\ activity' = "none" /\ logging' = FALSE
  /\ lastEntry' = 0 /\ queue' = <<>>
  /\ UNCHANGED <<promised, promisedToken, generation>>

ProcessKilled ==
  /\ running
  /\ ConfigDir!Kill /\ StateDir!Kill
  /\ Stopped
  /\ UNCHANGED cleared

MachineCrashes ==
  /\ ConfigDir!Crash /\ StateDir!Crash
  /\ Stopped
  /\ cleared' = IF cleared.lasting THEN cleared ELSE NothingCleared

(* The daemon starts only with files that parse and settings that are valid. *)
StartDaemon ==
  /\ ~running
  /\ ConfigOnDisk # Torn /\ CredentialsOnDisk # Torn
  /\ Valid(ConfigOnDisk)
  /\ running' = TRUE
  /\ Refresh(ConfigOnDisk, CredentialsOnDisk)
  /\ UNCHANGED <<configFiles, promised, promisedToken, logVars, dictationVars, command, counts>>

-----------------------------------------------------------------------------
Init ==
  /\ \E c \in FoundConfigs :
       /\ ConfigDir!FilesInit([config |-> c, credentials |-> None, temp |-> None])
       /\ promised = Given(c, DefaultConfig)
  /\ promisedToken = NoCredentials
  /\ \E found \in FoundLogs :
       StateDir!FilesInit([log |-> found.log, backup |-> found.backup, temp |-> None])
  /\ running = FALSE
  /\ config = DefaultConfig /\ credentials = NoCredentials
  /\ settings = Snapshot(DefaultConfig, NoCredentials)
  /\ command = NoCommand
  /\ activity = "none" /\ generation = 0 /\ logging = FALSE
  /\ lastEntry = 0 /\ queue = <<>> /\ cleared = NothingCleared
  /\ counts = [operations |-> 0, edits |-> 0, stops |-> 0]

Next ==
  \/ \E change \in Changes : UpdateSettings(change.enabled, change.provider, change.model)
  \/ \E enabled \in BOOLEAN : UpdateDebug(enabled)
  \/ \E provider \in Providers, token \in Tokens \cup {None} : UpdateToken(provider, token)
  \/ SettingsSaved \/ TokenSaved \/ SaveFailed \/ ConfigCall
  \/ \E c \in Edits : EditByHand(c)
  \/ StartRecording \/ FinalizeRecording \/ Completed
  \/ \E size \in EntrySizes : Persist(size)
  \/ Cancel \/ CancellationFinished \/ ClearDebug
  \/ QueueTakes \/ LogCall \/ Appended \/ DebugCleared \/ ClearFailed
  \/ ProcessKilled \/ MachineCrashes \/ StartDaemon

Spec == Init /\ [][Next]_vars

-----------------------------------------------------------------------------
(* The state has the types the actions assume.                               *)
TypeOK ==
  /\ running \in BOOLEAN /\ config \in Config /\ credentials \in Credentials
  /\ settings = Snapshot(config, credentials)
  /\ \/ command \in {NoCommand, [kind |-> "clear"]}
     \/ command.kind = "settings" /\ command.updated \in Config /\ command.written \in Config
     \/ command.kind = "token" /\ command.updated \in Credentials
  /\ activity \in {"none", "recording", "pipeline", "persisting", "written", "canceling"}
  /\ generation \in 0 .. MaxOperations /\ logging \in BOOLEAN
  /\ lastEntry \in 0 .. generation
  /\ queue \in Seq([kind : {"append"}, of : 1 .. generation, size : EntrySizes]
                      \cup {[kind |-> "clear"]})

(* A setting or a token that was acknowledged, or edited by hand, is what a  *)
(* crash at any moment leaves, until a later command changes it: the save of *)
(* another setting keeps it, a failed save leaves it alone, and no crash     *)
(* leaves a file that is not whole (atomic_write, update_settings,           *)
(* update_token).  Two promises are not made: a removal that finds no token  *)
(* in memory says nothing about one that a failed save left on the disk, and *)
(* a change of the provider where post_processing is an inline table leaves   *)
(* the other provider's model in the file, which the next start finds there. *)
PromisesKept ==
  /\ \A c \in ConfigDir!AfterCrash("config", DefaultConfig) :
       c # Torn /\ \A f \in DOMAIN promised : promised[f] \in {Any, c[f]}
  /\ \A c \in ConfigDir!AfterCrash("credentials", NoCredentials) :
       c # Torn /\ \A p \in Providers : promisedToken[p] \in {Any, c[p]}

(* What a save writes and what the daemon goes on with: the same, but for a   *)
(* model left behind.                                                        *)
Save(file, memory) == [file |-> file, memory |-> memory]
ConfigSaves ==
  {save \in [file : Config, memory : Config] :
     \/ save.file = save.memory
     \/ /\ save.memory.inline /\ save.memory.model = None
        /\ save.file = [save.memory EXCEPT !.model = save.file.model]}
TokenSaves == {Save(c, c) : c \in Credentials}

ConfigFile == INSTANCE SavedFile WITH
  Values <- Config, Initial <- DefaultConfig, Saves <- ConfigSaves, value <- ConfigOnDisk,
  possible <- ConfigDir!AfterCrash("config", DefaultConfig),
  saving <- IF command.kind = "settings" THEN {Save(command.written, command.updated)} ELSE {},
  used <- config
TokenFile == INSTANCE SavedFile WITH
  Values <- Credentials, Initial <- NoCredentials, Saves <- TokenSaves, Edits <- {},
  value <- CredentialsOnDisk,
  possible <- ConfigDir!AfterCrash("credentials", NoCredentials),
  saving <- IF command.kind = "token" THEN {Save(command.updated, command.updated)} ELSE {},
  used <- credentials

(* The settings and the tokens behave like two registers of whole values,    *)
(* although they are files in one directory, saved call by call: readers     *)
(* have a save at one instant and never half of it, success is reported only *)
(* once no crash can undo it and only then the actor goes on with what it    *)
(* saved, a save of one file leaves the other as it was, and a crash brings  *)
(* back nothing older than what the last completed save left.  The actor     *)
(* goes on with other settings than those in the file only where a change of *)
(* the provider left a model behind in an inline table (atomic_write,        *)
(* update_settings, save_post_processing, update_token, load_daemon_config). *)
FilesAreRegisters == ConfigFile!Spec /\ TokenFile!Spec

(* The daemon can be started again from whatever a crash leaves.             *)
Startable ==
  /\ \A c \in ConfigDir!AfterCrash("config", DefaultConfig) : c # Torn /\ Valid(c)
  /\ Torn \notin ConfigDir!AfterCrash("credentials", NoCredentials)

(* No command, failure or crash turns settings the daemon starts with into   *)
(* settings it refuses.  Only two things can: an edit by hand, and a change  *)
(* of the provider that leaves the other provider's model behind, where      *)
(* post_processing is an inline table (apply_settings, save_post_processing, *)
(* load_daemon_config).                                                      *)
StaysStartable ==
  [][Startable => Startable' \/ counts'.edits # counts.edits \/ LeavesModel]_vars

(* Once a clear was acknowledged nothing of an earlier dictation is in the   *)
(* log, its backup or the last entry, whatever a canceled dictation had      *)
(* queued, and none comes back: after a crash too, unless an earlier clear   *)
(* had failed to sync the directory (clear_debug_at, clear_debug_logs).      *)
ClearedIsGone ==
  /\ lastEntry = 0 \/ lastEntry > cleared.upTo
  /\ \A name \in {"log", "backup"} :
       \A log \in (IF cleared.lasting THEN StateDir!AfterCrash(name, EmptyLog)
                                      ELSE {StateDir!Read(name, EmptyLog)}) :
         \A g \in log.of : g > cleared.upTo

(* Neither the log nor the backup grows beyond the limit, through rotations, *)
(* failures and crashes: a larger one is there only because it was found, or *)
(* because a crash undid the cut (append_debug_log).                         *)
LogsStayBounded ==
  [][\A name \in {"log", "backup"} :
       LET size == StateDir!Read(name, EmptyLog).size
       IN size' <= LogLimit
          \/ size' \in {log.size : log \in StateDir!AfterCrash(name, EmptyLog)}]_vars
===============================================================================
