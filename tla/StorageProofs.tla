---------------------------- MODULE StorageProofs ----------------------------
(***************************************************************************)
(* Theorems about Storage: whatever is acknowledged survives every crash,   *)
(* and the settings on the disk stay such that the daemon starts with them. *)
(* Both rest on what the configuration directory looks like between the     *)
(* system calls of a save, and so does that the settings and the tokens     *)
(* behave like registers (SavedFile).                                       *)
(***************************************************************************)
EXTENDS Storage, TLAPS

Files == {"config", "credentials", "temp"}
Fields == {"enabled", "provider", "model", "debug", "fallback", "inline"}
Directories == [Files -> ConfigInodes \cup {None}]
Contents == Config \cup Credentials \cup {Torn}

(* What a process would find in a directory.                                 *)
ConfigIn(d) == IF d["config"] = None THEN DefaultConfig ELSE configFiles.data[d["config"]]
CredentialsIn(d) ==
  IF d["credentials"] = None THEN NoCredentials ELSE configFiles.data[d["credentials"]]

DirectoryOK ==
  /\ configFiles = [dir |-> configFiles.dir, survivors |-> configFiles.survivors,
                    data |-> configFiles.data, disk |-> configFiles.disk,
                    calls |-> configFiles.calls, outcome |-> configFiles.outcome]
  /\ configFiles.dir \in Directories /\ configFiles.survivors \in SUBSET Directories
  /\ configFiles.data \in [ConfigInodes -> Contents]
  /\ configFiles.disk \in [ConfigInodes -> Contents]

(* A directory that a crash may leave holds no temporary file, whole files   *)
(* of the right kind, and none that is still being written.                  *)
Whole(d) ==
  /\ d["temp"] = None
  /\ \A name \in {"config", "credentials"} : d[name] # None =>
       d[name] # configFiles.dir["temp"] /\ configFiles.data[d[name]] = configFiles.disk[d[name]]
  /\ ConfigIn(d) \in Config /\ CredentialsIn(d) \in Credentials

SurvivorsAreWhole ==
  /\ ConfigDir!WithoutTemporary(configFiles.dir) \in configFiles.survivors
  /\ \A d \in configFiles.survivors : Whole(d)

(* The calls of atomic_write.                                                *)
CreateCall == ConfigDir!Call("create", "temp", Torn)
WriteCall(contents) == ConfigDir!Call("write", "temp", contents)
SyncCall == ConfigDir!Call("sync", "temp", Torn)
RenameCall(file) == ConfigDir!Call("rename", "temp", file)

(* How far a save has come, and what is known then.                          *)
InPlace(file, contents) ==
  /\ configFiles.dir["temp"] = None /\ configFiles.dir[file] # None
  /\ configFiles.data[configFiles.dir[file]] = contents

Saving(file, contents) ==
  \/ /\ configFiles.calls = << CreateCall, WriteCall(contents), SyncCall, RenameCall(file),
                               ConfigDir!SyncDirectory >>
     /\ configFiles.outcome = "none" /\ configFiles.dir["temp"] = None
  \/ /\ configFiles.calls = << WriteCall(contents), SyncCall, RenameCall(file),
                               ConfigDir!SyncDirectory >>
     /\ configFiles.outcome = "none" /\ configFiles.dir["temp"] # None
  \/ /\ configFiles.calls = << SyncCall, RenameCall(file), ConfigDir!SyncDirectory >>
     /\ configFiles.outcome = "none" /\ configFiles.dir["temp"] # None
     /\ configFiles.data[configFiles.dir["temp"]] = contents
  \/ /\ configFiles.calls = << RenameCall(file), ConfigDir!SyncDirectory >>
     /\ configFiles.outcome = "none" /\ configFiles.dir["temp"] # None
     /\ configFiles.data[configFiles.dir["temp"]] = contents
     /\ configFiles.disk[configFiles.dir["temp"]] = contents
  \/ /\ configFiles.calls = << ConfigDir!SyncDirectory >>
     /\ configFiles.outcome = "none" /\ InPlace(file, contents)
  \/ /\ configFiles.calls = <<>> /\ configFiles.outcome = "ok"
     /\ configFiles.survivors = {configFiles.dir} /\ InPlace(file, contents)
  \/ /\ configFiles.calls = <<>> /\ configFiles.outcome = "failed"
     /\ configFiles.dir["temp"] = None

CommandIsSaved ==
  /\ command.kind = "settings" => Saving("config", command.written)
  /\ command.kind = "token" => Saving("credentials", command.updated)
  /\ command.kind \notin {"settings", "token"} =>
       ConfigDir!Idle /\ configFiles.dir["temp"] = None

(* What is promised holds in every directory that a crash may leave, and of  *)
(* what is being saved; of the tokens also in memory, which the next save    *)
(* starts from.                                                              *)
Promised ==
  /\ DOMAIN promised = Fields /\ DOMAIN promisedToken = Providers
  /\ \A d \in configFiles.survivors :
       /\ \A f \in Fields : promised[f] \in {Any, ConfigIn(d)[f]}
       /\ \A p \in Providers : promisedToken[p] \in {Any, CredentialsIn(d)[p]}
  /\ command.kind = "settings" =>
       \A f \in Fields : promised[f] \in {Any, command.written[f]}
  /\ command.kind = "token" =>
       \A p \in Providers : promisedToken[p] \in {Any, command.updated[p]}
  /\ running => \A p \in Providers : promisedToken[p] \in {Any, credentials[p]}

(* Settings that are being saved are valid, if those on the disk were, and   *)
(* what is written of them is all of them but for a model left behind.       *)
SavesValid ==
  command.kind = "settings" =>
    /\ Save(command.written, command.updated) \in ConfigSaves
    /\ \/ Valid(command.updated)
       \/ /\ command.written = command.updated
          /\ \E d \in configFiles.survivors : ~Valid(ConfigIn(d))

Numbers == [operations : Nat, edits : Nat, stops : Nat]

Counting ==
  /\ counts \in Numbers
  /\ generation <= counts.operations /\ counts.operations <= MaxOperations
  /\ activity # "none" => generation > 0

(* A clear is in the queue only while the actor waits for it, and only once. *)
ClearAwaited ==
  \A i \in DOMAIN queue : queue[i].kind = "clear" =>
    command.kind = "clear" /\ \A j \in DOMAIN queue : queue[j].kind = "clear" => i = j

Durable == DirectoryOK /\ SurvivorsAreWhole /\ CommandIsSaved /\ Promised /\ SavesValid

Storing == TypeOK /\ Counting /\ ClearAwaited /\ Durable
-----------------------------------------------------------------------------
(* The directory.                                                            *)
LEMMA Sequence ==
  \A a, b, c, d, e :
    /\ Head(<<a, b, c, d, e>>) = a /\ Tail(<<a, b, c, d, e>>) = <<b, c, d, e>>
    /\ Head(<<a, b, c, d>>) = a /\ Tail(<<a, b, c, d>>) = <<b, c, d>>
    /\ Head(<<a, b, c>>) = a /\ Tail(<<a, b, c>>) = <<b, c>>
    /\ Head(<<a, b>>) = a /\ Tail(<<a, b>>) = <<b>>
    /\ Head(<<a>>) = a /\ Tail(<<a>>) = <<>>
    /\ <<a, b, c, d, e>> # <<>> /\ <<a, b, c, d>> # <<>> /\ <<a, b, c>> # <<>>
    /\ <<a, b>> # <<>> /\ <<a>> # <<>>
  OBVIOUS

LEMMA CallFields ==
  \A call, file, arg :
    LET c == ConfigDir!Call(call, file, arg)
    IN c.call = call /\ c.file = file /\ c.arg = arg
  BY DEF ConfigDir!Call

LEMMA WithoutTemporaryOf ==
  ASSUME NEW d \in Directories
  PROVE  /\ ConfigDir!WithoutTemporary(d) \in Directories
         /\ ConfigDir!WithoutTemporary(d)["temp"] = None
         /\ \A n \in {"config", "credentials"} : ConfigDir!WithoutTemporary(d)[n] = d[n]
         /\ d["temp"] = None => ConfigDir!WithoutTemporary(d) = d
  BY DEF ConfigDir!WithoutTemporary, Directories, Files

(* What a process reads is in a directory that a crash may leave.            *)
LEMMA OnDisk ==
  ASSUME DirectoryOK, SurvivorsAreWhole
  PROVE  /\ ConfigOnDisk \in Config /\ CredentialsOnDisk \in Credentials
         /\ ConfigOnDisk # Torn /\ CredentialsOnDisk # Torn
         /\ \E d \in configFiles.survivors :
              ConfigIn(d) = ConfigOnDisk /\ CredentialsIn(d) = CredentialsOnDisk
<1> DEFINE d == ConfigDir!WithoutTemporary(configFiles.dir)
<1>1. /\ d["config"] = configFiles.dir["config"]
      /\ d["credentials"] = configFiles.dir["credentials"]
      /\ d \in configFiles.survivors
  BY WithoutTemporaryOf DEF DirectoryOK, SurvivorsAreWhole
<1>2. ConfigIn(d) = ConfigOnDisk /\ CredentialsIn(d) = CredentialsOnDisk
  BY <1>1
  DEF ConfigIn, CredentialsIn, ConfigOnDisk, CredentialsOnDisk, ConfigDir!Read,
      ConfigDir!Exists, ConfigDir!Contents
<1> QED BY <1>1, <1>2, TornAssumption DEF SurvivorsAreWhole, Whole

LEMMA AfterCrashes ==
  ASSUME DirectoryOK, SurvivorsAreWhole
  PROVE  /\ ConfigDir!AfterCrash("config", DefaultConfig)
              = {ConfigIn(d) : d \in configFiles.survivors}
         /\ ConfigDir!AfterCrash("credentials", NoCredentials)
              = {CredentialsIn(d) : d \in configFiles.survivors}
  BY DEF ConfigDir!AfterCrash, ConfigIn, CredentialsIn, SurvivorsAreWhole, Whole

(* Forgetting the files without a name changes nothing that can be found.    *)
LEMMA Collecting ==
  ASSUME NEW f,
         f = [dir |-> f.dir, survivors |-> f.survivors, data |-> f.data, disk |-> f.disk,
              calls |-> f.calls, outcome |-> f.outcome],
         f.data \in [ConfigInodes -> Contents], f.disk \in [ConfigInodes -> Contents]
  PROVE  LET g == ConfigDir!Collected(f)
         IN /\ g = [dir |-> f.dir, survivors |-> f.survivors, data |-> g.data, disk |-> g.disk,
                    calls |-> f.calls, outcome |-> f.outcome]
            /\ g.data \in [ConfigInodes -> Contents] /\ g.disk \in [ConfigInodes -> Contents]
            /\ \A d \in f.survivors \cup {f.dir} : \A n \in Files : d[n] \in ConfigInodes =>
                 g.data[d[n]] = f.data[d[n]] /\ g.disk[d[n]] = f.disk[d[n]]
<1> DEFINE Named(i) == \E d \in f.survivors \cup {f.dir} : \E n \in Files : d[n] = i
           data == [i \in ConfigInodes |-> IF Named(i) THEN f.data[i] ELSE Torn]
           disk == [i \in ConfigInodes |-> IF Named(i) THEN f.disk[i] ELSE Torn]
           g == ConfigDir!Collected(f)
<1>1. g = [f EXCEPT !.data = data, !.disk = disk]
  BY DEF ConfigDir!Collected, Files
<1>2. data \in [ConfigInodes -> Contents] /\ disk \in [ConfigInodes -> Contents]
  BY DEF Contents
<1>3. \A d \in f.survivors \cup {f.dir} : \A n \in Files : d[n] \in ConfigInodes =>
        data[d[n]] = f.data[d[n]] /\ disk[d[n]] = f.disk[d[n]]
  OBVIOUS
<1> HIDE DEF data, disk, g
<1>4. g.data = data /\ g.disk = disk
  BY <1>1
<1>5. g = [dir |-> f.dir, survivors |-> f.survivors, data |-> g.data, disk |-> g.disk,
           calls |-> f.calls, outcome |-> f.outcome]
  BY <1>1, <1>4
<1> QED BY <1>2, <1>3, <1>4, <1>5 DEF g

(* Only directories a crash may leave already, as they are.                  *)
Remains ==
  \A d \in configFiles'.survivors :
    /\ d \in configFiles.survivors
    /\ ConfigIn(d)' = ConfigIn(d) /\ CredentialsIn(d)' = CredentialsIn(d)

(* The settings that a crash may leave after a step are among those it could *)
(* leave before, or are what the command saves.                              *)
SettingsFollow ==
  \A d \in configFiles'.survivors :
    \/ \E e \in configFiles.survivors : ConfigIn(d)' = ConfigIn(e)
    \/ command.kind = "settings" /\ ConfigIn(d)' = command.written

LEMMA RemainingFollow == Remains => SettingsFollow
  BY DEF Remains, SettingsFollow

(* A save that begins or is taken notice of touches no file.                 *)
LEMMA NothingTouched ==
  ASSUME DirectoryOK, SurvivorsAreWhole, NEW calls, NEW outcome,
         configFiles' = [configFiles EXCEPT !.calls = calls, !.outcome = outcome]
  PROVE  /\ DirectoryOK' /\ SurvivorsAreWhole' /\ Remains
         /\ configFiles'.calls = calls /\ configFiles'.outcome = outcome
         /\ configFiles'.dir = configFiles.dir
         /\ configFiles'.survivors = configFiles.survivors
         /\ configFiles'.data = configFiles.data /\ configFiles'.disk = configFiles.disk
<1>1. configFiles' = [dir |-> configFiles.dir, survivors |-> configFiles.survivors,
                      data |-> configFiles.data, disk |-> configFiles.disk,
                      calls |-> calls, outcome |-> outcome]
  BY DEF DirectoryOK
<1>2. /\ configFiles'.calls = calls /\ configFiles'.outcome = outcome
      /\ configFiles'.dir = configFiles.dir
      /\ configFiles'.survivors = configFiles.survivors
      /\ configFiles'.data = configFiles.data /\ configFiles'.disk = configFiles.disk
  BY <1>1
<1>3. DirectoryOK'
  BY <1>1, <1>2 DEF DirectoryOK
<1>4. ASSUME NEW d
      PROVE  ConfigIn(d)' = ConfigIn(d) /\ CredentialsIn(d)' = CredentialsIn(d)
  BY <1>2 DEF ConfigIn, CredentialsIn
<1>5. ASSUME NEW d, Whole(d)
      PROVE  Whole(d)'
  BY <1>2, <1>4, <1>5 DEF Whole
<1>6. SurvivorsAreWhole'
  BY <1>2, <1>5 DEF SurvivorsAreWhole
<1>7. Remains
  BY <1>2, <1>4 DEF Remains
<1> QED
  BY <1>2, <1>3, <1>6, <1>7

(* What is left of the directory when a function ends or the machine stops.  *)
LEMMA Settled ==
  ASSUME DirectoryOK, SurvivorsAreWhole, NEW f,
         configFiles' = ConfigDir!Collected(f),
         f = [dir |-> f.dir, survivors |-> f.survivors, data |-> f.data, disk |-> f.disk,
              calls |-> f.calls, outcome |-> f.outcome],
         f.data \in [ConfigInodes -> Contents], f.disk \in [ConfigInodes -> Contents],
         f.dir \in Directories, f.dir["temp"] = None, f.dir \in f.survivors,
         f.survivors \subseteq configFiles.survivors,
         \A i \in ConfigInodes : configFiles.data[i] = configFiles.disk[i] =>
           f.data[i] = configFiles.data[i] /\ f.disk[i] = configFiles.data[i]
  PROVE  /\ DirectoryOK' /\ SurvivorsAreWhole' /\ Remains
         /\ configFiles'.calls = f.calls /\ configFiles'.outcome = f.outcome
         /\ configFiles'.dir = f.dir /\ configFiles'.survivors = f.survivors
<1>1. /\ configFiles' = [dir |-> f.dir, survivors |-> f.survivors, data |-> configFiles'.data,
                         disk |-> configFiles'.disk, calls |-> f.calls, outcome |-> f.outcome]
      /\ configFiles'.data \in [ConfigInodes -> Contents]
      /\ configFiles'.disk \in [ConfigInodes -> Contents]
      /\ \A d \in f.survivors : \A n \in Files : d[n] \in ConfigInodes =>
           /\ configFiles'.data[d[n]] = f.data[d[n]]
           /\ configFiles'.disk[d[n]] = f.disk[d[n]]
  BY Collecting
<1>2. /\ configFiles'.dir = f.dir /\ configFiles'.survivors = f.survivors
      /\ configFiles'.calls = f.calls /\ configFiles'.outcome = f.outcome
  BY <1>1
<1>3. ASSUME NEW d \in f.survivors, NEW n \in {"config", "credentials"}, d[n] # None
      PROVE  /\ configFiles'.data[d[n]] = configFiles.data[d[n]]
             /\ configFiles'.disk[d[n]] = configFiles.data[d[n]]
  BY <1>1, <1>3 DEF DirectoryOK, SurvivorsAreWhole, Whole, Directories, Files
<1>4. DirectoryOK'
  BY <1>1, <1>2 DEF DirectoryOK
<1>5. Remains
  BY <1>2, <1>3 DEF Remains, ConfigIn, CredentialsIn
<1>6. ASSUME NEW d \in f.survivors
      PROVE  Whole(d)'
  <2>1. Whole(d) /\ d \in Directories
    BY DEF SurvivorsAreWhole, DirectoryOK
  <2>2. \A n \in {"config", "credentials"} : d[n] # None =>
          d[n] # f.dir["temp"] /\ configFiles'.data[d[n]] = configFiles'.disk[d[n]]
    BY <1>3
  <2> QED BY <1>2, <1>5, <2>1, <2>2 DEF Whole, Remains
<1>7. ConfigDir!WithoutTemporary(f.dir) = f.dir
  BY WithoutTemporaryOf
<1>8. SurvivorsAreWhole'
  BY <1>2, <1>6, <1>7 DEF SurvivorsAreWhole
<1> QED BY <1>2, <1>4, <1>5, <1>8

LEMMA FunctionEnds ==
  ASSUME DirectoryOK, SurvivorsAreWhole, NEW how, configFiles' = ConfigDir!Ended(how)
  PROVE  /\ DirectoryOK' /\ SurvivorsAreWhole' /\ Remains
         /\ configFiles'.calls = <<>> /\ configFiles'.outcome = how
         /\ configFiles'.dir["temp"] = None
         /\ configFiles'.survivors = configFiles.survivors
         /\ configFiles'.dir = ConfigDir!WithoutTemporary(configFiles.dir)
<1> DEFINE dir == ConfigDir!WithoutTemporary(configFiles.dir)
<1>1. PICK f : /\ f = [configFiles EXCEPT !.dir = dir, !.calls = <<>>, !.outcome = how]
               /\ configFiles' = ConfigDir!Collected(f)
  BY DEF ConfigDir!Ended
<1>2. dir \in Directories /\ dir["temp"] = None /\ dir \in configFiles.survivors
  BY WithoutTemporaryOf DEF DirectoryOK, SurvivorsAreWhole
<1> HIDE DEF dir
<1>3. f = [dir |-> dir, survivors |-> configFiles.survivors, data |-> configFiles.data,
           disk |-> configFiles.disk, calls |-> <<>>, outcome |-> how]
  BY <1>1 DEF DirectoryOK
<1>4. /\ f.dir = dir /\ f.survivors = configFiles.survivors /\ f.data = configFiles.data
      /\ f.disk = configFiles.disk /\ f.calls = <<>> /\ f.outcome = how
  BY <1>3
<1>5. /\ f.data \in [ConfigInodes -> Contents] /\ f.disk \in [ConfigInodes -> Contents]
      /\ f = [dir |-> f.dir, survivors |-> f.survivors, data |-> f.data, disk |-> f.disk,
              calls |-> f.calls, outcome |-> f.outcome]
  BY <1>3, <1>4 DEF DirectoryOK
<1>6. /\ f.dir \in Directories /\ f.dir["temp"] = None /\ f.dir \in f.survivors
      /\ f.survivors \subseteq configFiles.survivors
      /\ \A i \in ConfigInodes : configFiles.data[i] = configFiles.disk[i] =>
           f.data[i] = configFiles.data[i] /\ f.disk[i] = configFiles.data[i]
  BY <1>2, <1>4
<1>7. /\ DirectoryOK' /\ SurvivorsAreWhole' /\ Remains
      /\ configFiles'.calls = f.calls /\ configFiles'.outcome = f.outcome
      /\ configFiles'.dir = f.dir /\ configFiles'.survivors = f.survivors
  BY <1>1, <1>5, <1>6, Settled
<1> QED BY <1>2, <1>4, <1>7 DEF dir

LEMMA MachineStops ==
  ASSUME DirectoryOK, SurvivorsAreWhole, ConfigDir!Crash
  PROVE  /\ DirectoryOK' /\ SurvivorsAreWhole' /\ Remains
         /\ ConfigDir!Idle' /\ configFiles'.dir["temp"] = None
         /\ configFiles'.dir \in configFiles.survivors
         /\ configFiles'.survivors = {configFiles'.dir}
<1>1. PICK d \in configFiles.survivors, written \in SUBSET ConfigInodes :
        LET data == [i \in ConfigInodes |->
                       IF i \in written THEN configFiles.data[i] ELSE configFiles.disk[i]]
        IN configFiles' = ConfigDir!Collected(
             [dir |-> d, survivors |-> {d}, data |-> data, disk |-> data,
              calls |-> <<>>, outcome |-> "none"])
  BY DEF ConfigDir!Crash
<1> DEFINE data == [i \in ConfigInodes |->
                      IF i \in written THEN configFiles.data[i] ELSE configFiles.disk[i]]
           f == [dir |-> d, survivors |-> {d}, data |-> data, disk |-> data,
                 calls |-> <<>>, outcome |-> "none"]
<1>2. configFiles' = ConfigDir!Collected(f)
  BY <1>1
<1>3. /\ data \in [ConfigInodes -> Contents]
      /\ \A i \in ConfigInodes : configFiles.data[i] = configFiles.disk[i] =>
           data[i] = configFiles.data[i]
  BY DEF DirectoryOK
<1>4. d \in Directories /\ d["temp"] = None
  BY DEF DirectoryOK, SurvivorsAreWhole, Whole
<1> HIDE DEF data
<1>5. /\ f.dir = d /\ f.survivors = {d} /\ f.data = data /\ f.disk = data
      /\ f.calls = <<>> /\ f.outcome = "none"
  OBVIOUS
<1>6. f = [dir |-> f.dir, survivors |-> f.survivors, data |-> f.data, disk |-> f.disk,
           calls |-> f.calls, outcome |-> f.outcome]
  OBVIOUS
<1> HIDE DEF f
<1> QED BY <1>2, <1>3, <1>4, <1>5, <1>6, Settled DEF ConfigDir!Idle

(* The calls of a save, one by one.                                          *)
ContentsOf(file) == IF file = "config" THEN Config ELSE Credentials

(* A call leaves what a crash could leave before, or puts the new file in    *)
(* place in the directory as it is.                                          *)
OldOrSaved(file, contents) ==
  \A d \in configFiles'.survivors :
    \/ /\ d \in configFiles.survivors
       /\ ConfigIn(d)' = ConfigIn(d) /\ CredentialsIn(d)' = CredentialsIn(d)
    \/ /\ file = "config"
       /\ ConfigIn(d)' = contents /\ CredentialsIn(d)' = CredentialsOnDisk
    \/ /\ file = "credentials"
       /\ CredentialsIn(d)' = contents /\ ConfigIn(d)' = ConfigOnDisk

LEMMA Making ==
  ASSUME DirectoryOK, NEW made, made = ConfigDir!Made
  PROVE  /\ made = [dir |-> configFiles.dir, survivors |-> configFiles.survivors,
                    data |-> configFiles.data, disk |-> configFiles.disk,
                    calls |-> Tail(configFiles.calls),
                    outcome |-> IF Tail(configFiles.calls) = <<>> THEN "ok" ELSE "none"]
         /\ made.dir = configFiles.dir /\ made.survivors = configFiles.survivors
         /\ made.data = configFiles.data /\ made.disk = configFiles.disk
         /\ made.calls = Tail(configFiles.calls)
         /\ made.outcome = IF Tail(configFiles.calls) = <<>> THEN "ok" ELSE "none"
<1> DEFINE calls == Tail(configFiles.calls)
           outcome == IF calls = <<>> THEN "ok" ELSE "none"
<1>1. made = [configFiles EXCEPT !.calls = calls, !.outcome = outcome]
  BY DEF ConfigDir!Made, ConfigDir!Returning
<1> HIDE DEF outcome, calls
<1>2. made = [dir |-> configFiles.dir, survivors |-> configFiles.survivors,
              data |-> configFiles.data, disk |-> configFiles.disk,
              calls |-> calls, outcome |-> outcome]
  BY <1>1 DEF DirectoryOK
<1>3. /\ made.dir = configFiles.dir /\ made.survivors = configFiles.survivors
      /\ made.data = configFiles.data /\ made.disk = configFiles.disk
      /\ made.calls = calls /\ made.outcome = outcome
  BY <1>2
<1> QED BY <1>2, <1>3 DEF calls, outcome

LEMMA TemporaryCreated ==
  ASSUME DirectoryOK, SurvivorsAreWhole, NEW file, NEW contents, Saving(file, contents),
         ConfigDir!Create
  PROVE  /\ DirectoryOK' /\ SurvivorsAreWhole' /\ Saving(file, contents)' /\ Remains
         /\ configFiles'.survivors = configFiles.survivors
         /\ \A n \in {"config", "credentials"} : configFiles'.dir[n] = configFiles.dir[n]
<1>1. /\ configFiles.calls = << CreateCall, WriteCall(contents), SyncCall, RenameCall(file),
                               ConfigDir!SyncDirectory >>
      /\ configFiles.dir["temp"] = None
  BY Sequence, CallFields
  DEF Saving, ConfigDir!Create, ConfigDir!Makes, CreateCall, WriteCall, SyncCall, RenameCall,
      ConfigDir!SyncDirectory
<1>2. /\ Head(configFiles.calls) = CreateCall
      /\ Tail(configFiles.calls) = << WriteCall(contents), SyncCall, RenameCall(file),
                                      ConfigDir!SyncDirectory >>
      /\ Tail(configFiles.calls) # <<>>
      /\ CreateCall.file = "temp" /\ CreateCall.arg = Torn
  BY <1>1, Sequence, CallFields DEF CreateCall
<1>3. PICK new, made, dir, f :
        /\ new \in ConfigDir!Unused
        /\ made = ConfigDir!Made
        /\ dir = [configFiles.dir EXCEPT !["temp"] = new]
        /\ f = [made EXCEPT !.data[new] = Torn, !.disk[new] = Torn]
        /\ configFiles' = ConfigDir!WithDirectory(f, dir)
  BY <1>2 DEF ConfigDir!Create
<1>4. /\ new \in ConfigInodes
      /\ \A d \in configFiles.survivors \cup {configFiles.dir} : \A n \in Files : d[n] # new
  BY <1>3 DEF ConfigDir!Unused, Files
<1>5. /\ dir \in Directories /\ dir["temp"] = new /\ new # None
      /\ ConfigDir!WithoutTemporary(dir) = configFiles.dir
  BY <1>1, <1>3, <1>4, FilesAssumption
  DEF ConfigDir!WithoutTemporary, DirectoryOK, Directories, Files, ConfigDir!FilesFit
<1>6. configFiles.dir \in configFiles.survivors
  BY <1>1, WithoutTemporaryOf DEF DirectoryOK, SurvivorsAreWhole
<1> DEFINE data == [configFiles.data EXCEPT ![new] = Torn]
           disk == [configFiles.disk EXCEPT ![new] = Torn]
<1>7. /\ f = [dir |-> configFiles.dir, survivors |-> configFiles.survivors, data |-> data,
              disk |-> disk, calls |-> Tail(configFiles.calls), outcome |-> "none"]
  <2>1. /\ made = [dir |-> configFiles.dir, survivors |-> configFiles.survivors,
                   data |-> configFiles.data, disk |-> configFiles.disk,
                   calls |-> Tail(configFiles.calls), outcome |-> "none"]
    BY <1>2, <1>3, Making
  <2>2. made.data = configFiles.data /\ made.disk = configFiles.disk
    BY <2>1
  <2>3. f = [made EXCEPT !.data = [made.data EXCEPT ![new] = Torn],
                         !.disk = [made.disk EXCEPT ![new] = Torn]]
    BY <1>3
  <2> HIDE DEF data, disk
  <2>4. f = [made EXCEPT !.data = data, !.disk = disk]
    BY <2>2, <2>3 DEF data, disk
  <2> QED BY <2>1, <2>4
<1> HIDE DEF data, disk
<1>8. configFiles' = [f EXCEPT !.dir = dir, !.survivors = f.survivors \cup {configFiles.dir}]
  BY <1>3, <1>5 DEF ConfigDir!WithDirectory
<1>9. configFiles' = [dir |-> dir, survivors |-> configFiles.survivors, data |-> data,
                      disk |-> disk, calls |-> Tail(configFiles.calls), outcome |-> "none"]
  <2>1. f.survivors \cup {configFiles.dir} = configFiles.survivors
    BY <1>6, <1>7
  <2> QED BY <1>7, <1>8, <2>1
<1>10. /\ configFiles'.dir = dir /\ configFiles'.survivors = configFiles.survivors
       /\ configFiles'.data = data /\ configFiles'.disk = disk
       /\ configFiles'.calls = Tail(configFiles.calls) /\ configFiles'.outcome = "none"
  BY <1>9
<1>11. /\ data \in [ConfigInodes -> Contents] /\ disk \in [ConfigInodes -> Contents]
       /\ \A i \in ConfigInodes : i # new =>
            data[i] = configFiles.data[i] /\ disk[i] = configFiles.disk[i]
  BY DEF data, disk, DirectoryOK, Contents
<1>12. DirectoryOK'
  BY <1>5, <1>9, <1>10, <1>11 DEF DirectoryOK
<1>13. \A d \in configFiles.survivors : \A n \in {"config", "credentials"} : d[n] # None =>
         d[n] \in ConfigInodes /\ d[n] # new
  BY <1>4 DEF DirectoryOK, Directories, Files
<1>14. Remains
  BY <1>10, <1>11, <1>13 DEF Remains, ConfigIn, CredentialsIn
<1>15. SurvivorsAreWhole'
  BY <1>5, <1>6, <1>10, <1>11, <1>13, <1>14 DEF SurvivorsAreWhole, Whole, Remains
<1>16. Saving(file, contents)'
  BY <1>2, <1>5, <1>10 DEF Saving, CreateCall, WriteCall, SyncCall, RenameCall,
      ConfigDir!SyncDirectory
<1>17. \A n \in {"config", "credentials"} : configFiles'.dir[n] = configFiles.dir[n]
  BY <1>3, <1>10 DEF DirectoryOK, Directories, Files
<1> QED BY <1>10, <1>12, <1>14, <1>15, <1>16, <1>17

LEMMA TemporaryWritten ==
  ASSUME DirectoryOK, SurvivorsAreWhole, NEW file, NEW contents \in Contents,
         Saving(file, contents), ConfigDir!Write
  PROVE  /\ DirectoryOK' /\ SurvivorsAreWhole' /\ Saving(file, contents)' /\ Remains
         /\ configFiles'.survivors = configFiles.survivors
         /\ configFiles'.dir = configFiles.dir
<1>1. /\ configFiles.calls = << WriteCall(contents), SyncCall, RenameCall(file),
                               ConfigDir!SyncDirectory >>
      /\ configFiles.dir["temp"] # None
  BY Sequence, CallFields
  DEF Saving, ConfigDir!Write, ConfigDir!Makes, CreateCall, WriteCall, SyncCall, RenameCall,
      ConfigDir!SyncDirectory
<1>2. /\ Head(configFiles.calls) = WriteCall(contents)
      /\ Tail(configFiles.calls) = << SyncCall, RenameCall(file), ConfigDir!SyncDirectory >>
      /\ Tail(configFiles.calls) # <<>>
      /\ WriteCall(contents).file = "temp" /\ WriteCall(contents).arg = contents
  BY <1>1, Sequence, CallFields DEF WriteCall
<1>3. PICK i, made :
        /\ i \in ConfigInodes
        /\ i = configFiles.dir["temp"] /\ made = ConfigDir!Made
        /\ configFiles' = [made EXCEPT !.data[i] = contents]
  BY <1>1, <1>2 DEF ConfigDir!Write, DirectoryOK, Directories, Files
<1> DEFINE data == [configFiles.data EXCEPT ![i] = contents]
<1>4. configFiles' = [dir |-> configFiles.dir, survivors |-> configFiles.survivors,
                      data |-> data, disk |-> configFiles.disk,
                      calls |-> Tail(configFiles.calls), outcome |-> "none"]
  <2>1. /\ made = [dir |-> configFiles.dir, survivors |-> configFiles.survivors,
                   data |-> configFiles.data, disk |-> configFiles.disk,
                   calls |-> Tail(configFiles.calls), outcome |-> "none"]
    BY <1>2, <1>3, Making
  <2>2. configFiles' = [made EXCEPT !.data = [made.data EXCEPT ![i] = contents]]
    BY <1>3
  <2>3. made.data = configFiles.data
    BY <2>1
  <2> HIDE DEF data
  <2>4. configFiles' = [made EXCEPT !.data = data]
    BY <2>2, <2>3 DEF data
  <2> QED BY <2>1, <2>4
<1> HIDE DEF data
<1>5. /\ configFiles'.dir = configFiles.dir /\ configFiles'.survivors = configFiles.survivors
      /\ configFiles'.data = data /\ configFiles'.disk = configFiles.disk
      /\ configFiles'.calls = Tail(configFiles.calls) /\ configFiles'.outcome = "none"
  BY <1>4
<1>6. /\ data \in [ConfigInodes -> Contents] /\ data[i] = contents
      /\ \A j \in ConfigInodes : j # i => data[j] = configFiles.data[j]
  BY <1>3 DEF data, DirectoryOK
<1>7. DirectoryOK'
  BY <1>4, <1>5, <1>6 DEF DirectoryOK
<1>8. \A d \in configFiles.survivors : \A n \in {"config", "credentials"} : d[n] # None =>
        d[n] \in ConfigInodes /\ d[n] # i
  BY <1>3 DEF SurvivorsAreWhole, Whole, DirectoryOK, Directories, Files
<1>9. Remains
  BY <1>5, <1>6, <1>8 DEF Remains, ConfigIn, CredentialsIn
<1>10. SurvivorsAreWhole'
  BY <1>5, <1>6, <1>8, <1>9 DEF SurvivorsAreWhole, Whole, Remains
<1>11. Saving(file, contents)'
  BY <1>1, <1>2, <1>3, <1>5, <1>6
  DEF Saving, CreateCall, WriteCall, SyncCall, RenameCall, ConfigDir!SyncDirectory
<1> QED BY <1>5, <1>7, <1>9, <1>10, <1>11

LEMMA TemporarySynced ==
  ASSUME DirectoryOK, SurvivorsAreWhole, NEW file, NEW contents,
         Saving(file, contents), ConfigDir!Sync
  PROVE  /\ DirectoryOK' /\ SurvivorsAreWhole' /\ Saving(file, contents)' /\ Remains
         /\ configFiles'.survivors = configFiles.survivors
         /\ configFiles'.dir = configFiles.dir
<1>1. /\ configFiles.calls = << SyncCall, RenameCall(file), ConfigDir!SyncDirectory >>
      /\ configFiles.dir["temp"] # None
      /\ configFiles.data[configFiles.dir["temp"]] = contents
  BY Sequence, CallFields
  DEF Saving, ConfigDir!Sync, ConfigDir!Makes, CreateCall, WriteCall, SyncCall, RenameCall,
      ConfigDir!SyncDirectory
<1>2. /\ Head(configFiles.calls) = SyncCall
      /\ Tail(configFiles.calls) = << RenameCall(file), ConfigDir!SyncDirectory >>
      /\ Tail(configFiles.calls) # <<>>
      /\ SyncCall.file = "temp"
  BY <1>1, Sequence, CallFields DEF SyncCall
<1>3. PICK i, made :
        /\ i \in ConfigInodes
        /\ i = configFiles.dir["temp"] /\ made = ConfigDir!Made
        /\ configFiles' = [made EXCEPT !.disk[i] = configFiles.data[i]]
  BY <1>1, <1>2 DEF ConfigDir!Sync, DirectoryOK, Directories, Files
<1> DEFINE disk == [configFiles.disk EXCEPT ![i] = configFiles.data[i]]
<1>4. configFiles' = [dir |-> configFiles.dir, survivors |-> configFiles.survivors,
                      data |-> configFiles.data, disk |-> disk,
                      calls |-> Tail(configFiles.calls), outcome |-> "none"]
  <2>1. /\ made = [dir |-> configFiles.dir, survivors |-> configFiles.survivors,
                   data |-> configFiles.data, disk |-> configFiles.disk,
                   calls |-> Tail(configFiles.calls), outcome |-> "none"]
    BY <1>2, <1>3, Making
  <2>2. configFiles' = [made EXCEPT !.disk = [made.disk EXCEPT ![i] = configFiles.data[i]]]
    BY <1>3
  <2>3. made.disk = configFiles.disk
    BY <2>1
  <2> HIDE DEF disk
  <2>4. configFiles' = [made EXCEPT !.disk = disk]
    BY <2>2, <2>3 DEF disk
  <2> QED BY <2>1, <2>4
<1> HIDE DEF disk
<1>5. /\ configFiles'.dir = configFiles.dir /\ configFiles'.survivors = configFiles.survivors
      /\ configFiles'.data = configFiles.data /\ configFiles'.disk = disk
      /\ configFiles'.calls = Tail(configFiles.calls) /\ configFiles'.outcome = "none"
  BY <1>4
<1>6. /\ disk \in [ConfigInodes -> Contents] /\ disk[i] = configFiles.data[i]
      /\ \A j \in ConfigInodes : j # i => disk[j] = configFiles.disk[j]
  BY <1>3 DEF disk, DirectoryOK
<1>7. DirectoryOK'
  BY <1>4, <1>5, <1>6 DEF DirectoryOK
<1>8. \A d \in configFiles.survivors : \A n \in {"config", "credentials"} : d[n] # None =>
        d[n] \in ConfigInodes /\ d[n] # i
  BY <1>3 DEF SurvivorsAreWhole, Whole, DirectoryOK, Directories, Files
<1>9. Remains
  BY <1>5 DEF Remains, ConfigIn, CredentialsIn
<1>10. SurvivorsAreWhole'
  BY <1>5, <1>6, <1>8, <1>9 DEF SurvivorsAreWhole, Whole, Remains
<1>11. Saving(file, contents)'
  BY <1>1, <1>2, <1>3, <1>5, <1>6
  DEF Saving, CreateCall, WriteCall, SyncCall, RenameCall, ConfigDir!SyncDirectory
<1> QED BY <1>5, <1>7, <1>9, <1>10, <1>11

LEMMA FileRenamed ==
  ASSUME DirectoryOK, SurvivorsAreWhole, NEW file \in {"config", "credentials"},
         NEW contents \in ContentsOf(file), Saving(file, contents), ConfigDir!Rename
  PROVE  /\ DirectoryOK' /\ SurvivorsAreWhole' /\ Saving(file, contents)'
         /\ OldOrSaved(file, contents)
         /\ configFiles.survivors \subseteq configFiles'.survivors
         /\ configFiles'.data = configFiles.data
         /\ configFiles'.survivors = configFiles.survivors \cup {configFiles'.dir}
         /\ file = "config" =>
              ConfigOnDisk' = contents /\ CredentialsOnDisk' = CredentialsOnDisk
         /\ file = "credentials" =>
              CredentialsOnDisk' = contents /\ ConfigOnDisk' = ConfigOnDisk
<1>1. /\ configFiles.calls = << RenameCall(file), ConfigDir!SyncDirectory >>
      /\ configFiles.dir["temp"] # None
      /\ configFiles.data[configFiles.dir["temp"]] = contents
      /\ configFiles.disk[configFiles.dir["temp"]] = contents
  BY Sequence, CallFields
  DEF Saving, ConfigDir!Rename, ConfigDir!Makes, CreateCall, WriteCall, SyncCall, RenameCall,
      ConfigDir!SyncDirectory
<1>2. /\ Head(configFiles.calls) = RenameCall(file)
      /\ Tail(configFiles.calls) = << ConfigDir!SyncDirectory >>
      /\ Tail(configFiles.calls) # <<>>
      /\ RenameCall(file).file = "temp" /\ RenameCall(file).arg = file
  BY <1>1, Sequence, CallFields DEF RenameCall
<1>3. PICK i, made, dir :
        /\ i \in ConfigInodes
        /\ i = configFiles.dir["temp"] /\ made = ConfigDir!Made
        /\ dir = [configFiles.dir EXCEPT ![file] = i, !["temp"] = None]
        /\ configFiles' = ConfigDir!WithDirectory(made, dir)
  BY <1>1, <1>2 DEF ConfigDir!Rename, DirectoryOK, Directories, Files
<1>4. /\ dir \in Directories /\ dir["temp"] = None /\ dir[file] = i
      /\ \A n \in {"config", "credentials"} : n # file => dir[n] = configFiles.dir[n]
  BY <1>3 DEF DirectoryOK, Directories, Files
<1>5. ConfigDir!WithoutTemporary(dir) = dir
  BY <1>4, WithoutTemporaryOf
<1>6. made = [dir |-> configFiles.dir, survivors |-> configFiles.survivors,
              data |-> configFiles.data, disk |-> configFiles.disk,
              calls |-> Tail(configFiles.calls), outcome |-> "none"]
  BY <1>2, <1>3, Making
<1>7. configFiles' = [dir |-> dir, survivors |-> configFiles.survivors \cup {dir},
                      data |-> configFiles.data, disk |-> configFiles.disk,
                      calls |-> Tail(configFiles.calls), outcome |-> "none"]
  <2>1. configFiles' = [made EXCEPT !.dir = dir, !.survivors = made.survivors \cup {dir}]
    BY <1>3, <1>5 DEF ConfigDir!WithDirectory
  <2> QED BY <1>6, <2>1
<1>8. /\ configFiles'.dir = dir /\ configFiles'.survivors = configFiles.survivors \cup {dir}
      /\ configFiles'.data = configFiles.data /\ configFiles'.disk = configFiles.disk
      /\ configFiles'.calls = Tail(configFiles.calls) /\ configFiles'.outcome = "none"
  BY <1>7
<1>9. DirectoryOK'
  BY <1>4, <1>7, <1>8 DEF DirectoryOK
<1>10. i # None
  BY <1>1, <1>3
<1>11. OldOrSaved(file, contents)
  <2>1. /\ file = "config" =>
             ConfigIn(dir)' = contents /\ CredentialsIn(dir)' = CredentialsOnDisk
        /\ file = "credentials" =>
             CredentialsIn(dir)' = contents /\ ConfigIn(dir)' = ConfigOnDisk
    BY <1>1, <1>3, <1>4, <1>8, <1>10
    DEF ConfigIn, CredentialsIn, ConfigOnDisk, CredentialsOnDisk, ConfigDir!Read,
        ConfigDir!Exists, ConfigDir!Contents
  <2>2. \A d \in configFiles.survivors :
          ConfigIn(d)' = ConfigIn(d) /\ CredentialsIn(d)' = CredentialsIn(d)
    BY <1>8 DEF ConfigIn, CredentialsIn
  <2> QED BY <1>8, <2>1, <2>2 DEF OldOrSaved
<1>12. ASSUME NEW d \in configFiles.survivors
       PROVE  Whole(d)'
  BY <1>4, <1>8 DEF SurvivorsAreWhole, Whole, ConfigIn, CredentialsIn
<1>13. Whole(dir)'
  <2>1. /\ ConfigIn(dir)' \in Config /\ CredentialsIn(dir)' \in Credentials
    BY <1>1, <1>3, <1>4, <1>8, <1>10, OnDisk
    DEF ConfigIn, CredentialsIn, ConfigOnDisk, CredentialsOnDisk, ConfigDir!Read,
        ConfigDir!Exists, ConfigDir!Contents, ContentsOf
  <2>2. \A n \in {"config", "credentials"} : dir[n] # None =>
          configFiles.data[dir[n]] = configFiles.disk[dir[n]]
    <3>1. ConfigDir!WithoutTemporary(configFiles.dir) \in configFiles.survivors
          /\ \A n \in {"config", "credentials"} :
               ConfigDir!WithoutTemporary(configFiles.dir)[n] = configFiles.dir[n]
      BY WithoutTemporaryOf DEF SurvivorsAreWhole, DirectoryOK
    <3> QED BY <1>1, <1>3, <1>4, <3>1 DEF SurvivorsAreWhole, Whole
  <2> QED BY <1>4, <1>8, <2>1, <2>2 DEF Whole
<1>14. SurvivorsAreWhole'
  BY <1>5, <1>8, <1>12, <1>13 DEF SurvivorsAreWhole
<1>15. Saving(file, contents)'
  <2>1. /\ configFiles'.calls = << ConfigDir!SyncDirectory >> /\ configFiles'.outcome = "none"
        /\ configFiles'.dir["temp"] = None /\ configFiles'.dir[file] # None
    BY <1>2, <1>4, <1>8, <1>10
  <2>2. configFiles'.data[configFiles'.dir[file]] = contents
    BY <1>1, <1>3, <1>4, <1>8
  <2>3. InPlace(file, contents)'
    BY <2>1, <2>2 DEF InPlace
  <2> QED BY <2>1, <2>3 DEF Saving, ConfigDir!SyncDirectory
<1>16. /\ file = "config" =>
            ConfigOnDisk' = contents /\ CredentialsOnDisk' = CredentialsOnDisk
       /\ file = "credentials" =>
            CredentialsOnDisk' = contents /\ ConfigOnDisk' = ConfigOnDisk
  <2>1. configFiles'.dir[file] # None /\ configFiles'.data[configFiles'.dir[file]] = contents
    <3>1. configFiles'.dir[file] = i /\ configFiles'.data = configFiles.data
      BY <1>4, <1>8
    <3>2. configFiles.data[i] = contents
      BY <1>1, <1>3
    <3> QED BY <1>10, <3>1, <3>2
  <2>2. /\ file = "config" => configFiles'.dir["credentials"] = configFiles.dir["credentials"]
        /\ file = "credentials" => configFiles'.dir["config"] = configFiles.dir["config"]
    BY <1>4, <1>8
  <2>3. configFiles'.data = configFiles.data
    BY <1>8
  <2> QED
    BY <2>1, <2>2, <2>3
    DEF ConfigOnDisk, CredentialsOnDisk, ConfigDir!Read, ConfigDir!Exists, ConfigDir!Contents
<1> QED BY <1>8, <1>9, <1>11, <1>14, <1>15, <1>16

LEMMA DirectorySynced ==
  ASSUME DirectoryOK, SurvivorsAreWhole, NEW file \in {"config", "credentials"}, NEW contents,
         Saving(file, contents), ConfigDir!SyncDir
  PROVE  /\ DirectoryOK' /\ SurvivorsAreWhole' /\ Saving(file, contents)' /\ Remains
         /\ configFiles'.survivors = {configFiles.dir} /\ configFiles'.dir = configFiles.dir
         /\ InPlace(file, contents) /\ configFiles.dir \in configFiles.survivors
<1>1. /\ configFiles.calls = << ConfigDir!SyncDirectory >> /\ InPlace(file, contents)
  BY Sequence, CallFields
  DEF Saving, ConfigDir!SyncDir, ConfigDir!Makes, CreateCall, WriteCall, SyncCall, RenameCall,
      ConfigDir!SyncDirectory
<1>2. Tail(configFiles.calls) = <<>>
  BY <1>1, Sequence
<1>3. PICK made, f :
        /\ made = ConfigDir!Made
        /\ f = [made EXCEPT !.survivors = {configFiles.dir}]
        /\ configFiles' = ConfigDir!Collected(f)
  BY DEF ConfigDir!SyncDir
<1>4. made = [dir |-> configFiles.dir, survivors |-> configFiles.survivors,
              data |-> configFiles.data, disk |-> configFiles.disk,
              calls |-> <<>>, outcome |-> "ok"]
  BY <1>2, <1>3, Making
<1>5. f = [dir |-> configFiles.dir, survivors |-> {configFiles.dir},
           data |-> configFiles.data, disk |-> configFiles.disk,
           calls |-> <<>>, outcome |-> "ok"]
  <2>1. f = [made EXCEPT !.survivors = {configFiles.dir}]
    BY <1>3
  <2> QED BY <1>4, <2>1
<1>6. /\ f.dir = configFiles.dir /\ f.survivors = {configFiles.dir}
      /\ f.data = configFiles.data /\ f.disk = configFiles.disk
      /\ f.calls = <<>> /\ f.outcome = "ok"
      /\ f = [dir |-> f.dir, survivors |-> f.survivors, data |-> f.data, disk |-> f.disk,
              calls |-> f.calls, outcome |-> f.outcome]
  BY <1>5
<1>7. configFiles.dir["temp"] = None /\ configFiles.dir \in configFiles.survivors
  BY <1>1, WithoutTemporaryOf DEF InPlace, DirectoryOK, SurvivorsAreWhole
<1>8. /\ f.data \in [ConfigInodes -> Contents] /\ f.disk \in [ConfigInodes -> Contents]
      /\ f.dir \in Directories /\ f.dir["temp"] = None /\ f.dir \in f.survivors
      /\ f.survivors \subseteq configFiles.survivors
      /\ \A i \in ConfigInodes : configFiles.data[i] = configFiles.disk[i] =>
           f.data[i] = configFiles.data[i] /\ f.disk[i] = configFiles.data[i]
  BY <1>6, <1>7 DEF DirectoryOK
<1>collected. configFiles' = ConfigDir!Collected(f)
  BY <1>3
<1>9. /\ DirectoryOK' /\ SurvivorsAreWhole' /\ Remains
      /\ configFiles'.calls = f.calls /\ configFiles'.outcome = f.outcome
      /\ configFiles'.dir = f.dir
  BY <1>collected, <1>6, <1>8, Settled
<1>10. configFiles'.survivors = {configFiles.dir}
  BY <1>collected, <1>6, <1>8, Collecting
<1>11. Saving(file, contents)'
  <2>1. configFiles.dir[file] \in ConfigInodes /\ configFiles.dir[file] # None
    BY <1>1 DEF InPlace, DirectoryOK, Directories, Files
  <2>2. configFiles'.data[configFiles.dir[file]] = contents
    BY <1>1, <1>collected, <1>6, <1>8, <2>1, Collecting DEF InPlace, Files
  <2> QED BY <1>1, <1>6, <1>9, <1>10, <2>2 DEF Saving, InPlace
<1> QED BY <1>1, <1>6, <1>7, <1>9, <1>10, <1>11

(* Settings that were on the disk are there still, unless the saved ones are.*)
ConfigStays(file, contents) ==
  \/ \A d \in configFiles.survivors :
       d \in configFiles'.survivors /\ ConfigIn(d)' = ConfigIn(d)
  \/ file = "config" /\ \E d \in configFiles'.survivors : ConfigIn(d)' = contents
  \/ file = "credentials"

LEMMA SaveMakesCall ==
  ASSUME DirectoryOK, SurvivorsAreWhole, NEW file \in {"config", "credentials"},
         NEW contents \in ContentsOf(file), Saving(file, contents), ConfigDir!CallStep
  PROVE  /\ DirectoryOK' /\ SurvivorsAreWhole' /\ Saving(file, contents)'
         /\ OldOrSaved(file, contents) /\ ConfigStays(file, contents)
<1>0. /\ Remains => OldOrSaved(file, contents)
      /\ Remains /\ configFiles'.survivors = configFiles.survivors =>
           ConfigStays(file, contents)
  BY DEF Remains, OldOrSaved, ConfigStays
<1>1. CASE ConfigDir!Create
  BY <1>0, <1>1, TemporaryCreated
<1>2. CASE ConfigDir!Write
  <2>1. contents \in Contents
    BY DEF ContentsOf, Contents
  <2> QED BY <1>0, <1>2, <2>1, TemporaryWritten
<1>3. CASE ConfigDir!Sync
  BY <1>0, <1>3, TemporarySynced
<1>4. CASE ConfigDir!Rename
  BY <1>4, FileRenamed DEF ConfigStays, ConfigIn
<1>5. CASE ConfigDir!SyncDir
  <2>1. ConfigStays(file, contents)
    <3>1. PICK d : d = configFiles.dir
      OBVIOUS
    <3>2. file = "config" => ConfigIn(d) = contents
      BY <1>5, <3>1, DirectorySynced DEF InPlace, ConfigIn
    <3>3. configFiles'.survivors = {d} /\ ConfigIn(d)' = ConfigIn(d)
      BY <1>5, <3>1, DirectorySynced DEF Remains
    <3> QED BY <3>2, <3>3 DEF ConfigStays
  <2> QED BY <1>0, <1>5, <2>1, DirectorySynced
<1>6. CASE ConfigDir!Fail
  BY <1>0, <1>6, FunctionEnds DEF ConfigDir!Fail, Saving
<1>7. ~ConfigDir!Unlink
  BY Sequence, CallFields
  DEF Saving, ConfigDir!Unlink, ConfigDir!Makes, CreateCall, WriteCall, SyncCall, RenameCall,
      ConfigDir!SyncDirectory
<1> QED BY <1>1, <1>2, <1>3, <1>4, <1>5, <1>6, <1>7 DEF ConfigDir!CallStep

(* An edit by hand is the only thing that a crash may leave afterwards.      *)
LEMMA Edited ==
  ASSUME DirectoryOK, SurvivorsAreWhole, NEW c \in Config, ConfigDir!Idle,
         configFiles.dir["temp"] = None, ConfigDir!Replaced("config", c)
  PROVE  /\ DirectoryOK' /\ SurvivorsAreWhole' /\ ConfigDir!Idle'
         /\ configFiles'.dir["temp"] = None
         /\ \A d \in configFiles'.survivors :
              ConfigIn(d)' = c /\ CredentialsIn(d)' = CredentialsOnDisk
<1>1. PICK new, dir, f :
        /\ new \in ConfigInodes
        /\ \A n \in Files : configFiles.dir[n] # new
        /\ dir = [configFiles.dir EXCEPT !["config"] = new]
        /\ f = [configFiles EXCEPT !.dir = dir, !.survivors = {dir},
                                   !.data[new] = c, !.disk[new] = c]
        /\ configFiles' = ConfigDir!Collected(f)
  BY DEF ConfigDir!Replaced, Files
<1>collected. configFiles' = ConfigDir!Collected(f)
  BY <1>1
<1>2. /\ dir \in Directories /\ dir["config"] = new /\ dir["temp"] = None /\ new # None
      /\ dir["credentials"] = configFiles.dir["credentials"]
  BY <1>1, FilesAssumption DEF DirectoryOK, Directories, Files, ConfigDir!FilesFit
<1>3. ConfigDir!WithoutTemporary(dir) = dir
  BY <1>2, WithoutTemporaryOf
<1> DEFINE data == [configFiles.data EXCEPT ![new] = c]
           disk == [configFiles.disk EXCEPT ![new] = c]
<1>4. f = [dir |-> dir, survivors |-> {dir}, data |-> data, disk |-> disk,
           calls |-> configFiles.calls, outcome |-> configFiles.outcome]
  <2>1. f = [configFiles EXCEPT !.dir = dir, !.survivors = {dir},
                                !.data = data, !.disk = disk]
    BY <1>1
  <2> HIDE DEF data, disk
  <2> QED BY <2>1 DEF DirectoryOK
<1>5. /\ data \in [ConfigInodes -> Contents] /\ disk \in [ConfigInodes -> Contents]
      /\ data[new] = c /\ disk[new] = c
      /\ \A i \in ConfigInodes : i # new =>
           data[i] = configFiles.data[i] /\ disk[i] = configFiles.disk[i]
  BY <1>1 DEF DirectoryOK, Contents
<1> HIDE DEF data, disk
<1>6. /\ f.dir = dir /\ f.survivors = {dir} /\ f.data = data /\ f.disk = disk
      /\ f.calls = configFiles.calls /\ f.outcome = configFiles.outcome
      /\ f = [dir |-> f.dir, survivors |-> f.survivors, data |-> f.data, disk |-> f.disk,
              calls |-> f.calls, outcome |-> f.outcome]
  BY <1>4
<1>7. /\ configFiles' = [dir |-> dir, survivors |-> {dir}, data |-> configFiles'.data,
                         disk |-> configFiles'.disk, calls |-> configFiles.calls,
                         outcome |-> configFiles.outcome]
      /\ configFiles'.data \in [ConfigInodes -> Contents]
      /\ configFiles'.disk \in [ConfigInodes -> Contents]
      /\ \A n \in Files : dir[n] \in ConfigInodes =>
           configFiles'.data[dir[n]] = data[dir[n]] /\ configFiles'.disk[dir[n]] = disk[dir[n]]
  BY <1>5, <1>6, <1>collected, Collecting
<1>8. /\ configFiles'.dir = dir /\ configFiles'.survivors = {dir}
      /\ configFiles'.calls = configFiles.calls /\ configFiles'.outcome = configFiles.outcome
  BY <1>7
<1>9. DirectoryOK'
  BY <1>2, <1>7, <1>8 DEF DirectoryOK
<1>10. /\ configFiles'.data[new] = c /\ configFiles'.disk[new] = c
       /\ dir["credentials"] # None =>
            /\ configFiles'.data[dir["credentials"]] = configFiles.data[dir["credentials"]]
            /\ configFiles'.disk[dir["credentials"]] = configFiles.disk[dir["credentials"]]
  BY <1>1, <1>2, <1>5, <1>7 DEF Directories, Files
<1>11. ConfigIn(dir)' = c /\ CredentialsIn(dir)' = CredentialsOnDisk
  BY <1>2, <1>8, <1>10
  DEF ConfigIn, CredentialsIn, CredentialsOnDisk, ConfigDir!Read, ConfigDir!Exists,
      ConfigDir!Contents
<1>12. configFiles.dir["credentials"] # None =>
         configFiles.data[configFiles.dir["credentials"]]
           = configFiles.disk[configFiles.dir["credentials"]]
  BY WithoutTemporaryOf DEF SurvivorsAreWhole, Whole, DirectoryOK
<1>13. Whole(dir)'
  BY <1>2, <1>8, <1>10, <1>11, <1>12, OnDisk DEF Whole
<1>14. SurvivorsAreWhole'
  BY <1>3, <1>8, <1>13 DEF SurvivorsAreWhole
<1> QED BY <1>2, <1>8, <1>9, <1>11, <1>14 DEF ConfigDir!Idle
-----------------------------------------------------------------------------
(* The commands.                                                             *)
LEMMA Domains ==
  /\ \A c \in Config : DOMAIN c = Fields
  /\ \A tokens \in Credentials : DOMAIN tokens = Providers
  /\ DefaultConfig \in Config /\ NoCredentials \in Credentials
<1>1. \A c \in Config : DOMAIN c = Fields
  BY DEF Config, Fields
<1>2. \A tokens \in Credentials : DOMAIN tokens = Providers
  BY DEF Credentials
<1>3. DefaultConfig \in Config
  BY CatalogAssumption DEF Config, DefaultConfig
<1>4. NoCredentials \in Credentials
  BY DEF Credentials, NoCredentials
<1> QED BY <1>1, <1>2, <1>3, <1>4

(* What update_settings goes on to use are valid settings, and it saves them *)
(* all, but for a model that it leaves behind.                               *)
LEMMA SettingsToSave ==
  ASSUME NEW c \in Config, NEW enabled \in BOOLEAN \cup {None},
         NEW provider \in Providers \cup {None}, NEW model, NEW updated, NEW written,
         updated = Applied(c, enabled, provider, model),
         written = Saved(c, enabled, provider, model,
                         ProviderChanges(c, provider) /\ model = None),
         Accepted(updated, ProviderChanges(c, provider), model)
  PROVE  /\ updated \in Config /\ written \in Config /\ Valid(updated)
         /\ Save(written, updated) \in ConfigSaves
         /\ \A f \in Fields : f # "model" => written[f] = updated[f]
         /\ written.model # updated.model => written.model = c.model
<1> DEFINE newEnabled == Given(enabled, c.enabled)
           newProvider == Given(provider, c.provider)
           newModel == IF model # None THEN model
                       ELSE IF ProviderChanges(c, provider) THEN None ELSE c.model
           fileModel == IF model # None THEN model
                        ELSE IF ProviderChanges(c, provider) /\ ~c.inline THEN None ELSE c.model
<1>1. newEnabled \in BOOLEAN /\ newProvider \in Providers
  BY DEF Given, Config
<1>2. updated = [c EXCEPT !.enabled = newEnabled, !.provider = newProvider, !.model = newModel]
  BY DEF Applied
<1>3. written = [c EXCEPT !.enabled = newEnabled, !.provider = newProvider, !.model = fileModel]
  BY DEF Saved
<1>4. \/ fileModel = newModel
      \/ c.inline /\ newModel = None /\ fileModel = c.model
  BY DEF Config
<1> HIDE DEF newEnabled, newProvider
<1>5. /\ updated.enabled = newEnabled /\ updated.provider = newProvider
      /\ updated.model = newModel
  BY <1>2 DEF Config
<1>6. Valid(updated)
  BY DEF Accepted, Valid
<1>7. newModel \in (UNION {Catalog[p] : p \in Providers}) \cup {None}
  <2>1. CASE model # None
    <3>1. ValidModel(updated) /\ newModel = model
      BY <2>1 DEF Accepted
    <3> HIDE DEF newModel
    <3>2. model \in Catalog[newProvider]
      BY <1>5, <2>1, <3>1 DEF ValidModel
    <3> QED BY <1>1, <3>1, <3>2
  <2>2. CASE model = None
    BY <2>2 DEF Config
  <2> QED BY <2>1, <2>2
<1> HIDE DEF newModel, fileModel
<1>8. fileModel \in (UNION {Catalog[p] : p \in Providers}) \cup {None}
  BY <1>4, <1>7 DEF Config
<1>9. updated \in Config /\ written \in Config
  BY <1>1, <1>2, <1>3, <1>7, <1>8 DEF Config
<1>10. written.model = fileModel /\ updated.inline = c.inline
  BY <1>2, <1>3 DEF Config
<1>11. written = [updated EXCEPT !.model = written.model]
  BY <1>2, <1>3, <1>10 DEF Config
<1>12. \A f \in Fields : f # "model" => written[f] = updated[f]
  BY <1>9, <1>11 DEF Fields, Config
<1>13. written = updated \/ (updated.inline /\ updated.model = None)
  <2>1. CASE fileModel = newModel
    BY <1>2, <1>3, <2>1
  <2>2. CASE c.inline /\ newModel = None
    BY <1>5, <1>10, <2>2
  <2> QED BY <1>4, <2>1, <2>2
<1>14. /\ Save(written, updated).file = written /\ Save(written, updated).memory = updated
       /\ Save(written, updated) \in [file : Config, memory : Config]
  BY <1>9 DEF Save
<1>15. Save(written, updated) \in ConfigSaves
  BY <1>11, <1>13, <1>14 DEF ConfigSaves
<1>16. written.model # updated.model => written.model = c.model
  BY <1>4, <1>5, <1>10
<1> QED BY <1>6, <1>9, <1>12, <1>15, <1>16

LEMMA SaveBegins ==
  ASSUME Durable, NEW file \in {"config", "credentials"}, NEW contents,
         NEW update, BeginSave(file, contents, update), command = NoCommand
  PROVE  /\ DirectoryOK' /\ SurvivorsAreWhole' /\ Saving(file, contents)' /\ Remains
         /\ configFiles'.survivors = configFiles.survivors
         /\ UNCHANGED <<running, credentials>> /\ command' = update
<1>1. /\ ConfigDir!Begin(ConfigDir!AtomicWrite(file, contents))
      /\ UNCHANGED <<running, credentials>> /\ command' = update
  BY DEF BeginSave
<1> DEFINE calls == ConfigDir!AtomicWrite(file, contents)
<1>2. calls = << CreateCall, WriteCall(contents), SyncCall, RenameCall(file),
                 ConfigDir!SyncDirectory >>
  BY DEF ConfigDir!AtomicWrite, CreateCall, WriteCall, SyncCall, RenameCall
<1>3. calls # <<>>
  BY <1>2, Sequence
<1> HIDE DEF calls
<1>4. configFiles' = [configFiles EXCEPT !.calls = calls, !.outcome = "none"]
  BY <1>1, <1>3 DEF calls, ConfigDir!Begin, ConfigDir!Returning
<1>5. configFiles.dir["temp"] = None
  BY DEF Durable, CommandIsSaved, NoCommand
<1>6. /\ DirectoryOK' /\ SurvivorsAreWhole' /\ Remains
      /\ configFiles'.calls = calls /\ configFiles'.outcome = "none"
      /\ configFiles'.dir = configFiles.dir
      /\ configFiles'.survivors = configFiles.survivors
  BY <1>4, NothingTouched DEF Durable
<1>7. Saving(file, contents)'
  BY <1>2, <1>5, <1>6
  DEF Saving, CreateCall, WriteCall, SyncCall, RenameCall, ConfigDir!SyncDirectory
<1> QED BY <1>1, <1>6, <1>7

LEMMA Doubted ==
  ASSUME NEW promises, NEW changed
  PROVE  /\ DOMAIN Doubtful(promises, changed) = DOMAIN promises
         /\ \A x \in DOMAIN promises :
              Doubtful(promises, changed)[x] = IF x \in changed THEN Any ELSE promises[x]
  BY DEF Doubtful

LEMMA DurableSettings ==
  ASSUME Storing, NEW enabled \in BOOLEAN \cup {None}, NEW provider \in Providers \cup {None},
         NEW model, UpdateSettings(enabled, provider, model)
  PROVE  /\ Durable' /\ SettingsFollow /\ command'.kind = "settings"
         /\ command'.updated \in Config /\ command'.written \in Config
<1>1. PICK c, updated, written :
        /\ c \in Config
        /\ c = ConfigOnDisk
        /\ updated = Applied(c, enabled, provider, model)
        /\ written = Saved(c, enabled, provider, model,
                           ProviderChanges(c, provider) /\ model = None)
        /\ Accepted(updated, ProviderChanges(c, provider), model)
        /\ BeginSave("config", written,
                     [kind |-> "settings", updated |-> updated, written |-> written])
        /\ promised' = Doubtful(promised, {f \in DOMAIN updated : updated[f] # c[f]})
        /\ UNCHANGED promisedToken
        /\ command = NoCommand
  BY OnDisk DEF UpdateSettings, Ready, Idle, Storing, Durable
<1>2. /\ updated \in Config /\ written \in Config /\ Valid(updated)
      /\ Save(written, updated) \in ConfigSaves
      /\ \A f \in Fields : f # "model" => written[f] = updated[f]
      /\ written.model # updated.model => written.model = c.model
  BY <1>1, SettingsToSave
<1> DEFINE update == [kind |-> "settings", updated |-> updated, written |-> written]
<1>3. update.kind = "settings" /\ update.updated = updated /\ update.written = written
  OBVIOUS
<1> HIDE DEF update
<1>4. /\ DirectoryOK' /\ SurvivorsAreWhole' /\ Saving("config", written)' /\ Remains
      /\ configFiles'.survivors = configFiles.survivors
      /\ UNCHANGED <<running, credentials>> /\ command' = update
  BY <1>1, SaveBegins DEF Storing, update
<1>5. /\ DOMAIN promised' = Fields
      /\ \A f \in Fields : promised'[f] = IF updated[f] # c[f] THEN Any ELSE promised[f]
  BY <1>1, <1>2, Doubted, Domains DEF Storing, Durable, Promised
<1>6. \A f \in Fields : promised[f] \in {Any, c[f]}
  BY <1>1, OnDisk DEF Storing, Durable, Promised
<1>7. Promised'
  <2>1. \A d \in configFiles'.survivors :
          /\ \A f \in Fields : promised'[f] \in {Any, ConfigIn(d)'[f]}
          /\ \A p \in Providers : promisedToken'[p] \in {Any, CredentialsIn(d)'[p]}
    BY <1>1, <1>4, <1>5 DEF Remains, Storing, Durable, Promised
  <2>2. \A f \in Fields : promised'[f] \in {Any, written[f]}
    <3>1. \A f \in Fields : written[f] = updated[f] \/ written[f] = c[f]
      BY <1>2
    <3> QED BY <1>5, <1>6, <3>1
  <2> QED BY <1>1, <1>3, <1>4, <1>5, <2>1, <2>2 DEF Storing, Durable, Promised
<1>8. CommandIsSaved'
  BY <1>3, <1>4 DEF CommandIsSaved
<1>9. SavesValid'
  BY <1>2, <1>3, <1>4 DEF SavesValid
<1> QED BY RemainingFollow, <1>2, <1>3, <1>4, <1>7, <1>8, <1>9 DEF Durable

LEMMA DurableDebug ==
  ASSUME Storing, NEW enabled \in BOOLEAN, UpdateDebug(enabled)
  PROVE  /\ Durable' /\ SettingsFollow /\ command'.kind = "settings"
         /\ command'.updated \in Config /\ command'.written \in Config
<1>1. PICK c, updated :
        /\ c \in Config
        /\ c = ConfigOnDisk
        /\ updated = [c EXCEPT !.debug = enabled]
        /\ BeginSave("config", updated,
                     [kind |-> "settings", updated |-> updated, written |-> updated])
        /\ promised' = Doubtful(promised, {"debug"})
        /\ UNCHANGED promisedToken
        /\ command = NoCommand
  BY OnDisk DEF UpdateDebug, Ready, Idle, Storing, Durable
<1>2. /\ updated \in Config
      /\ Valid(c) => Valid(updated)
      /\ \A f \in Fields : f # "debug" => updated[f] = c[f]
  BY <1>1 DEF Config, Fields, Valid, ValidModel
<1> DEFINE update == [kind |-> "settings", updated |-> updated, written |-> updated]
<1>3. update.kind = "settings" /\ update.updated = updated /\ update.written = updated
  OBVIOUS
<1> HIDE DEF update
<1>4. /\ DirectoryOK' /\ SurvivorsAreWhole' /\ Saving("config", updated)' /\ Remains
      /\ configFiles'.survivors = configFiles.survivors
      /\ UNCHANGED <<running, credentials>> /\ command' = update
  BY <1>1, <1>2, SaveBegins DEF Storing, update
<1>5. /\ DOMAIN promised' = Fields
      /\ \A f \in Fields : promised'[f] = IF f = "debug" THEN Any ELSE promised[f]
  BY <1>1, Doubted DEF Storing, Durable, Promised
<1>6. \A f \in Fields : promised[f] \in {Any, c[f]}
  BY <1>1, OnDisk DEF Storing, Durable, Promised
<1>7. Promised'
  <2>1. \A d \in configFiles'.survivors :
          /\ \A f \in Fields : promised'[f] \in {Any, ConfigIn(d)'[f]}
          /\ \A p \in Providers : promisedToken'[p] \in {Any, CredentialsIn(d)'[p]}
    BY <1>1, <1>4, <1>5 DEF Remains, Storing, Durable, Promised
  <2>2. \A f \in Fields : promised'[f] \in {Any, updated[f]}
    BY <1>2, <1>5, <1>6
  <2> QED BY <1>1, <1>3, <1>4, <1>5, <2>1, <2>2 DEF Storing, Durable, Promised
<1>8. CommandIsSaved'
  BY <1>3, <1>4 DEF CommandIsSaved
<1>9. SavesValid'
  <2>1. PICK d \in configFiles.survivors : ConfigIn(d) = c
    BY <1>1, OnDisk DEF Storing, Durable
  <2>2. d \in configFiles'.survivors /\ ConfigIn(d)' = c
    BY <1>4, <2>1 DEF Remains
  <2>3. Save(updated, updated) \in ConfigSaves
    BY <1>2 DEF Save, ConfigSaves
  <2> QED BY <1>2, <1>3, <1>4, <2>2, <2>3 DEF SavesValid
<1> QED BY RemainingFollow, <1>2, <1>3, <1>4, <1>7, <1>8, <1>9 DEF Durable

LEMMA DurableToken ==
  ASSUME Storing, NEW provider \in Providers, NEW token \in Tokens \cup {None},
         UpdateToken(provider, token)
  PROVE  Durable' /\ SettingsFollow /\ command'.kind = "token" /\ command'.updated \in Credentials
<1>1. PICK updated :
        /\ updated = [credentials EXCEPT ![provider] = token]
        /\ BeginSave("credentials", updated, [kind |-> "token", updated |-> updated])
        /\ promisedToken' = Doubtful(promisedToken, {provider})
        /\ UNCHANGED promised
        /\ command = NoCommand /\ running
  BY DEF UpdateToken, Ready, Idle
<1>2. /\ updated \in Credentials
      /\ \A p \in Providers : p # provider => updated[p] = credentials[p]
  BY <1>1 DEF Storing, TypeOK, Credentials
<1> DEFINE update == [kind |-> "token", updated |-> updated]
<1>3. update.kind = "token" /\ update.updated = updated
  OBVIOUS
<1> HIDE DEF update
<1>4. /\ DirectoryOK' /\ SurvivorsAreWhole' /\ Saving("credentials", updated)' /\ Remains
      /\ configFiles'.survivors = configFiles.survivors
      /\ UNCHANGED <<running, credentials>> /\ command' = update
  BY <1>1, SaveBegins DEF Storing, update
<1>5. /\ DOMAIN promisedToken' = Providers
      /\ \A p \in Providers :
           promisedToken'[p] = IF p = provider THEN Any ELSE promisedToken[p]
  BY <1>1, Doubted DEF Storing, Durable, Promised
<1>6. \A p \in Providers : promisedToken[p] \in {Any, credentials[p]}
  BY <1>1 DEF Storing, Durable, Promised
<1>7. Promised'
  <2>1. \A d \in configFiles'.survivors :
          /\ \A f \in Fields : promised'[f] \in {Any, ConfigIn(d)'[f]}
          /\ \A p \in Providers : promisedToken'[p] \in {Any, CredentialsIn(d)'[p]}
    BY <1>1, <1>4, <1>5 DEF Remains, Storing, Durable, Promised
  <2>2. \A p \in Providers : promisedToken'[p] \in {Any, updated[p]}
    BY <1>2, <1>5, <1>6
  <2> QED BY <1>1, <1>3, <1>4, <1>5, <1>6, <2>1, <2>2 DEF Storing, Durable, Promised
<1>8. CommandIsSaved'
  BY <1>3, <1>4 DEF CommandIsSaved
<1>9. SavesValid'
  BY <1>3, <1>4 DEF SavesValid
<1> QED BY RemainingFollow, <1>2, <1>3, <1>4, <1>7, <1>8, <1>9 DEF Durable

(* The actor takes the result of a save.                                     *)
LEMMA ResultTaken ==
  ASSUME Durable, NEW result, ConfigDir!Take(result), result # "none",
         command.kind \notin {"none", "clear"} \/ ~ConfigDir!Idle,
         command' = NoCommand
  PROVE  DirectoryOK' /\ SurvivorsAreWhole' /\ CommandIsSaved' /\ SavesValid' /\ Remains
<1>1. /\ configFiles.calls = <<>> /\ configFiles.outcome = result
      /\ configFiles' = [configFiles EXCEPT !.calls = <<>>, !.outcome = "none"]
  <2>1. /\ configFiles.calls = <<>> /\ configFiles.outcome = result
        /\ configFiles' = [configFiles EXCEPT !.outcome = "none"]
    BY DEF ConfigDir!Take
  <2> QED BY <2>1 DEF Durable, DirectoryOK
<1>2. configFiles.dir["temp"] = None
  BY <1>1, Sequence
  DEF Durable, CommandIsSaved, Saving, InPlace, ConfigDir!Idle
<1>3. /\ DirectoryOK' /\ SurvivorsAreWhole' /\ Remains
      /\ configFiles'.calls = <<>> /\ configFiles'.outcome = "none"
      /\ configFiles'.dir = configFiles.dir
  BY <1>1, NothingTouched DEF Durable
<1>4. NoCommand.kind = "none"
  BY DEF NoCommand
<1> QED BY <1>2, <1>3, <1>4 DEF CommandIsSaved, SavesValid, ConfigDir!Idle

LEMMA DurableSettingsSaved ==
  ASSUME Storing, SettingsSaved
  PROVE  Durable' /\ SettingsFollow
<1>1. /\ command.kind = "settings" /\ ConfigDir!Take("ok") /\ command' = NoCommand
      /\ promised' = IF command.written # command.updated
                       THEN [command.updated EXCEPT !.model = Any] ELSE command.updated
      /\ UNCHANGED <<promisedToken, credentials, running>>
  BY DEF SettingsSaved, LeavesModel, Refresh
<1>2. DirectoryOK' /\ SurvivorsAreWhole' /\ CommandIsSaved' /\ SavesValid' /\ Remains
  BY <1>1, ResultTaken DEF Storing
<1>3. PICK updated \in Config, written \in Config :
        updated = command.updated /\ written = command.written
  BY <1>1 DEF Storing, TypeOK, NoCommand
<1>4. ConfigIn(configFiles.dir) = written /\ configFiles.survivors = {configFiles.dir}
  BY <1>1, <1>3, Sequence
  DEF Storing, Durable, CommandIsSaved, Saving, InPlace, ConfigIn, ConfigDir!Take
<1>5. \A d \in configFiles'.survivors :
        ConfigIn(d)' = written /\ d \in configFiles.survivors
                               /\ CredentialsIn(d)' = CredentialsIn(d)
  BY <1>2, <1>4 DEF Remains
<1>6. written = updated \/ written = [updated EXCEPT !.model = written.model]
  BY <1>1, <1>3 DEF Storing, Durable, SavesValid, ConfigSaves, Save
<1>7. DOMAIN promised' = Fields /\ \A f \in Fields : promised'[f] \in {Any, written[f]}
  <2>1. CASE written = updated
    BY <1>1, <1>3, <2>1, Domains
  <2>2. CASE written # updated
    <3>1. promised' = [updated EXCEPT !.model = Any]
      BY <1>1, <1>3, <2>2
    <3>2. DOMAIN promised' = Fields
      BY <3>1, Domains
    <3>3. \A f \in Fields : promised'[f] = IF f = "model" THEN Any ELSE updated[f]
      BY <3>1, Domains
    <3>4. \A f \in Fields : f # "model" => written[f] = updated[f]
      BY <1>6, Domains
    <3> QED BY <3>2, <3>3, <3>4
  <2> QED BY <2>1, <2>2
<1>8. Promised'
  BY <1>1, <1>3, <1>5, <1>7, Domains DEF Storing, Durable, Promised, NoCommand
<1> QED BY RemainingFollow, <1>2, <1>8 DEF Durable

LEMMA DurableTokenSaved ==
  ASSUME Storing, TokenSaved
  PROVE  Durable' /\ SettingsFollow
<1>1. /\ command.kind = "token" /\ ConfigDir!Take("ok") /\ command' = NoCommand
      /\ promisedToken' = command.updated /\ credentials' = command.updated
      /\ UNCHANGED <<promised, running>>
  BY DEF TokenSaved, Refresh
<1>2. DirectoryOK' /\ SurvivorsAreWhole' /\ CommandIsSaved' /\ SavesValid' /\ Remains
  BY <1>1, ResultTaken DEF Storing
<1>3. PICK updated \in Credentials : updated = command.updated
  BY <1>1 DEF Storing, TypeOK, NoCommand
<1>4. CredentialsIn(configFiles.dir) = updated /\ configFiles.survivors = {configFiles.dir}
  BY <1>1, <1>3, Sequence
  DEF Storing, Durable, CommandIsSaved, Saving, InPlace, CredentialsIn, ConfigDir!Take
<1>5. \A d \in configFiles'.survivors :
        CredentialsIn(d)' = updated /\ d \in configFiles.survivors
                                    /\ ConfigIn(d)' = ConfigIn(d)
  BY <1>2, <1>4 DEF Remains
<1>6. Promised'
  BY <1>1, <1>3, <1>5, Domains DEF Storing, Durable, Promised, NoCommand
<1> QED BY RemainingFollow, <1>2, <1>6 DEF Durable

LEMMA DurableSaveFailed ==
  ASSUME Storing, SaveFailed
  PROVE  Durable' /\ SettingsFollow
<1>1. /\ ConfigDir!Take("failed") /\ command' = NoCommand
      /\ UNCHANGED <<promised, promisedToken, credentials, running>>
  BY DEF SaveFailed
<1>2. DirectoryOK' /\ SurvivorsAreWhole' /\ CommandIsSaved' /\ SavesValid' /\ Remains
  BY <1>1, ResultTaken DEF Storing, ConfigDir!Idle, ConfigDir!Take
<1>3. Promised'
  BY <1>1, <1>2 DEF Storing, Durable, Promised, NoCommand, Remains
<1> QED BY RemainingFollow, <1>2, <1>3 DEF Durable

(* The call that is made belongs to the save of the command.                 *)
LEMMA WhatIsCalled ==
  ASSUME Storing, ConfigDir!CallStep
  PROVE  \E file \in {"config", "credentials"}, contents \in Contents :
           /\ Saving(file, contents) /\ contents \in ContentsOf(file)
           /\ file = "config" => command.kind = "settings" /\ command.written = contents
           /\ file = "credentials" => command.kind = "token" /\ command.updated = contents
<1>1. configFiles.calls # <<>>
  BY DEF ConfigDir!CallStep, ConfigDir!Create, ConfigDir!Write, ConfigDir!Sync, ConfigDir!Rename,
         ConfigDir!Unlink, ConfigDir!SyncDir, ConfigDir!Fail, ConfigDir!Makes
<1>2. command.kind \in {"settings", "token"}
  BY <1>1 DEF Storing, Durable, CommandIsSaved, ConfigDir!Idle
<1>3. CASE command.kind = "settings"
  BY <1>3 DEF Storing, Durable, CommandIsSaved, TypeOK, ContentsOf, Contents, NoCommand
<1>4. CASE command.kind = "token"
  BY <1>4 DEF Storing, Durable, CommandIsSaved, TypeOK, ContentsOf, Contents, NoCommand
<1> QED BY <1>2, <1>3, <1>4

LEMMA DurableConfigCall ==
  ASSUME Storing, ConfigCall
  PROVE  Durable' /\ SettingsFollow
<1>1. /\ ConfigDir!CallStep
      /\ UNCHANGED <<promised, promisedToken, credentials, running, command>>
  BY DEF ConfigCall
<1>2. PICK file \in {"config", "credentials"}, contents \in Contents :
        /\ Saving(file, contents) /\ contents \in ContentsOf(file)
        /\ file = "config" => command.kind = "settings" /\ command.written = contents
        /\ file = "credentials" => command.kind = "token" /\ command.updated = contents
  BY <1>1, WhatIsCalled
<1>3. /\ DirectoryOK' /\ SurvivorsAreWhole' /\ Saving(file, contents)'
      /\ OldOrSaved(file, contents) /\ ConfigStays(file, contents)
  BY <1>1, <1>2, SaveMakesCall DEF Storing, Durable
<1>4. CommandIsSaved'
  BY <1>1, <1>2, <1>3 DEF CommandIsSaved
<1>5. Promised'
  <2>1. /\ \A f \in Fields : promised[f] \in {Any, ConfigOnDisk[f]}
        /\ \A p \in Providers : promisedToken[p] \in {Any, CredentialsOnDisk[p]}
    BY OnDisk DEF Storing, Durable, Promised
  <2>2. ASSUME NEW d \in configFiles'.survivors
        PROVE  /\ \A f \in Fields : promised[f] \in {Any, ConfigIn(d)'[f]}
               /\ \A p \in Providers : promisedToken[p] \in {Any, CredentialsIn(d)'[p]}
    BY <1>2, <1>3, <2>1 DEF OldOrSaved, Storing, Durable, Promised
  <2> QED BY <1>1, <2>2 DEF Storing, Durable, Promised
<1>6. SavesValid'
  <2>1. command.kind = "settings" => (Save(command.written, command.updated) \in ConfigSaves)'
    BY <1>1 DEF SavesValid, Storing, Durable, Save, ConfigSaves
  <2>2. command.kind = "settings" =>
          \/ Valid(command.updated)
          \/ /\ command.written = command.updated
             /\ \E d \in configFiles.survivors : ~Valid(ConfigIn(d))
    BY DEF SavesValid, Storing, Durable
  <2>3. command.kind = "settings" =>
          \/ Valid(command.updated)
          \/ /\ command.written = command.updated
             /\ \E d \in configFiles'.survivors : ~Valid(ConfigIn(d)')
    BY <1>2, <1>3, <2>2 DEF ConfigStays
  <2>4. command.kind = "settings" =>
          \/ Valid(command.updated)'
          \/ /\ (command.written = command.updated)'
             /\ \E d \in configFiles'.survivors : ~Valid(ConfigIn(d))'
    BY <1>1, <2>3 DEF Valid, ValidModel
  <2> QED BY <1>1, <2>1, <2>4 DEF SavesValid
<1>7. SettingsFollow
  <2>1. \E e \in configFiles.survivors : ConfigOnDisk = ConfigIn(e)
    BY OnDisk DEF Storing, Durable
  <2> QED BY <1>2, <1>3, <2>1 DEF OldOrSaved, SettingsFollow
<1> QED BY <1>7, <1>3, <1>4, <1>5, <1>6 DEF Durable

LEMMA CountingUp ==
  ASSUME NEW c \in Numbers, NEW d
  PROVE  /\ \A what \in {"operations", "stops"} : c[what] \in Nat
         /\ d = [c EXCEPT !["operations"] = @ + 1] =>
              d \in Numbers /\ d.operations = c.operations + 1
         /\ d = [c EXCEPT !.operations = @ + 1, !.edits = @ + 1] =>
              /\ d \in Numbers /\ d.operations = c.operations + 1
              /\ d.edits # c.edits
         /\ d = [c EXCEPT !["stops"] = @ + 1] =>
              d \in Numbers /\ d.operations = c.operations
<1>1. c = [operations |-> c.operations, edits |-> c.edits, stops |-> c.stops]
      /\ c.operations \in Nat /\ c.edits \in Nat /\ c.stops \in Nat
  BY DEF Numbers
<1>2. \A what \in {"operations", "stops"} : c[what] \in Nat
  BY <1>1
<1>3. ASSUME d = [c EXCEPT !["operations"] = @ + 1]
      PROVE  d \in Numbers /\ d.operations = c.operations + 1
  <2>1. d = [operations |-> c.operations + 1, edits |-> c.edits, stops |-> c.stops]
    BY <1>1, <1>3
  <2> QED BY <1>1, <2>1 DEF Numbers
<1>4. ASSUME d = [c EXCEPT !.operations = @ + 1, !.edits = @ + 1]
      PROVE  d \in Numbers /\ d.operations = c.operations + 1 /\ d.edits # c.edits
  <2>1. d = [operations |-> c.operations + 1, edits |-> c.edits + 1, stops |-> c.stops]
    BY <1>1, <1>4
  <2> QED BY <1>1, <2>1 DEF Numbers
<1>5. ASSUME d = [c EXCEPT !["stops"] = @ + 1]
      PROVE  d \in Numbers /\ d.operations = c.operations
  <2>1. d = [operations |-> c.operations, edits |-> c.edits, stops |-> c.stops + 1]
    BY <1>1, <1>5
  <2> QED BY <1>1, <2>1 DEF Numbers
<1> QED BY <1>2, <1>3, <1>4, <1>5

LEMMA DurableEdit ==
  ASSUME Storing, NEW c \in Edits, EditByHand(c)
  PROVE  Durable' /\ counts'.edits # counts.edits
<1>1. /\ ConfigDir!Idle /\ ConfigDir!Replaced("config", c) /\ promised' = c
      /\ UNCHANGED <<promisedToken, credentials, running, command>>
  BY DEF EditByHand
<1>2. command.kind \notin {"settings", "token"}
  BY <1>1, Sequence
  DEF Storing, Durable, CommandIsSaved, Saving, ConfigDir!Idle, CreateCall, WriteCall, SyncCall,
      RenameCall, ConfigDir!SyncDirectory
<1>3. c \in Config /\ configFiles.dir["temp"] = None
  BY <1>2, InputsAssumption DEF Storing, Durable, CommandIsSaved
<1>4. /\ DirectoryOK' /\ SurvivorsAreWhole' /\ ConfigDir!Idle'
      /\ configFiles'.dir["temp"] = None
      /\ \A d \in configFiles'.survivors :
           ConfigIn(d)' = c /\ CredentialsIn(d)' = CredentialsOnDisk
  BY <1>1, <1>3, Edited DEF Storing, Durable
<1>5. CommandIsSaved' /\ SavesValid'
  BY <1>1, <1>2, <1>4 DEF CommandIsSaved, SavesValid
<1>6. \A p \in Providers : promisedToken[p] \in {Any, CredentialsOnDisk[p]}
  BY OnDisk DEF Storing, Durable, Promised
<1>7. Promised'
  BY <1>1, <1>2, <1>3, <1>4, <1>6, Domains DEF Storing, Durable, Promised
<1>8. counts'.edits # counts.edits
  <2>1. counts' = [counts EXCEPT !.operations = @ + 1, !.edits = @ + 1]
    BY DEF EditByHand
  <2> QED BY <2>1, CountingUp DEF Storing, Counting
<1> QED BY <1>4, <1>5, <1>7, <1>8 DEF Durable

LEMMA DurableStop ==
  ASSUME Storing, ProcessKilled \/ MachineCrashes
  PROVE  Durable' /\ SettingsFollow
<1>1. /\ ConfigDir!Kill \/ ConfigDir!Crash
      /\ running' = FALSE /\ command' = NoCommand /\ UNCHANGED <<promised, promisedToken>>
  BY DEF ProcessKilled, MachineCrashes, Stopped
<1>2. /\ DirectoryOK' /\ SurvivorsAreWhole' /\ Remains
      /\ ConfigDir!Idle' /\ configFiles'.dir["temp"] = None
  <2>1. CASE ConfigDir!Kill
    BY <2>1, FunctionEnds DEF ConfigDir!Kill, ConfigDir!Idle, Storing, Durable
  <2>2. CASE ConfigDir!Crash
    BY <2>2, MachineStops DEF Storing, Durable
  <2> QED BY <1>1, <2>1, <2>2
<1>3. CommandIsSaved' /\ SavesValid'
  BY <1>1, <1>2 DEF CommandIsSaved, SavesValid, NoCommand
<1>4. Promised'
  BY <1>1, <1>2 DEF Storing, Durable, Promised, NoCommand, Remains
<1> QED BY RemainingFollow, <1>2, <1>3, <1>4 DEF Durable

LEMMA DurableStart ==
  ASSUME Storing, StartDaemon
  PROVE  Durable' /\ SettingsFollow
<1>1. /\ credentials' = CredentialsOnDisk
      /\ UNCHANGED <<configFiles, promised, promisedToken, command>>
  BY DEF StartDaemon, Refresh
<1>2. DirectoryOK' /\ SurvivorsAreWhole' /\ CommandIsSaved' /\ SavesValid'
  BY <1>1
  DEF Storing, Durable, DirectoryOK, SurvivorsAreWhole, Whole, CommandIsSaved, SavesValid,
      Saving, InPlace, ConfigIn, CredentialsIn, ConfigDir!Idle
<1>3. Promised'
  <2>1. \A p \in Providers : promisedToken[p] \in {Any, CredentialsOnDisk[p]}
    BY OnDisk DEF Storing, Durable, Promised
  <2> QED BY <1>1, <2>1 DEF Storing, Durable, Promised, ConfigIn, CredentialsIn
<1>4. SettingsFollow
  BY <1>1 DEF SettingsFollow, ConfigIn
<1> QED BY <1>4, <1>2, <1>3 DEF Durable

LEMMA DurableElsewhere ==
  ASSUME Storing, UNCHANGED <<settingsVars, running>>,
         \/ command' = command
         \/ /\ command.kind \notin {"settings", "token"}
            /\ command'.kind \notin {"settings", "token"}
  PROVE  Durable' /\ SettingsFollow
<1>1. UNCHANGED <<configFiles, promised, promisedToken, credentials>>
  BY DEF settingsVars
<1>2. DirectoryOK' /\ SurvivorsAreWhole' /\ CommandIsSaved' /\ SavesValid'
  BY <1>1
  DEF Storing, Durable, DirectoryOK, SurvivorsAreWhole, Whole, CommandIsSaved, SavesValid,
      Saving, InPlace, ConfigIn, CredentialsIn, ConfigDir!Idle
<1>3. Promised'
  BY <1>1 DEF Storing, Durable, Promised, ConfigIn, CredentialsIn
<1>4. SettingsFollow
  BY <1>1 DEF SettingsFollow, ConfigIn
<1> QED BY <1>4, <1>2, <1>3 DEF Durable
-----------------------------------------------------------------------------
(* The specification.                                                        *)
LEMMA Found ==
  ASSUME NEW c \in Config \cup {None},
         ConfigDir!FilesInit([config |-> c, credentials |-> None, temp |-> None])
  PROVE  /\ DirectoryOK /\ SurvivorsAreWhole /\ ConfigDir!Idle /\ configFiles.dir["temp"] = None
         /\ \A d \in configFiles.survivors :
              ConfigIn(d) = Given(c, DefaultConfig) /\ CredentialsIn(d) = NoCredentials
<1> DEFINE contents == [config |-> c, credentials |-> None, temp |-> None]
           place == CHOOSE f \in [Files -> ConfigInodes] : ConfigDir!IsInjective(f)
           dir == [n \in Files |-> IF contents[n] = None THEN None ELSE place[n]]
           data == [i \in ConfigInodes |->
                      IF \E n \in Files : dir[n] = i
                        THEN contents[CHOOSE n \in Files : dir[n] = i] ELSE Torn]
<1>1. place \in [Files -> ConfigInodes]
  BY FilesAssumption DEF ConfigDir!FilesFit, Files
<1>2. configFiles = [dir |-> dir, survivors |-> {dir}, data |-> data, disk |-> data,
                     calls |-> <<>>, outcome |-> "none"]
  BY DEF ConfigDir!FilesInit, Files
<1>3. /\ contents["config"] = c /\ contents["credentials"] = None /\ contents["temp"] = None
  OBVIOUS
<1> HIDE DEF contents, place
<1>4. /\ dir \in Directories /\ dir["temp"] = None /\ dir["credentials"] = None
      /\ dir["config"] = IF c = None THEN None ELSE place["config"]
  BY <1>1, <1>3 DEF Directories, Files
<1>5. None \notin ConfigInodes
  BY FilesAssumption DEF ConfigDir!FilesFit
<1>6. \A i \in ConfigInodes : \A n \in Files : dir[n] = i => n = "config" /\ c # None
  BY <1>3, <1>4, <1>5 DEF Files
<1>7. \A i \in ConfigInodes : data[i] = IF dir["config"] = i THEN c ELSE Torn
  <2>1. ASSUME NEW i \in ConfigInodes, dir["config"] = i
        PROVE  (CHOOSE n \in Files : dir[n] = i) = "config"
    BY <1>6, <2>1 DEF Files
  <2> HIDE DEF dir
  <2> QED BY <1>3, <1>6, <2>1 DEF Files
<1>8. data \in [ConfigInodes -> Contents]
  <2>1. \A i \in ConfigInodes : data[i] \in Contents
    BY <1>6, <1>7 DEF Contents, Files
  <2> HIDE DEF dir
  <2> QED BY <2>1
<1> HIDE DEF dir, data
<1>9. /\ configFiles.dir = dir /\ configFiles.survivors = {dir} /\ configFiles.data = data
      /\ configFiles.disk = data /\ configFiles.calls = <<>> /\ configFiles.outcome = "none"
  BY <1>2
<1>10. DirectoryOK
  BY <1>2, <1>4, <1>8, <1>9 DEF DirectoryOK
<1>11. ConfigIn(dir) = Given(c, DefaultConfig) /\ CredentialsIn(dir) = NoCredentials
  BY <1>1, <1>4, <1>5, <1>7, <1>9 DEF ConfigIn, CredentialsIn, Given, Files
<1>12. Given(c, DefaultConfig) \in Config
  BY Domains DEF Given
<1>13. Whole(dir)
  BY <1>4, <1>9, <1>11, <1>12, Domains DEF Whole
<1>14. ConfigDir!WithoutTemporary(dir) = dir
  BY <1>4, WithoutTemporaryOf
<1>15. SurvivorsAreWhole
  BY <1>9, <1>13, <1>14 DEF SurvivorsAreWhole
<1> QED BY <1>4, <1>9, <1>10, <1>11, <1>15 DEF ConfigDir!Idle

QueueEntry(dictations) ==
  [kind : {"append"}, of : 1 .. dictations, size : EntrySizes] \cup {[kind |-> "clear"]}

LEMMA OperationCounted ==
  ASSUME Counting, generation \in Nat,
         Counted("operations", MaxOperations), UNCHANGED <<activity, generation>>
  PROVE  Counting'
<1>1. /\ counts["operations"] < MaxOperations
      /\ counts' = [counts EXCEPT !["operations"] = @ + 1]
  BY DEF Counted
<1>2. counts' \in Numbers /\ counts'.operations = counts.operations + 1
  BY <1>1, CountingUp DEF Counting
<1>3. counts.operations \in Nat
  BY DEF Counting, Numbers
<1>4. counts.operations < MaxOperations /\ MaxOperations \in Nat
  BY <1>1, BoundsAssumption
<1> QED BY <1>2, <1>3, <1>4 DEF Counting

LEMMA StoringInit == Init => Storing
<1> SUFFICES ASSUME Init PROVE Storing
  OBVIOUS
<1>1. PICK c \in Config \cup {None} :
        /\ ConfigDir!FilesInit([config |-> c, credentials |-> None, temp |-> None])
        /\ promised = Given(c, DefaultConfig)
  BY InputsAssumption DEF Init
<1>2. /\ DirectoryOK /\ SurvivorsAreWhole /\ ConfigDir!Idle /\ configFiles.dir["temp"] = None
      /\ \A d \in configFiles.survivors :
           ConfigIn(d) = promised /\ CredentialsIn(d) = NoCredentials
  BY <1>1, Found
<1>3. promised \in Config /\ promisedToken \in Credentials /\ promisedToken = NoCredentials
  BY <1>1, Domains DEF Given, Init
<1>4. command.kind = "none" /\ ~running
  BY DEF Init, NoCommand
<1>5. CommandIsSaved /\ SavesValid
  BY <1>2, <1>4 DEF CommandIsSaved, SavesValid
<1>6. Promised
  BY <1>2, <1>3, <1>4, Domains DEF Promised
<1>7. counts \in Numbers /\ counts.operations = 0
  BY DEF Init, Numbers
<1>8. Counting
  BY <1>7, BoundsAssumption DEF Init, Counting, Numbers
<1>9. queue = <<>> /\ queue \in Seq(QueueEntry(generation))
  BY DEF Init
<1>10. TypeOK
  <2>1. /\ generation \in 0 .. MaxOperations /\ logging \in BOOLEAN
        /\ lastEntry \in 0 .. generation
    <3>1. generation = 0 /\ lastEntry = 0
      BY DEF Init
    <3>2. logging \in BOOLEAN
      BY DEF Init
    <3> QED BY <3>1, <3>2, BoundsAssumption
  <2>2. /\ running \in BOOLEAN /\ config \in Config /\ credentials \in Credentials
        /\ settings = Snapshot(config, credentials) /\ command = NoCommand
        /\ activity = "none"
    BY Domains DEF Init
  <2> QED BY <1>9, <2>1, <2>2 DEF TypeOK, QueueEntry
<1>11. ClearAwaited
  BY <1>9 DEF ClearAwaited
<1> QED BY <1>2, <1>5, <1>6, <1>8, <1>10, <1>11 DEF Storing, Durable

(* The types of the rest of the state.                                       *)
LEMMA QueueEntries ==
  /\ \A g \in Nat : QueueEntry(g) \subseteq QueueEntry(g + 1)
  /\ \A g \in Nat : Seq(QueueEntry(g)) \subseteq Seq(QueueEntry(g + 1))
<1>1. \A g \in Nat : QueueEntry(g) \subseteq QueueEntry(g + 1)
  BY DEF QueueEntry
<1>2. \A S, T : S \subseteq T => Seq(S) \subseteq Seq(T)
  OBVIOUS
<1> QED BY <1>1, <1>2

LEMMA TypesNext ==
  ASSUME Storing, Next
  PROVE  TypeOK' /\ Counting'
<1> USE DEF QueueEntry
<1>0. TypeOK /\ Counting /\ generation \in Nat /\ MaxOperations \in Nat
      /\ queue \in Seq(QueueEntry(generation))
  BY BoundsAssumption DEF Storing, TypeOK
<1> HIDE DEF QueueEntry
<1>1. CASE \E change \in Changes : UpdateSettings(change.enabled, change.provider, change.model)
  <2>1. Counting' /\ UNCHANGED <<config, credentials, settings, logVars, dictationVars, running>>
    BY <1>0, <1>1, OperationCounted DEF UpdateSettings, BeginSave, dictationVars
  <2>2. /\ command'.kind = "settings"
        /\ command'.updated \in Config /\ command'.written \in Config
    BY <1>1, InputsAssumption, DurableSettings
  <2> QED BY <1>0, <2>1, <2>2 DEF TypeOK, logVars, dictationVars
<1>2. CASE \E enabled \in BOOLEAN : UpdateDebug(enabled)
  <2>1. Counting' /\ UNCHANGED <<config, credentials, settings, logVars, dictationVars, running>>
    BY <1>0, <1>2, OperationCounted DEF UpdateDebug, BeginSave, dictationVars
  <2>2. /\ command'.kind = "settings"
        /\ command'.updated \in Config /\ command'.written \in Config
    BY <1>2, DurableDebug
  <2> QED BY <1>0, <2>1, <2>2 DEF TypeOK, logVars, dictationVars
<1>3. CASE \E provider \in Providers, token \in Tokens \cup {None} : UpdateToken(provider, token)
  <2>1. Counting' /\ UNCHANGED <<config, credentials, settings, logVars, dictationVars, running>>
    BY <1>0, <1>3, OperationCounted DEF UpdateToken, BeginSave, dictationVars
  <2>2. command'.kind = "token" /\ command'.updated \in Credentials
    BY <1>3, DurableToken
  <2> QED BY <1>0, <2>1, <2>2 DEF TypeOK, logVars, dictationVars
<1>4. CASE SettingsSaved
  <2>1. command.updated \in Config
    BY <1>0, <1>4 DEF SettingsSaved, TypeOK, NoCommand
  <2> QED BY <1>0, <1>4, <2>1
    DEF SettingsSaved, Refresh, TypeOK, Counting, logVars, dictationVars
<1>5. CASE TokenSaved
  <2>1. command.updated \in Credentials
    BY <1>0, <1>5 DEF TokenSaved, TypeOK, NoCommand
  <2> QED BY <1>0, <1>5, <2>1
    DEF TokenSaved, Refresh, TypeOK, Counting, logVars, dictationVars
<1>6. CASE SaveFailed \/ ConfigCall \/ \E c \in Edits : EditByHand(c)
  <2>1. /\ UNCHANGED <<config, credentials, settings, logVars, dictationVars, running>>
        /\ command' \in {command, NoCommand}
        /\ \/ counts' = counts
           \/ /\ counts' = [counts EXCEPT !.operations = @ + 1, !.edits = @ + 1]
              /\ counts.operations < MaxOperations
    BY <1>6 DEF SaveFailed, ConfigCall, EditByHand
  <2>2. counts' \in Numbers /\ counts'.operations \in counts.operations .. MaxOperations
    <3>1. counts \in Numbers /\ counts.operations \in Nat
      BY <1>0 DEF Counting, Numbers
    <3>2. \/ counts' = counts
          \/ /\ counts' \in Numbers /\ counts'.operations = counts.operations + 1
             /\ counts.operations < MaxOperations
      BY <2>1, <3>1, CountingUp
    <3>3. MaxOperations \in Nat /\ counts.operations <= MaxOperations
      BY <1>0 DEF Counting
    <3> QED BY <3>1, <3>2, <3>3
  <2>3. Counting'
    BY <1>0, <2>1, <2>2 DEF Counting, dictationVars, Numbers
  <2> QED BY <1>0, <2>1, <2>3 DEF TypeOK, logVars, dictationVars, NoCommand
<1>7. CASE StartRecording
  <2>1. /\ generation' = generation + 1 /\ generation < MaxOperations
        /\ activity' = "recording" /\ UNCHANGED <<settingsVars, logVars, logging, running, command>>
        /\ counts' \in Numbers /\ counts'.operations = counts.operations + 1
        /\ counts.operations < MaxOperations
    <3>1. /\ generation' = generation + 1
          /\ activity' = "recording"
          /\ UNCHANGED <<settingsVars, logVars, logging, running, command>>
          /\ counts["operations"] < MaxOperations
          /\ counts' = [counts EXCEPT !["operations"] = @ + 1]
      BY <1>7 DEF StartRecording, Counted
    <3>2. counts' \in Numbers /\ counts'.operations = counts.operations + 1
      BY <1>0, <3>1, CountingUp DEF Counting
    <3>3. counts.operations \in Nat /\ generation <= counts.operations
      BY <1>0 DEF Counting, Numbers
    <3> QED BY <1>0, <3>1, <3>2, <3>3
  <2>2. Counting'
    BY <1>0, <2>1 DEF Counting, Numbers
  <2>3. queue' \in Seq(QueueEntry(generation'))
    BY <1>0, <2>1, QueueEntries DEF logVars
  <2> QED BY <1>0, <2>1, <2>2, <2>3 DEF TypeOK, logVars, settingsVars, QueueEntry
<1>8. CASE FinalizeRecording \/ Cancel \/ CancellationFinished \/ Completed
  <2>1. /\ UNCHANGED <<settingsVars, queue, generation, running, command, counts>>
        /\ activity' \in {"none", "pipeline", "canceling"}
        /\ logging' \in {logging, config.debug} /\ lastEntry' \in {lastEntry, generation}
        /\ activity # "none"
    <3>1. CASE FinalizeRecording
      BY <3>1 DEF FinalizeRecording, logVars
    <3>2. CASE Cancel
      BY <3>2 DEF Cancel, logVars
    <3>3. CASE CancellationFinished
      BY <3>3 DEF CancellationFinished, logVars
    <3>4. CASE Completed
      BY <3>4 DEF Completed
    <3> QED BY <1>8, <3>1, <3>2, <3>3, <3>4
  <2>2. config.debug \in BOOLEAN
    BY <1>0 DEF TypeOK, Config
  <2>3. Counting'
    BY <1>0, <2>1 DEF Counting
  <2>4. lastEntry' \in 0 .. generation
    BY <1>0, <2>1 DEF TypeOK
  <2> QED BY <1>0, <2>1, <2>2, <2>3, <2>4 DEF TypeOK, settingsVars
<1>9. CASE \E size \in EntrySizes : Persist(size)
  <2>1. PICK size \in EntrySizes :
          /\ queue' = Append(queue, [kind |-> "append", of |-> generation, size |-> size])
          /\ activity' = "persisting"
          /\ UNCHANGED <<settingsVars, lastEntry, generation, logging, running, command, counts>>
    BY <1>9 DEF Persist
  <2>2. generation # 0
    BY <1>0, <1>9 DEF Persist, Counting
  <2>3. queue' \in Seq(QueueEntry(generation'))
    <3>1. [kind |-> "append", of |-> generation, size |-> size] \in QueueEntry(generation)
      BY <1>0, <2>2 DEF QueueEntry
    <3> QED BY <1>0, <2>1, <3>1
  <2>4. Counting'
    BY <1>0, <2>1, <2>2 DEF Counting
  <2> QED BY <1>0, <2>1, <2>3, <2>4 DEF TypeOK, settingsVars, QueueEntry
<1>10. CASE ClearDebug
  <2>1. /\ queue' = Append(queue, [kind |-> "clear"]) /\ command' = [kind |-> "clear"]
        /\ UNCHANGED <<settingsVars, lastEntry, dictationVars, running>>
        /\ Counting'
    BY <1>0, <1>10, OperationCounted DEF ClearDebug, dictationVars
  <2>2. queue' \in Seq(QueueEntry(generation'))
    <3>1. [kind |-> "clear"] \in QueueEntry(generation)
      BY DEF QueueEntry
    <3> QED BY <1>0, <2>1, <3>1 DEF dictationVars
  <2> QED BY <1>0, <2>1, <2>2 DEF TypeOK, settingsVars, dictationVars, QueueEntry
<1>11. CASE Appended \/ DebugCleared \/ ClearFailed
  <2>1. /\ queue # <<>> /\ queue' = Tail(queue) /\ lastEntry' \in {lastEntry, 0}
        /\ command' \in {command, NoCommand}
        /\ \/ activity' = activity
           \/ activity' = "written" /\ activity = "persisting"
        /\ UNCHANGED <<settingsVars, generation, logging, running, counts>>
    BY <1>11 DEF Appended, DebugCleared, ClearFailed, dictationVars
  <2>2. queue' \in Seq(QueueEntry(generation'))
    BY <1>0, <2>1
  <2>3. Counting'
    BY <1>0, <2>1 DEF Counting
  <2> QED BY <1>0, <2>1, <2>2, <2>3 DEF TypeOK, settingsVars, QueueEntry
<1>12. CASE QueueTakes \/ LogCall
  BY <1>0, <1>12 DEF QueueTakes, LogCall, TypeOK, Counting, settingsVars, dictationVars
<1>13. CASE ProcessKilled \/ MachineCrashes
  <2>1. /\ running' = FALSE /\ config' = DefaultConfig /\ credentials' = NoCredentials
        /\ settings' = Snapshot(DefaultConfig, NoCredentials)
        /\ command' = NoCommand /\ activity' = "none" /\ logging' = FALSE
        /\ lastEntry' = 0 /\ queue' = <<>> /\ UNCHANGED generation
        /\ counts' = [counts EXCEPT !["stops"] = @ + 1]
    BY <1>13 DEF ProcessKilled, MachineCrashes, Stopped, Counted
  <2>2. Counting'
    BY <1>0, <2>1, CountingUp DEF Counting
  <2>3. queue' \in Seq(QueueEntry(generation'))
    BY <2>1
  <2>4. generation' \in 0 .. MaxOperations /\ lastEntry' \in 0 .. generation'
    BY <1>0, <2>1 DEF TypeOK
  <2>5. running' \in BOOLEAN /\ config' \in Config /\ credentials' \in Credentials
    BY <2>1, Domains
  <2>6. settings' = Snapshot(config', credentials')
    BY <2>1
  <2> QED BY <2>1, <2>2, <2>3, <2>4, <2>5, <2>6 DEF TypeOK, QueueEntry
<1>14. CASE StartDaemon
  <2>1. ConfigOnDisk \in Config /\ CredentialsOnDisk \in Credentials
    BY OnDisk DEF Storing, Durable
  <2> QED BY <1>0, <1>14, <2>1
    DEF StartDaemon, Refresh, TypeOK, Counting, logVars, dictationVars
<1> QED
  BY <1>1, <1>2, <1>3, <1>4, <1>5, <1>6, <1>7, <1>8, <1>9, <1>10, <1>11, <1>12, <1>13, <1>14
  DEF Next

LEMMA ClearAwaitedNext ==
  ASSUME Storing, Next
  PROVE  ClearAwaited'
<1> USE DEF ClearAwaited
<1>0. ClearAwaited /\ TypeOK /\ CommandIsSaved /\ queue \in Seq(QueueEntry(generation))
  BY DEF Storing, TypeOK, Durable, QueueEntry
<1>1. CASE UNCHANGED <<queue, command>>
  BY <1>0, <1>1
<1>2. CASE UNCHANGED queue /\ command.kind # "clear"
  BY <1>0, <1>2
<1>3. CASE Idle /\ UNCHANGED queue
  BY <1>2, <1>3 DEF Idle, NoCommand
<1>4. CASE \E size \in EntrySizes : Persist(size)
  <2>1. PICK size \in EntrySizes :
          /\ queue' = Append(queue, [kind |-> "append", of |-> generation, size |-> size])
          /\ command' = command
    BY <1>4 DEF Persist
  <2> QED BY <1>0, <2>1
<1>5. CASE ClearDebug
  <2>1. /\ queue' = Append(queue, [kind |-> "clear"]) /\ command' = [kind |-> "clear"]
        /\ command.kind = "none"
    BY <1>5 DEF ClearDebug, Ready, Idle, NoCommand
  <2>2. \A i \in DOMAIN queue : queue[i].kind # "clear"
    BY <1>0, <2>1
  <2> QED BY <1>0, <2>1, <2>2
<1>6. CASE Appended
  <2>1. queue # <<>> /\ queue' = Tail(queue) /\ command' = command
    BY <1>6 DEF Appended
  <2>2. \A i \in DOMAIN queue' : i + 1 \in DOMAIN queue /\ queue'[i] = queue[i + 1]
    BY <1>0, <2>1
  <2>3. DOMAIN queue \subseteq Nat /\ DOMAIN queue' \subseteq Nat
    BY <1>0, <2>1
  <2> QED BY <1>0, <2>1, <2>2, <2>3
<1>7. CASE DebugCleared \/ ClearFailed
  <2>1. queue # <<>> /\ queue' = Tail(queue) /\ Head(queue).kind = "clear"
    BY <1>7 DEF DebugCleared, ClearFailed
  <2>2. \A i \in DOMAIN queue' :
          i + 1 \in DOMAIN queue /\ i + 1 # 1 /\ queue'[i] = queue[i + 1]
    BY <1>0, <2>1
  <2>3. 1 \in DOMAIN queue /\ queue[1].kind = "clear"
    BY <1>0, <2>1
  <2> QED BY <1>0, <2>2, <2>3
<1>8. CASE ProcessKilled \/ MachineCrashes
  BY <1>8 DEF ProcessKilled, MachineCrashes, Stopped
<1>9. CASE SettingsSaved \/ TokenSaved \/ SaveFailed
  <2>1. UNCHANGED queue
    BY <1>9 DEF SettingsSaved, TokenSaved, SaveFailed, logVars
  <2>2. command.kind \in {"settings", "token"}
    BY <1>0, <1>9
    DEF SettingsSaved, TokenSaved, SaveFailed, CommandIsSaved, ConfigDir!Idle, ConfigDir!Take
  <2> QED BY <1>2, <2>1, <2>2
<1>10. CASE \/ \E change \in Changes :
                UpdateSettings(change.enabled, change.provider, change.model)
            \/ \E enabled \in BOOLEAN : UpdateDebug(enabled)
            \/ \E provider \in Providers, token \in Tokens \cup {None} :
                 UpdateToken(provider, token)
  BY <1>3, <1>10 DEF UpdateSettings, UpdateDebug, UpdateToken, BeginSave, Ready, logVars
<1>11. CASE \/ ConfigCall \/ QueueTakes \/ LogCall \/ StartRecording \/ FinalizeRecording
            \/ Completed \/ Cancel \/ CancellationFinished \/ StartDaemon
            \/ \E c \in Edits : EditByHand(c)
  BY <1>1, <1>11
  DEF ConfigCall, QueueTakes, LogCall, StartRecording, FinalizeRecording, Completed, Cancel,
      CancellationFinished, StartDaemon, EditByHand, logVars
<1> QED
  BY <1>4, <1>5, <1>6, <1>7, <1>8, <1>9, <1>10, <1>11 DEF Next

(* The actor waits for a clear, and for nothing else, when one is answered.  *)
LEMMA ClearIsNoSave ==
  ASSUME Storing, ClearDebug \/ DebugCleared \/ ClearFailed
  PROVE  command.kind \notin {"settings", "token"} /\ command'.kind \notin {"settings", "token"}
<1>1. CASE ClearDebug
  BY <1>1 DEF ClearDebug, Ready, Idle, NoCommand
<1>2. CASE DebugCleared \/ ClearFailed
  <2>1. queue # <<>> /\ Head(queue).kind = "clear" /\ command' = NoCommand
    BY <1>2 DEF DebugCleared, ClearFailed
  <2>2. 1 \in DOMAIN queue /\ queue[1].kind = "clear"
    BY <2>1 DEF Storing, TypeOK
  <2> QED BY <2>1, <2>2 DEF Storing, ClearAwaited, NoCommand
<1> QED BY <1>1, <1>2

LEMMA StoringNext ==
  ASSUME Storing, [Next]_vars
  PROVE  Storing' /\ (SettingsFollow \/ counts'.edits # counts.edits)
<1>1. CASE Next
  <2>1. TypeOK' /\ Counting' /\ ClearAwaited'
    BY <1>1, TypesNext, ClearAwaitedNext
  <2>2. CASE \E change \in Changes :
               UpdateSettings(change.enabled, change.provider, change.model)
    BY <2>1, <2>2, InputsAssumption, DurableSettings DEF Storing
  <2>3. CASE \/ \E enabled \in BOOLEAN : UpdateDebug(enabled)
             \/ \E provider \in Providers, token \in Tokens \cup {None} :
                  UpdateToken(provider, token)
    BY <2>1, <2>3, DurableDebug, DurableToken DEF Storing
  <2>4. CASE SettingsSaved \/ TokenSaved \/ SaveFailed \/ ConfigCall
    BY <2>1, <2>4, DurableSettingsSaved, DurableTokenSaved, DurableSaveFailed, DurableConfigCall
    DEF Storing
  <2>5. CASE \E c \in Edits : EditByHand(c)
    BY <2>1, <2>5, DurableEdit DEF Storing
  <2>6. CASE ProcessKilled \/ MachineCrashes \/ StartDaemon
    BY <2>1, <2>6, DurableStop, DurableStart DEF Storing
  <2>7. CASE \/ StartRecording \/ FinalizeRecording \/ Completed \/ Cancel
             \/ CancellationFinished \/ QueueTakes \/ LogCall \/ Appended
             \/ \E size \in EntrySizes : Persist(size)
    <3>1. UNCHANGED <<settingsVars, running>> /\ command' = command
      BY <2>7
      DEF StartRecording, FinalizeRecording, Completed, Cancel, CancellationFinished,
          QueueTakes, LogCall, Appended, Persist
    <3> QED BY <2>1, <3>1, DurableElsewhere DEF Storing
  <2>8. CASE ClearDebug \/ DebugCleared \/ ClearFailed
    <3>1. UNCHANGED <<settingsVars, running>>
      BY <2>8 DEF ClearDebug, DebugCleared, ClearFailed
    <3>2. command.kind \notin {"settings", "token"} /\ command'.kind \notin {"settings", "token"}
      BY <2>8, ClearIsNoSave
    <3> QED BY <2>1, <3>1, <3>2, DurableElsewhere DEF Storing
  <2> QED BY <1>1, <2>2, <2>3, <2>4, <2>5, <2>6, <2>7, <2>8 DEF Next
<1>2. CASE UNCHANGED vars
  <2>1. UNCHANGED <<settingsVars, running>> /\ command' = command
    BY <1>2 DEF vars
  <2>2. TypeOK' /\ Counting' /\ ClearAwaited'
    BY <1>2
    DEF vars, settingsVars, logVars, dictationVars, Storing, TypeOK, Counting, ClearAwaited
  <2> QED BY <2>1, <2>2, DurableElsewhere DEF Storing
<1> QED BY <1>1, <1>2

LEMMA StoringInvariant == Spec => []Storing
<1>1. Init => Storing
  BY StoringInit
<1>2. Storing /\ [Next]_vars => Storing'
  BY StoringNext
<1> QED BY <1>1, <1>2, PTL DEF Spec

(* Whatever the providers, tokens and settings: the daemon, its commands and *)
(* its queue have the types the actions assume.                              *)
THEOREM StorageIsTyped == Spec => []TypeOK
<1>1. Storing => TypeOK
  BY DEF Storing
<1> QED BY <1>1, StoringInvariant, PTL

(* A setting or a token that was acknowledged, or edited by hand, is what a  *)
(* crash at any moment leaves until a later command changes it, and no crash *)
(* leaves a file that is not whole.  The model is not promised where a       *)
(* change of the provider leaves the other provider's behind in an inline    *)
(* table (atomic_write, update_settings, save_post_processing,               *)
(* update_token).                                                            *)
THEOREM PromisesSurvive == Spec => []PromisesKept
<1>1. Storing => PromisesKept
  <2> SUFFICES ASSUME Storing PROVE PromisesKept
    OBVIOUS
  <2>1. DirectoryOK /\ SurvivorsAreWhole /\ Promised
    BY DEF Storing, Durable
  <2>2. \A d \in configFiles.survivors :
          ConfigIn(d) \in Config /\ CredentialsIn(d) \in Credentials
    BY <2>1 DEF SurvivorsAreWhole, Whole
  <2>3. \A c \in ConfigDir!AfterCrash("config", DefaultConfig) :
          c # Torn /\ \A f \in DOMAIN promised : promised[f] \in {Any, c[f]}
    BY <2>1, <2>2, AfterCrashes, TornAssumption DEF Promised
  <2>4. \A c \in ConfigDir!AfterCrash("credentials", NoCredentials) :
          c # Torn /\ \A p \in Providers : promisedToken[p] \in {Any, c[p]}
    BY <2>1, <2>2, AfterCrashes, TornAssumption DEF Promised
  <2> QED BY <2>3, <2>4 DEF PromisesKept
<1> QED BY <1>1, StoringInvariant, PTL

(* The settings the daemon can be started with, through whatever crash.      *)
LEMMA StartableSettings ==
  ASSUME Storing
  PROVE  Startable <=> \A d \in configFiles.survivors : Valid(ConfigIn(d))
<1>1. DirectoryOK /\ SurvivorsAreWhole
  BY DEF Storing, Durable
<1>2. \A d \in configFiles.survivors :
        ConfigIn(d) \in Config /\ CredentialsIn(d) \in Credentials
  BY <1>1 DEF SurvivorsAreWhole, Whole
<1>3. Torn \notin {CredentialsIn(d) : d \in configFiles.survivors}
      /\ \A d \in configFiles.survivors : ConfigIn(d) # Torn
  BY <1>2, TornAssumption
<1> QED BY <1>1, <1>3, AfterCrashes DEF Startable

(* No command, failure or crash turns settings the daemon starts with into   *)
(* settings it refuses: only an edit by hand can, and a change of the        *)
(* provider that leaves the other provider's model behind in an inline table *)
(* (apply_settings, save_post_processing, load_daemon_config).               *)
THEOREM SettingsStayStartable == Spec => StaysStartable
<1>1. (Storing => (Startable <=> \A d \in configFiles.survivors : Valid(ConfigIn(d))))'
  BY StartableSettings, PTL
<1>2. ASSUME Storing, [Next]_vars, Startable, counts'.edits = counts.edits, ~LeavesModel
      PROVE  Startable'
  <2>1. Storing' /\ SettingsFollow
    BY <1>2, StoringNext
  <2>2. \A d \in configFiles.survivors : Valid(ConfigIn(d))
    BY <1>2, StartableSettings
  <2>3. command.kind = "settings" => Valid(command.written)
    BY <1>2, <2>2 DEF Storing, Durable, SavesValid, LeavesModel
  <2>4. \A d \in configFiles'.survivors : Valid(ConfigIn(d)')
    BY <2>1, <2>2, <2>3 DEF SettingsFollow
  <2>5. \A d \in configFiles'.survivors : Valid(ConfigIn(d))'
    BY <2>4 DEF Valid, ValidModel
  <2> QED BY <1>1, <2>1, <2>5
<1>3. Storing /\ [Next]_vars
        => [Startable => Startable' \/ counts'.edits # counts.edits \/ LeavesModel]_vars
  BY <1>2
<1> QED BY <1>3, StoringInvariant, PTL DEF Spec, StaysStartable
-----------------------------------------------------------------------------
(* The two files as registers.                                               *)
ConfigsPossible == {ConfigIn(d) : d \in configFiles.survivors}
TokensPossible == {CredentialsIn(d) : d \in configFiles.survivors}
Reads == <<ConfigOnDisk, CredentialsOnDisk>>

(* What a step of the directory does to what a reader finds, now and after a *)
(* crash: nothing, ...                                                       *)
FilesKept == UNCHANGED <<Reads, ConfigsPossible, TokensPossible>>

(* ... nothing but that what is found now lasts, ...                         *)
FilesSynced ==
  /\ UNCHANGED Reads
  /\ ConfigsPossible' = {ConfigOnDisk} /\ TokensPossible' = {CredentialsOnDisk}

(* ... or it puts new contents in the place of one file.                     *)
FileReplaced(file, contents) ==
  \/ /\ file = "config"
     /\ ConfigOnDisk' = contents /\ ConfigsPossible' = ConfigsPossible \cup {contents}
     /\ UNCHANGED <<CredentialsOnDisk, TokensPossible>>
  \/ /\ file = "credentials"
     /\ CredentialsOnDisk' = contents /\ TokensPossible' = TokensPossible \cup {contents}
     /\ UNCHANGED <<ConfigOnDisk, ConfigsPossible>>

LEMMA ReadingNow ==
  /\ ConfigOnDisk = ConfigIn(configFiles.dir)
  /\ CredentialsOnDisk = CredentialsIn(configFiles.dir)
  BY DEF ConfigIn, CredentialsIn, ConfigOnDisk, CredentialsOnDisk, ConfigDir!Read,
         ConfigDir!Exists, ConfigDir!Contents

LEMMA ReadingThen ==
  ASSUME NEW d, d = configFiles'.dir
  PROVE  ConfigOnDisk' = ConfigIn(d)' /\ CredentialsOnDisk' = CredentialsIn(d)'
  BY DEF ConfigIn, CredentialsIn, ConfigOnDisk, CredentialsOnDisk, ConfigDir!Read,
         ConfigDir!Exists, ConfigDir!Contents

LEMMA ReadingIsPossible ==
  ASSUME DirectoryOK, SurvivorsAreWhole
  PROVE  ConfigOnDisk \in ConfigsPossible /\ CredentialsOnDisk \in TokensPossible
  BY OnDisk DEF ConfigsPossible, TokensPossible

(* The files that are found keep their names and their contents.             *)
LEMMA SameNames ==
  ASSUME DirectoryOK, SurvivorsAreWhole, Remains,
         \A n \in {"config", "credentials"} : configFiles'.dir[n] = configFiles.dir[n],
         ConfigDir!WithoutTemporary(configFiles.dir) \in configFiles'.survivors
  PROVE  UNCHANGED Reads
<1>1. PICK d : d = ConfigDir!WithoutTemporary(configFiles.dir)
  OBVIOUS
<1>2. PICK e : e = configFiles'.dir
  OBVIOUS
<1>3. \A n \in {"config", "credentials"} : d[n] = configFiles.dir[n] /\ d[n] = e[n]
  BY <1>1, <1>2, WithoutTemporaryOf DEF DirectoryOK
<1>4. ConfigIn(d)' = ConfigIn(d) /\ CredentialsIn(d)' = CredentialsIn(d)
  BY <1>1 DEF Remains
<1>5. ConfigIn(d) = ConfigOnDisk /\ CredentialsIn(d) = CredentialsOnDisk
  BY <1>3, ReadingNow DEF ConfigIn, CredentialsIn
<1>6. ConfigOnDisk' = ConfigIn(e)' /\ CredentialsOnDisk' = CredentialsIn(e)'
  BY <1>2, ReadingThen
<1>7. ConfigIn(e)' = ConfigIn(d)' /\ CredentialsIn(e)' = CredentialsIn(d)'
  BY <1>3 DEF ConfigIn, CredentialsIn
<1> QED BY <1>4, <1>5, <1>6, <1>7 DEF Reads

LEMMA SameDirectories ==
  ASSUME DirectoryOK, SurvivorsAreWhole, Remains,
         \A n \in {"config", "credentials"} : configFiles'.dir[n] = configFiles.dir[n],
         configFiles'.survivors = configFiles.survivors
  PROVE  FilesKept
<1>1. UNCHANGED Reads
  BY SameNames DEF SurvivorsAreWhole
<1>2. \A d \in configFiles'.survivors :
        ConfigIn(d)' = ConfigIn(d) /\ CredentialsIn(d)' = CredentialsIn(d)
  BY DEF Remains
<1>3. ConfigsPossible' = ConfigsPossible
  BY <1>2 DEF ConfigsPossible
<1>4. TokensPossible' = TokensPossible
  BY <1>2 DEF TokensPossible
<1> QED BY <1>1, <1>3, <1>4 DEF FilesKept

LEMMA CallsOnFiles ==
  ASSUME DirectoryOK, SurvivorsAreWhole, NEW file \in {"config", "credentials"},
         NEW contents \in ContentsOf(file), Saving(file, contents), ConfigDir!CallStep
  PROVE  FilesKept \/ FilesSynced \/ FileReplaced(file, contents)
<1>1. CASE ConfigDir!Create
  BY <1>1, TemporaryCreated, SameDirectories
<1>2. CASE ConfigDir!Write
  <2>1. contents \in Contents
    BY DEF ContentsOf, Contents
  <2> QED BY <1>2, <2>1, TemporaryWritten, SameDirectories
<1>3. CASE ConfigDir!Sync
  BY <1>3, TemporarySynced, SameDirectories
<1>4. CASE ConfigDir!Rename
  <2>1. /\ configFiles.survivors \subseteq configFiles'.survivors
        /\ configFiles'.data = configFiles.data
        /\ configFiles'.survivors = configFiles.survivors \cup {configFiles'.dir}
        /\ file = "config" =>
             ConfigOnDisk' = contents /\ CredentialsOnDisk' = CredentialsOnDisk
        /\ file = "credentials" =>
             CredentialsOnDisk' = contents /\ ConfigOnDisk' = ConfigOnDisk
    BY <1>4, FileRenamed
  <2>2. PICK e : /\ e = configFiles'.dir
                 /\ ConfigIn(e)' = ConfigOnDisk' /\ CredentialsIn(e)' = CredentialsOnDisk'
    BY ReadingThen
  <2>3. \A d : ConfigIn(d)' = ConfigIn(d) /\ CredentialsIn(d)' = CredentialsIn(d)
    BY <2>1 DEF ConfigIn, CredentialsIn
  <2>4. ConfigsPossible' = ConfigsPossible \cup {ConfigOnDisk'}
    <3>1. ConfigsPossible' = {ConfigIn(d)' : d \in configFiles'.survivors}
      BY DEF ConfigsPossible
    <3> QED BY <2>1, <2>2, <2>3, <3>1 DEF ConfigsPossible
  <2>5. TokensPossible' = TokensPossible \cup {CredentialsOnDisk'}
    <3>1. TokensPossible' = {CredentialsIn(d)' : d \in configFiles'.survivors}
      BY DEF TokensPossible
    <3> QED BY <2>1, <2>2, <2>3, <3>1 DEF TokensPossible
  <2>6. ConfigOnDisk \in ConfigsPossible /\ CredentialsOnDisk \in TokensPossible
    BY ReadingIsPossible
  <2> QED BY <2>1, <2>4, <2>5, <2>6 DEF FileReplaced
<1>5. CASE ConfigDir!SyncDir
  <2>1. /\ Remains /\ configFiles'.survivors = {configFiles.dir}
        /\ configFiles'.dir = configFiles.dir /\ InPlace(file, contents)
    BY <1>5, DirectorySynced
  <2>2. ConfigDir!WithoutTemporary(configFiles.dir) = configFiles.dir
    BY <2>1, WithoutTemporaryOf DEF InPlace, DirectoryOK
  <2>3. UNCHANGED Reads
    BY <2>1, <2>2, SameNames
  <2>4. PICK d : /\ d = configFiles.dir
                 /\ ConfigIn(d)' = ConfigOnDisk /\ CredentialsIn(d)' = CredentialsOnDisk
    BY <2>1, ReadingNow DEF Remains
  <2>5. ConfigsPossible' = {ConfigOnDisk} /\ TokensPossible' = {CredentialsOnDisk}
    BY <2>1, <2>4 DEF ConfigsPossible, TokensPossible
  <2> QED BY <2>3, <2>5 DEF FilesSynced
<1>6. CASE ConfigDir!Fail
  <2>1. \A n \in {"config", "credentials"} :
          ConfigDir!WithoutTemporary(configFiles.dir)[n] = configFiles.dir[n]
    BY WithoutTemporaryOf DEF DirectoryOK
  <2> QED BY <1>6, <2>1, FunctionEnds, SameDirectories DEF ConfigDir!Fail
<1>7. ~ConfigDir!Unlink
  BY Sequence, CallFields
  DEF Saving, ConfigDir!Unlink, ConfigDir!Makes, CreateCall, WriteCall, SyncCall, RenameCall,
      ConfigDir!SyncDirectory
<1> QED BY <1>1, <1>2, <1>3, <1>4, <1>5, <1>6, <1>7 DEF ConfigDir!CallStep

(* A crash leaves what it could leave, and nothing else is possible then.    *)
LEMMA CrashOnFiles ==
  ASSUME DirectoryOK, SurvivorsAreWhole, ConfigDir!Crash
  PROVE  /\ ConfigOnDisk' \in ConfigsPossible /\ ConfigsPossible' = {ConfigOnDisk'}
         /\ CredentialsOnDisk' \in TokensPossible /\ TokensPossible' = {CredentialsOnDisk'}
<1>1. PICK d : /\ d = configFiles'.dir /\ d \in configFiles.survivors
               /\ configFiles'.survivors = {d} /\ Remains
  BY MachineStops
<1>2. ConfigOnDisk' = ConfigIn(d)' /\ CredentialsOnDisk' = CredentialsIn(d)'
  BY <1>1, ReadingThen
<1>3. ConfigIn(d)' = ConfigIn(d) /\ CredentialsIn(d)' = CredentialsIn(d)
  BY <1>1 DEF Remains
<1>4. ConfigsPossible' = {ConfigIn(d)'} /\ TokensPossible' = {CredentialsIn(d)'}
  BY <1>1 DEF ConfigsPossible, TokensPossible
<1> QED BY <1>1, <1>2, <1>3, <1>4 DEF ConfigsPossible, TokensPossible

LEMMA EndOnFiles ==
  ASSUME DirectoryOK, SurvivorsAreWhole, ConfigDir!Kill
  PROVE  FilesKept
<1>1. \A n \in {"config", "credentials"} :
        ConfigDir!WithoutTemporary(configFiles.dir)[n] = configFiles.dir[n]
  BY WithoutTemporaryOf DEF DirectoryOK
<1> QED BY <1>1, FunctionEnds, SameDirectories DEF ConfigDir!Kill

LEMMA EditOnFiles ==
  ASSUME DirectoryOK, SurvivorsAreWhole, NEW c \in Config, ConfigDir!Idle,
         configFiles.dir["temp"] = None, ConfigDir!Replaced("config", c)
  PROVE  /\ ConfigOnDisk' = c /\ ConfigsPossible' = {c}
         /\ UNCHANGED CredentialsOnDisk /\ TokensPossible' = {CredentialsOnDisk}
<1>1. /\ DirectoryOK' /\ SurvivorsAreWhole'
      /\ \A d \in configFiles'.survivors :
           ConfigIn(d)' = c /\ CredentialsIn(d)' = CredentialsOnDisk
  BY Edited
<1>2. (\E d \in configFiles.survivors :
         ConfigIn(d) = ConfigOnDisk /\ CredentialsIn(d) = CredentialsOnDisk)'
  BY <1>1, OnDisk, PTL
<1>3. PICK d \in configFiles'.survivors :
        ConfigIn(d)' = ConfigOnDisk' /\ CredentialsIn(d)' = CredentialsOnDisk'
  BY <1>2
<1>4. ConfigsPossible' = {c}
  BY <1>1, <1>3 DEF ConfigsPossible
<1>5. TokensPossible' = {CredentialsOnDisk}
  BY <1>1, <1>3 DEF TokensPossible
<1> QED BY <1>1, <1>3, <1>4, <1>5

LEMMA TakenOnFiles ==
  ASSUME DirectoryOK, SurvivorsAreWhole, NEW calls, NEW outcome,
         configFiles' = [configFiles EXCEPT !.calls = calls, !.outcome = outcome]
  PROVE  FilesKept
  BY NothingTouched, SameDirectories

LEMMA UntouchedFiles ==
  ASSUME UNCHANGED configFiles
  PROVE  FilesKept
<1>1. \A d : ConfigIn(d)' = ConfigIn(d) /\ CredentialsIn(d)' = CredentialsIn(d)
  BY DEF ConfigIn, CredentialsIn
<1>2. ConfigsPossible' = ConfigsPossible /\ TokensPossible' = TokensPossible
  BY <1>1 DEF ConfigsPossible, TokensPossible
<1>3. UNCHANGED Reads
  BY DEF Reads, ConfigOnDisk, CredentialsOnDisk, ConfigDir!Read, ConfigDir!Exists,
     ConfigDir!Contents
<1> QED BY <1>2, <1>3 DEF FilesKept

(* A daemon that does not run has nothing in memory and nothing to do.       *)
Stillness ==
  ~running => command = NoCommand /\ config = DefaultConfig /\ credentials = NoCredentials

LEMMA StillnessInvariant == Spec => []Stillness
<1>1. Init => Stillness
  BY DEF Init, Stillness
<1>2. Stillness /\ [Next]_vars => Stillness'
  <2> SUFFICES ASSUME Stillness, [Next]_vars PROVE Stillness'
    OBVIOUS
  <2>1. CASE ProcessKilled \/ MachineCrashes
    BY <2>1 DEF ProcessKilled, MachineCrashes, Stopped, Stillness
  <2>2. CASE StartDaemon
    BY <2>2 DEF StartDaemon, Stillness
  <2>3. CASE \/ \E change \in Changes :
                  UpdateSettings(change.enabled, change.provider, change.model)
             \/ \E enabled \in BOOLEAN : UpdateDebug(enabled)
             \/ \E provider \in Providers, token \in Tokens \cup {None} :
                  UpdateToken(provider, token)
             \/ ClearDebug
    <3>1. running
      BY <2>3 DEF UpdateSettings, UpdateDebug, UpdateToken, ClearDebug, Ready, Idle
    <3>2. UNCHANGED running
      <4>1. CASE \E change \in Changes :
                   UpdateSettings(change.enabled, change.provider, change.model)
        BY <4>1 DEF UpdateSettings, BeginSave
      <4>2. CASE \E enabled \in BOOLEAN : UpdateDebug(enabled)
        BY <4>2 DEF UpdateDebug, BeginSave
      <4>3. CASE \E provider \in Providers, token \in Tokens \cup {None} :
                   UpdateToken(provider, token)
        BY <4>3 DEF UpdateToken, BeginSave
      <4>4. CASE ClearDebug
        BY <4>4 DEF ClearDebug
      <4> QED BY <2>3, <4>1, <4>2, <4>3, <4>4
    <3> QED BY <3>1, <3>2 DEF Stillness
  <2>4. CASE SettingsSaved \/ TokenSaved
    BY <2>4 DEF SettingsSaved, TokenSaved, NoCommand, Stillness
  <2>5. CASE SaveFailed \/ DebugCleared \/ ClearFailed
    BY <2>5 DEF SaveFailed, DebugCleared, ClearFailed, settingsVars, Stillness
  <2>6. CASE \/ ConfigCall \/ \E c \in Edits : EditByHand(c)
             \/ StartRecording \/ FinalizeRecording \/ Completed \/ Cancel
             \/ CancellationFinished \/ QueueTakes \/ LogCall \/ Appended
             \/ \E size \in EntrySizes : Persist(size)
             \/ UNCHANGED vars
    <3>1. UNCHANGED <<running, command, config, credentials>>
      BY <2>6
      DEF ConfigCall, EditByHand, StartRecording, FinalizeRecording, Completed, Cancel,
          CancellationFinished, QueueTakes, LogCall, Appended, Persist, settingsVars, vars
    <3> QED BY <3>1 DEF Stillness
  <2> QED BY <2>1, <2>2, <2>3, <2>4, <2>5, <2>6 DEF Next
<1> QED BY <1>1, <1>2, PTL DEF Spec

ConfigSaving ==
  IF command.kind = "settings" THEN {Save(command.written, command.updated)} ELSE {}
TokenSaving ==
  IF command.kind = "token" THEN {Save(command.updated, command.updated)} ELSE {}
ConfigStep == [ConfigFile!Next]_ConfigFile!vars
TokenStep == [TokenFile!Next]_TokenFile!vars

LEMMA WhatIsPossible ==
  ASSUME Storing, Storing'
  PROVE  /\ ConfigDir!AfterCrash("config", DefaultConfig) = ConfigsPossible
         /\ ConfigDir!AfterCrash("config", DefaultConfig)' = ConfigsPossible'
         /\ ConfigDir!AfterCrash("credentials", NoCredentials) = TokensPossible
         /\ ConfigDir!AfterCrash("credentials", NoCredentials)' = TokensPossible'
<1>1. DirectoryOK /\ SurvivorsAreWhole /\ DirectoryOK' /\ SurvivorsAreWhole'
  BY DEF Storing, Durable
<1>2. (DirectoryOK /\ SurvivorsAreWhole =>
         /\ ConfigDir!AfterCrash("config", DefaultConfig)
              = {ConfigIn(d) : d \in configFiles.survivors}
         /\ ConfigDir!AfterCrash("credentials", NoCredentials)
              = {CredentialsIn(d) : d \in configFiles.survivors})'
  BY AfterCrashes, PTL
<1> QED BY <1>1, <1>2, AfterCrashes DEF ConfigsPossible, TokensPossible

LEMMA SaveHas ==
  \A f, m : Save(f, m).file = f /\ Save(f, m).memory = m
  BY DEF Save

(* A step that leaves a register alone.                                      *)
LEMMA ConfigRests ==
  ASSUME Storing, Storing', UNCHANGED <<ConfigOnDisk, ConfigsPossible, ConfigSaving, config>>
  PROVE  ConfigStep
  BY WhatIsPossible DEF ConfigStep, ConfigSaving, ConfigFile!vars

LEMMA TokensRest ==
  ASSUME Storing, Storing',
         UNCHANGED <<CredentialsOnDisk, TokensPossible, TokenSaving, credentials>>
  PROVE  TokenStep
  BY WhatIsPossible DEF TokenStep, TokenSaving, TokenFile!vars

LEMMA ConfigSyncs ==
  ASSUME Storing, Storing', UNCHANGED <<ConfigOnDisk, ConfigSaving, config>>,
         ConfigsPossible' = {ConfigOnDisk}
  PROVE  ConfigStep
  BY WhatIsPossible DEF ConfigStep, ConfigSaving, ConfigFile!Next, ConfigFile!Sync

LEMMA TokensSync ==
  ASSUME Storing, Storing', UNCHANGED <<CredentialsOnDisk, TokenSaving, credentials>>,
         TokensPossible' = {CredentialsOnDisk}
  PROVE  TokenStep
  BY WhatIsPossible DEF TokenStep, TokenSaving, TokenFile!Next, TokenFile!Sync

(* A save begins.                                                            *)
LEMMA RegistersBegin ==
  ASSUME Storing, Storing', command = NoCommand, UNCHANGED <<config, credentials>>, FilesKept,
         command'.kind \in {"settings", "token"}
  PROVE  ConfigStep /\ TokenStep
<1>1. command.kind = "none"
  BY DEF NoCommand
<1>2. /\ command'.kind = "settings" => Save(command.written, command.updated)' \in ConfigSaves
      /\ command'.kind = "token" => Save(command.updated, command.updated)' \in TokenSaves
  BY DEF Storing, Durable, SavesValid, TypeOK, NoCommand, TokenSaves, Save
<1>3. CASE command'.kind = "settings"
  <2>1. ConfigStep
    BY <1>1, <1>2, <1>3, WhatIsPossible
    DEF ConfigStep, ConfigFile!Next, ConfigFile!Begin, FilesKept, Reads
  <2>2. TokenStep
    BY <1>1, <1>3, TokensRest DEF TokenSaving, FilesKept, Reads
  <2> QED BY <2>1, <2>2
<1>4. CASE command'.kind = "token"
  <2>1. TokenStep
    BY <1>1, <1>2, <1>4, WhatIsPossible
    DEF TokenStep, TokenFile!Next, TokenFile!Begin, FilesKept, Reads
  <2>2. ConfigStep
    BY <1>1, <1>4, ConfigRests DEF ConfigSaving, FilesKept, Reads
  <2> QED BY <2>1, <2>2
<1> QED BY <1>3, <1>4

LEMMA RegistersCall ==
  ASSUME Storing, Storing', ConfigCall
  PROVE  ConfigStep /\ TokenStep
<1>1. ConfigDir!CallStep /\ UNCHANGED <<config, credentials, command>>
  BY DEF ConfigCall
<1>2. UNCHANGED <<ConfigSaving, TokenSaving>>
  BY <1>1 DEF ConfigSaving, TokenSaving
<1>3. PICK file \in {"config", "credentials"}, contents \in Contents :
        /\ Saving(file, contents) /\ contents \in ContentsOf(file)
        /\ file = "config" => command.kind = "settings" /\ command.written = contents
        /\ file = "credentials" => command.kind = "token" /\ command.updated = contents
  BY <1>1, WhatIsCalled
<1>4. CASE FilesKept
  BY <1>1, <1>2, <1>4, ConfigRests, TokensRest DEF FilesKept, Reads
<1>5. CASE FilesSynced
  BY <1>1, <1>2, <1>5, ConfigSyncs, TokensSync DEF FilesSynced, Reads
<1>6. CASE file = "config" /\ FileReplaced(file, contents)
  <2>1. /\ ConfigOnDisk' = contents /\ ConfigsPossible' = ConfigsPossible \cup {contents}
        /\ UNCHANGED <<CredentialsOnDisk, TokensPossible>>
    BY <1>6 DEF FileReplaced
  <2>2. ConfigStep
    BY <1>1, <1>3, <1>6, <2>1, WhatIsPossible, SaveHas
    DEF ConfigStep, ConfigFile!Next, ConfigFile!Replace
  <2> QED BY <1>1, <1>2, <2>1, <2>2, TokensRest
<1>7. CASE file = "credentials" /\ FileReplaced(file, contents)
  <2>1. /\ CredentialsOnDisk' = contents /\ TokensPossible' = TokensPossible \cup {contents}
        /\ UNCHANGED <<ConfigOnDisk, ConfigsPossible>>
    BY <1>7 DEF FileReplaced
  <2>2. TokenStep
    BY <1>1, <1>3, <1>7, <2>1, WhatIsPossible, SaveHas
    DEF TokenStep, TokenFile!Next, TokenFile!Replace
  <2> QED BY <1>1, <1>2, <2>1, <2>2, ConfigRests
<1>8. FilesKept \/ FilesSynced \/ FileReplaced(file, contents)
  BY <1>1, <1>3, CallsOnFiles DEF Storing, Durable
<1> QED BY <1>4, <1>5, <1>6, <1>7, <1>8

(* The actor takes the result of a save.                                     *)
LEMMA ResultOnFiles ==
  ASSUME Storing, NEW result, ConfigDir!Take(result)
  PROVE  FilesKept
<1>1. configFiles.calls = <<>> /\ configFiles' = [configFiles EXCEPT !.outcome = "none"]
  BY DEF ConfigDir!Take
<1>2. configFiles' = [configFiles EXCEPT !.calls = <<>>, !.outcome = "none"]
  BY <1>1 DEF Storing, Durable, DirectoryOK
<1> QED BY <1>2, TakenOnFiles DEF Storing, Durable

LEMMA RegistersAcknowledgeSettings ==
  ASSUME Storing, Storing', SettingsSaved
  PROVE  ConfigStep /\ TokenStep
<1>1. /\ command.kind = "settings" /\ ConfigDir!Take("ok") /\ command' = NoCommand
      /\ config' = command.updated /\ UNCHANGED credentials
  BY DEF SettingsSaved, Refresh
<1>2. command'.kind = "none"
  BY <1>1 DEF NoCommand
<1>3. FilesKept
  BY <1>1, ResultOnFiles
<1>4. configFiles.survivors = {configFiles.dir} /\ InPlace("config", command.written)
  BY <1>1, Sequence DEF Storing, Durable, CommandIsSaved, Saving, ConfigDir!Take
<1>5. ConfigIn(configFiles.dir) = command.written
  BY <1>4 DEF InPlace, ConfigIn
<1>6. ConfigOnDisk = command.written /\ ConfigsPossible = {command.written}
  BY <1>4, <1>5, ReadingNow DEF ConfigsPossible
<1>7. ConfigStep
  BY <1>1, <1>2, <1>3, <1>6, WhatIsPossible, SaveHas
  DEF ConfigStep, ConfigFile!Next, ConfigFile!Acknowledge, FilesKept, Reads
<1>8. TokenStep
  BY <1>1, <1>2, <1>3, TokensRest DEF TokenSaving, FilesKept, Reads
<1> QED BY <1>7, <1>8

LEMMA RegistersAcknowledgeToken ==
  ASSUME Storing, Storing', TokenSaved
  PROVE  ConfigStep /\ TokenStep
<1>1. /\ command.kind = "token" /\ ConfigDir!Take("ok") /\ command' = NoCommand
      /\ credentials' = command.updated /\ UNCHANGED config
  BY DEF TokenSaved, Refresh
<1>2. command'.kind = "none"
  BY <1>1 DEF NoCommand
<1>3. FilesKept
  BY <1>1, ResultOnFiles
<1>4. configFiles.survivors = {configFiles.dir} /\ InPlace("credentials", command.updated)
  BY <1>1, Sequence DEF Storing, Durable, CommandIsSaved, Saving, ConfigDir!Take
<1>5. CredentialsIn(configFiles.dir) = command.updated
  BY <1>4 DEF InPlace, CredentialsIn
<1>6. CredentialsOnDisk = command.updated /\ TokensPossible = {command.updated}
  BY <1>4, <1>5, ReadingNow DEF TokensPossible
<1>7. TokenStep
  BY <1>1, <1>2, <1>3, <1>6, WhatIsPossible, SaveHas
  DEF TokenStep, TokenFile!Next, TokenFile!Acknowledge, FilesKept, Reads
<1>8. ConfigStep
  BY <1>1, <1>2, <1>3, ConfigRests DEF ConfigSaving, FilesKept, Reads
<1> QED BY <1>7, <1>8

LEMMA RegistersGiveUp ==
  ASSUME Storing, Storing', SaveFailed
  PROVE  ConfigStep /\ TokenStep
<1>1. /\ FilesKept /\ command' = NoCommand /\ UNCHANGED <<config, credentials>>
  BY ResultOnFiles DEF SaveFailed
<1>2. command'.kind = "none"
  BY <1>1 DEF NoCommand
<1>3. CASE command.kind = "settings"
  <2>1. ConfigStep
    BY <1>1, <1>2, <1>3, WhatIsPossible
    DEF ConfigStep, ConfigFile!Next, ConfigFile!GiveUp, FilesKept, Reads
  <2>2. TokenStep
    BY <1>1, <1>2, <1>3, TokensRest DEF TokenSaving, FilesKept, Reads
  <2> QED BY <2>1, <2>2
<1>4. CASE command.kind = "token"
  <2>1. TokenStep
    BY <1>1, <1>2, <1>4, WhatIsPossible
    DEF TokenStep, TokenFile!Next, TokenFile!GiveUp, FilesKept, Reads
  <2>2. ConfigStep
    BY <1>1, <1>2, <1>4, ConfigRests DEF ConfigSaving, FilesKept, Reads
  <2> QED BY <2>1, <2>2
<1>5. CASE command.kind \notin {"settings", "token"}
  BY <1>1, <1>2, <1>5, ConfigRests, TokensRest DEF ConfigSaving, TokenSaving, FilesKept, Reads
<1> QED BY <1>3, <1>4, <1>5

LEMMA RegistersEdit ==
  ASSUME Storing, Storing', NEW c \in Edits, EditByHand(c)
  PROVE  ConfigStep /\ TokenStep
<1>1. /\ ConfigDir!Idle /\ ConfigDir!Replaced("config", c)
      /\ UNCHANGED <<config, credentials, command>>
  BY DEF EditByHand
<1>2. command.kind \notin {"settings", "token"}
  BY <1>1, Sequence
  DEF Storing, Durable, CommandIsSaved, Saving, ConfigDir!Idle, CreateCall, WriteCall, SyncCall,
      RenameCall, ConfigDir!SyncDirectory
<1>3. c \in Config /\ configFiles.dir["temp"] = None
  BY <1>2, InputsAssumption DEF Storing, Durable, CommandIsSaved
<1>4. /\ ConfigOnDisk' = c /\ ConfigsPossible' = {c}
      /\ UNCHANGED CredentialsOnDisk /\ TokensPossible' = {CredentialsOnDisk}
  BY <1>1, <1>3, EditOnFiles DEF Storing, Durable
<1>5. ConfigStep
  BY <1>1, <1>2, <1>4, WhatIsPossible DEF ConfigStep, ConfigFile!Next, ConfigFile!Edit
<1>6. TokenStep
  BY <1>1, <1>4, TokensSync DEF TokenSaving
<1> QED BY <1>5, <1>6

LEMMA RegistersStop ==
  ASSUME Storing, Storing', ProcessKilled \/ MachineCrashes
  PROVE  ConfigStep /\ TokenStep
<1>1. /\ config' = DefaultConfig /\ credentials' = NoCredentials /\ command' = NoCommand
      /\ ConfigDir!Kill \/ ConfigDir!Crash
  BY DEF ProcessKilled, MachineCrashes, Stopped
<1>2. command'.kind = "none"
  BY <1>1 DEF NoCommand
<1>3. CASE ConfigDir!Kill
  <2>1. FilesKept
    BY <1>3, EndOnFiles DEF Storing, Durable
  <2>2. ConfigStep
    BY <1>1, <1>2, <2>1, WhatIsPossible
    DEF ConfigStep, ConfigFile!Next, ConfigFile!Kill, FilesKept, Reads
  <2>3. TokenStep
    BY <1>1, <1>2, <2>1, WhatIsPossible
    DEF TokenStep, TokenFile!Next, TokenFile!Kill, FilesKept, Reads
  <2> QED BY <2>2, <2>3
<1>4. CASE ConfigDir!Crash
  <2>1. /\ ConfigOnDisk' \in ConfigsPossible /\ ConfigsPossible' = {ConfigOnDisk'}
        /\ CredentialsOnDisk' \in TokensPossible /\ TokensPossible' = {CredentialsOnDisk'}
    BY <1>4, CrashOnFiles DEF Storing, Durable
  <2>2. ConfigStep
    BY <1>1, <1>2, <2>1, WhatIsPossible DEF ConfigStep, ConfigFile!Next, ConfigFile!Crash
  <2>3. TokenStep
    BY <1>1, <1>2, <2>1, WhatIsPossible DEF TokenStep, TokenFile!Next, TokenFile!Crash
  <2> QED BY <2>2, <2>3
<1> QED BY <1>1, <1>3, <1>4

LEMMA RegistersLoad ==
  ASSUME Storing, Storing', Stillness, StartDaemon
  PROVE  ConfigStep /\ TokenStep
<1>1. /\ config' = ConfigOnDisk /\ credentials' = CredentialsOnDisk
      /\ UNCHANGED <<configFiles, command>>
      /\ command = NoCommand /\ config = DefaultConfig /\ credentials = NoCredentials
  BY DEF StartDaemon, Refresh, Stillness
<1>2. command.kind = "none" /\ FilesKept
  BY <1>1, UntouchedFiles DEF NoCommand
<1>3. ConfigStep
  BY <1>1, <1>2, WhatIsPossible
  DEF ConfigStep, ConfigFile!Next, ConfigFile!Load, FilesKept, Reads
<1>4. TokenStep
  BY <1>1, <1>2, WhatIsPossible
  DEF TokenStep, TokenFile!Next, TokenFile!Load, FilesKept, Reads
<1> QED BY <1>3, <1>4

LEMMA RegistersRest ==
  ASSUME Storing, Storing', UNCHANGED settingsVars,
         \/ command' = command
         \/ /\ command.kind \notin {"settings", "token"}
            /\ command'.kind \notin {"settings", "token"}
  PROVE  ConfigStep /\ TokenStep
<1>1. FilesKept /\ UNCHANGED <<config, credentials>>
  BY UntouchedFiles DEF settingsVars
<1>2. UNCHANGED <<ConfigSaving, TokenSaving>>
  BY DEF ConfigSaving, TokenSaving
<1> QED BY <1>1, <1>2, ConfigRests, TokensRest DEF FilesKept, Reads

LEMMA RegistersNext ==
  ASSUME Storing, Storing', Stillness, [Next]_vars
  PROVE  ConfigStep /\ TokenStep
<1>1. CASE \/ \E change \in Changes :
                UpdateSettings(change.enabled, change.provider, change.model)
           \/ \E enabled \in BOOLEAN : UpdateDebug(enabled)
           \/ \E provider \in Providers, token \in Tokens \cup {None} :
                UpdateToken(provider, token)
  <2>1. PICK file, contents, update :
          /\ BeginSave(file, contents, update) /\ command = NoCommand
          /\ update.kind \in {"settings", "token"}
    <3>1. CASE \E change \in Changes :
                 UpdateSettings(change.enabled, change.provider, change.model)
      BY <3>1 DEF UpdateSettings, Ready, Idle
    <3>2. CASE \E enabled \in BOOLEAN : UpdateDebug(enabled)
      BY <3>2 DEF UpdateDebug, Ready, Idle
    <3>3. CASE \E provider \in Providers, token \in Tokens \cup {None} :
                 UpdateToken(provider, token)
      BY <3>3 DEF UpdateToken, Ready, Idle
    <3> QED BY <1>1, <3>1, <3>2, <3>3
  <2>2. command' = update /\ UNCHANGED <<config, credentials>>
    BY <2>1 DEF BeginSave
  <2>3. FilesKept
    <3> DEFINE calls == ConfigDir!AtomicWrite(file, contents)
               outcome == IF calls = <<>> THEN "ok" ELSE "none"
    <3>1. configFiles' = [configFiles EXCEPT !.calls = calls, !.outcome = outcome]
      BY <2>1 DEF BeginSave, ConfigDir!Begin, ConfigDir!Returning
    <3> HIDE DEF calls, outcome
    <3> QED BY <3>1, TakenOnFiles DEF Storing, Durable
  <2> QED BY <2>1, <2>2, <2>3, RegistersBegin
<1>2. CASE SettingsSaved \/ TokenSaved \/ SaveFailed \/ ConfigCall
  BY <1>2, RegistersAcknowledgeSettings, RegistersAcknowledgeToken, RegistersGiveUp, RegistersCall
<1>3. CASE \E c \in Edits : EditByHand(c)
  BY <1>3, RegistersEdit
<1>4. CASE ProcessKilled \/ MachineCrashes \/ StartDaemon
  BY <1>4, RegistersStop, RegistersLoad
<1>5. CASE \/ StartRecording \/ FinalizeRecording \/ Completed \/ Cancel
           \/ CancellationFinished \/ QueueTakes \/ LogCall \/ Appended
           \/ \E size \in EntrySizes : Persist(size)
           \/ UNCHANGED vars
  <2>1. UNCHANGED settingsVars /\ command' = command
    BY <1>5
    DEF StartRecording, FinalizeRecording, Completed, Cancel, CancellationFinished,
        QueueTakes, LogCall, Appended, Persist, vars
  <2> QED BY <2>1, RegistersRest
<1>6. CASE ClearDebug \/ DebugCleared \/ ClearFailed
  <2>1. UNCHANGED settingsVars
    BY <1>6 DEF ClearDebug, DebugCleared, ClearFailed
  <2>2. command.kind \notin {"settings", "token"} /\ command'.kind \notin {"settings", "token"}
    BY <1>6, ClearIsNoSave
  <2> QED BY <2>1, <2>2, RegistersRest
<1> QED BY <1>1, <1>2, <1>3, <1>4, <1>5, <1>6 DEF Next

(* The settings and the tokens behave like two registers of whole values,    *)
(* whatever the values, the edits, the failures and the crashes: readers     *)
(* have a save at one instant, success is reported only once no crash can    *)
(* undo it and only then the actor goes on with the value, and a save of one *)
(* file leaves the other as it was.  What the actor goes on with is what is  *)
(* in the file, but for a model that a change of the provider left behind in *)
(* an inline table (atomic_write, update_settings, save_post_processing,     *)
(* update_token, load_daemon_config).                                        *)
THEOREM FilesImplementRegisters == Spec => FilesAreRegisters
<1>1. Init => ConfigFile!Init /\ TokenFile!Init
  <2> SUFFICES ASSUME Init PROVE ConfigFile!Init /\ TokenFile!Init
    OBVIOUS
  <2>1. DirectoryOK /\ SurvivorsAreWhole
    BY StoringInit DEF Storing, Durable
  <2>2. PICK c \in Config \cup {None} :
          ConfigDir!FilesInit([config |-> c, credentials |-> None, temp |-> None])
    BY InputsAssumption DEF Init
  <2>3. \A d \in configFiles.survivors :
          ConfigIn(d) = Given(c, DefaultConfig) /\ CredentialsIn(d) = NoCredentials
    BY <2>2, Found
  <2>4. /\ ConfigOnDisk \in Config /\ CredentialsOnDisk \in Credentials
        /\ \E d \in configFiles.survivors :
             ConfigIn(d) = ConfigOnDisk /\ CredentialsIn(d) = CredentialsOnDisk
    BY <2>1, OnDisk
  <2>5. /\ ConfigDir!AfterCrash("config", DefaultConfig) = {ConfigOnDisk}
        /\ ConfigDir!AfterCrash("credentials", NoCredentials) = {CredentialsOnDisk}
    BY <2>1, <2>3, <2>4, AfterCrashes
  <2>6. /\ config = DefaultConfig /\ credentials = NoCredentials /\ command.kind = "none"
    BY DEF Init, NoCommand
  <2> QED BY <2>4, <2>5, <2>6 DEF ConfigFile!Init, TokenFile!Init
<1>2. Storing /\ Storing' /\ Stillness /\ [Next]_vars => ConfigStep /\ TokenStep
  BY RegistersNext
<1> QED
  BY <1>1, <1>2, StoringInvariant, StillnessInvariant, PTL
  DEF Spec, FilesAreRegisters, ConfigStep, TokenStep, ConfigFile!Spec, TokenFile!Spec
===============================================================================
