------------------------------- MODULE LogProofs -------------------------------
(***************************************************************************)
(* Theorems about the debug log of Storage: what a clear was acknowledged  *)
(* for stays gone, and no log grows beyond the limit.                      *)
(***************************************************************************)
EXTENDS StorageProofs

LogNames == {"log", "backup"}
LogDirectories == {d \in [LogNames \cup {"temp"} -> LogInodes \cup {None}] : d["temp"] = None}

(* A log without entries up to a dictation.                                  *)
Logs(upTo) == [size : Nat, of : SUBSET {g \in Nat : g > upTo}]
LogData == [LogInodes -> Logs(-1) \cup {Torn}]

(* A clear holds after a crash too if it is lasting.                         *)
LastingUpTo == IF cleared.lasting THEN cleared.upTo ELSE -1

StateDirectoryOK ==
  /\ stateFiles = [dir |-> stateFiles.dir, survivors |-> stateFiles.survivors,
                   data |-> stateFiles.data, disk |-> stateFiles.disk,
                   calls |-> stateFiles.calls, outcome |-> stateFiles.outcome]
  /\ stateFiles.dir \in stateFiles.survivors /\ stateFiles.survivors \subseteq LogDirectories
  /\ stateFiles.data \in LogData /\ stateFiles.disk \in LogData
  /\ stateFiles.outcome # "none" => stateFiles.calls = <<>>

(* No file holds an entry of a cleared dictation: none that a process finds, *)
(* and none that a crash may leave.                                          *)
FilesAreClear ==
  /\ \A n \in LogNames : stateFiles.dir[n] # None =>
       stateFiles.data[stateFiles.dir[n]] \in Logs(cleared.upTo)
  /\ \A d \in stateFiles.survivors, n \in LogNames : d[n] # None =>
       stateFiles.data[d[n]] \in Logs(LastingUpTo) /\ stateFiles.disk[d[n]] \in Logs(LastingUpTo)

(* Neither is one about to be written, nor a log that is too long.           *)
LogCalls(upTo) ==
  {StateDir!Call("create", "log", EmptyLog), StateDir!Call("rename", "log", "backup"),
   StateDir!SyncDirectory}
    \cup {StateDir!Call(call, n, Torn) : call \in {"sync", "unlink"}, n \in LogNames}
    \cup {StateDir!Call("write", n, log) : n \in LogNames,
                                           log \in {l \in Logs(upTo) : l.size <= LogLimit}}
CallsAreClear == stateFiles.calls \in Seq(LogCalls(cleared.upTo))

(* A log is cut before it becomes the backup.                                *)
LogSize == StateDir!Read("log", EmptyLog).size
CutBeforeRotation ==
  \A i \in DOMAIN stateFiles.calls : stateFiles.calls[i].call = "rename" =>
    \/ LogSize <= LogLimit
    \/ \E j \in DOMAIN stateFiles.calls :
         j < i /\ stateFiles.calls[j].call = "write" /\ stateFiles.calls[j].file = "log"

(* A clear under way has unlinked each log, or still has to.                 *)
ClearUnderWay ==
  queue # <<>> /\ Head(queue).kind = "clear" =>
    \/ StateDir!Idle
    \/ stateFiles.outcome = "failed"
    \/ /\ \A i \in DOMAIN stateFiles.calls : stateFiles.calls[i].call \in {"unlink", "syncdir"}
       /\ \A n \in LogNames : \/ stateFiles.dir[n] = None
                              \/ \E i \in DOMAIN stateFiles.calls :
                                   stateFiles.calls[i] = StateDir!Call("unlink", n, Torn)

LogFiles == /\ StateDirectoryOK /\ FilesAreClear /\ CallsAreClear /\ CutBeforeRotation
            /\ ClearUnderWay

(* Nothing is queued behind a clear, and nothing of a cleared dictation.     *)
QueueIsClear ==
  /\ queue = <<>> => StateDir!Idle
  /\ \A i \in DOMAIN queue : queue[i].kind = "append" => queue[i].of > cleared.upTo
  /\ \A i \in DOMAIN queue : queue[i].kind = "clear" => i = Len(queue)
  /\ command.kind = "clear" => activity = "none"

Clears == [upTo : Nat \cup {-1}, lasting : BOOLEAN]

DictationsAreClear ==
  /\ cleared \in Clears /\ cleared.upTo <= generation
  /\ lastEntry = 0 \/ lastEntry > cleared.upTo
  /\ activity # "none" => generation > cleared.upTo

Logging == LogFiles /\ QueueIsClear /\ DictationsAreClear

(* What a step may do to the sizes.                                          *)
SizesFollow ==
  \A n \in LogNames :
    \/ StateDir!Read(n, EmptyLog)'.size <= LogLimit
    \/ StateDir!Read(n, EmptyLog)' \in StateDir!AfterCrash(n, EmptyLog)
-----------------------------------------------------------------------------
(* Logs and calls.                                                           *)
LEMMA LogsOf ==
  /\ \A k : EmptyLog \in Logs(k) /\ EmptyLog.size = 0 /\ 0 <= LogLimit
  /\ \A k \in Nat \cup {-1}, m \in Nat \cup {-1} : m <= k => Logs(k) \subseteq Logs(m)
  /\ \A k \in Nat \cup {-1} : Logs(k) \subseteq Logs(-1)
<1>1. \A k \in Nat \cup {-1}, m \in Nat \cup {-1} : m <= k =>
        {g \in Nat : g > k} \subseteq {g \in Nat : g > m}
  OBVIOUS
<1>2. \A k \in Nat \cup {-1}, m \in Nat \cup {-1} : m <= k => Logs(k) \subseteq Logs(m)
  BY <1>1 DEF Logs
<1>3. \A k : EmptyLog \in Logs(k) /\ EmptyLog.size = 0 /\ 0 <= LogLimit
  BY LogAssumption DEF Logs, EmptyLog
<1>4. \A k \in Nat \cup {-1} : -1 <= k /\ -1 \in Nat \cup {-1}
  OBVIOUS
<1> QED BY <1>2, <1>3, <1>4

LEMMA LastingIsLess ==
  ASSUME DictationsAreClear
  PROVE  /\ cleared.upTo \in Nat \cup {-1} /\ LastingUpTo \in Nat \cup {-1}
         /\ Logs(cleared.upTo) \subseteq Logs(LastingUpTo)
         /\ Logs(LastingUpTo) \subseteq Logs(-1) /\ Logs(cleared.upTo) \subseteq Logs(-1)
<1>1. cleared.upTo \in Nat \cup {-1} /\ cleared.lasting \in BOOLEAN
  BY DEF DictationsAreClear, Clears
<1>2. LastingUpTo \in Nat \cup {-1} /\ LastingUpTo <= cleared.upTo
  BY <1>1 DEF LastingUpTo
<1> QED BY <1>1, <1>2, LogsOf

LEMMA CallForms ==
  ASSUME NEW upTo, NEW c \in LogCalls(upTo)
  PROVE  /\ c.call \in {"create", "rename", "syncdir", "sync", "unlink", "write"}
         /\ c.call = "create" => c.file = "log" /\ c.arg = EmptyLog
         /\ c.call = "rename" => c.file = "log" /\ c.arg = "backup"
         /\ c.call \in {"sync", "unlink", "write"} => c.file \in LogNames
         /\ c.call = "unlink" => c = StateDir!Call("unlink", c.file, Torn)
         /\ c.call = "write" => c.arg \in Logs(upTo) /\ c.arg.size <= LogLimit
<1> USE DEF StateDir!Call
<1>1. CASE c \in {StateDir!Call("create", "log", EmptyLog), StateDir!Call("rename", "log", "backup"),
                  StateDir!SyncDirectory}
  BY <1>1 DEF StateDir!SyncDirectory
<1>2. CASE c \in {StateDir!Call(call, n, Torn) : call \in {"sync", "unlink"}, n \in LogNames}
  BY <1>2
<1>3. CASE c \in {StateDir!Call("write", n, log) : n \in LogNames,
                                      log \in {l \in Logs(upTo) : l.size <= LogLimit}}
  BY <1>3
<1> QED BY <1>1, <1>2, <1>3 DEF LogCalls
-----------------------------------------------------------------------------
(* The directory.                                                            *)
IsDirectory(f) ==
  /\ f = [dir |-> f.dir, survivors |-> f.survivors, data |-> f.data, disk |-> f.disk,
          calls |-> f.calls, outcome |-> f.outcome]
  /\ f.dir \in f.survivors /\ f.survivors \subseteq LogDirectories
  /\ f.data \in LogData /\ f.disk \in LogData

(* Forgetting the files without a name changes nothing that can be found.    *)
LEMMA LogsCollected ==
  ASSUME NEW f, IsDirectory(f)
  PROVE  LET g == StateDir!Collected(f)
         IN /\ IsDirectory(g) /\ g.dir = f.dir /\ g.survivors = f.survivors
            /\ g.calls = f.calls /\ g.outcome = f.outcome
            /\ \A d \in f.survivors : \A n \in LogNames : d[n] \in LogInodes =>
                 g.data[d[n]] = f.data[d[n]] /\ g.disk[d[n]] = f.disk[d[n]]
<1> DEFINE Named(i) == \E d \in f.survivors \cup {f.dir} : \E n \in LogNames \cup {"temp"} : d[n] = i
           data == [i \in LogInodes |-> IF Named(i) THEN f.data[i] ELSE Torn]
           disk == [i \in LogInodes |-> IF Named(i) THEN f.disk[i] ELSE Torn]
           g == StateDir!Collected(f)
<1>1. g = [f EXCEPT !.data = data, !.disk = disk]
  <2>1. LogNames \cup {"temp"} = {"log", "backup", "temp"}
    BY DEF LogNames
  <2> QED BY <2>1 DEF StateDir!Collected
<1>2. data \in LogData /\ disk \in LogData
  BY DEF LogData, IsDirectory
<1>3. \A d \in f.survivors : \A n \in LogNames : d[n] \in LogInodes =>
        data[d[n]] = f.data[d[n]] /\ disk[d[n]] = f.disk[d[n]]
  OBVIOUS
<1> HIDE DEF data, disk, g
<1>4. g = [dir |-> f.dir, survivors |-> f.survivors, data |-> data, disk |-> disk,
           calls |-> f.calls, outcome |-> f.outcome]
  BY <1>1 DEF IsDirectory
<1>5. /\ g.dir = f.dir /\ g.survivors = f.survivors /\ g.data = data /\ g.disk = disk
      /\ g.calls = f.calls /\ g.outcome = f.outcome
  BY <1>4
<1> QED BY <1>2, <1>3, <1>4, <1>5 DEF g, IsDirectory

(* What is to be shown of a step on the files.                               *)
LEMMA LogsFollow ==
  ASSUME NEW f, IsDirectory(f), f.outcome # "none" => f.calls = <<>>,
         stateFiles' = f \/ stateFiles' = StateDir!Collected(f),
         \A n \in LogNames : f.dir[n] # None => f.data[f.dir[n]] \in Logs(cleared'.upTo),
         \A d \in f.survivors, n \in LogNames : d[n] # None =>
           f.data[d[n]] \in Logs(LastingUpTo') /\ f.disk[d[n]] \in Logs(LastingUpTo')
  PROVE  /\ StateDirectoryOK' /\ FilesAreClear'
         /\ stateFiles'.calls = f.calls /\ stateFiles'.outcome = f.outcome
         /\ stateFiles'.dir = f.dir /\ stateFiles'.survivors = f.survivors
         /\ \A n \in LogNames : StateDir!Read(n, EmptyLog)' =
              IF f.dir[n] = None THEN EmptyLog ELSE f.data[f.dir[n]]
<1>1. /\ IsDirectory(stateFiles') /\ stateFiles'.dir = f.dir
      /\ stateFiles'.survivors = f.survivors
      /\ stateFiles'.calls = f.calls /\ stateFiles'.outcome = f.outcome
      /\ \A d \in f.survivors : \A n \in LogNames : d[n] \in LogInodes =>
           /\ stateFiles'.data[d[n]] = f.data[d[n]]
           /\ stateFiles'.disk[d[n]] = f.disk[d[n]]
  BY LogsCollected
<1>2. \A d \in f.survivors : \A n \in LogNames : d[n] \in LogInodes \cup {None}
  BY DEF IsDirectory, LogDirectories
<1>3. \A d \in f.survivors : \A n \in LogNames : d[n] # None =>
           /\ stateFiles'.data[d[n]] = f.data[d[n]]
           /\ stateFiles'.disk[d[n]] = f.disk[d[n]]
  BY <1>1, <1>2
<1>4. f.dir \in f.survivors
  BY DEF IsDirectory
<1>5. StateDirectoryOK'
  BY <1>1 DEF StateDirectoryOK, IsDirectory
<1>6. FilesAreClear'
  BY <1>1, <1>3, <1>4 DEF FilesAreClear
<1>7. \A n \in LogNames : StateDir!Read(n, EmptyLog)' =
              IF f.dir[n] = None THEN EmptyLog ELSE f.data[f.dir[n]]
  BY <1>1, <1>3, <1>4 DEF StateDir!Read, StateDir!Exists, StateDir!Contents
<1> QED BY <1>1, <1>5, <1>6, <1>7

(* A file with a name is one that a crash may leave.                         *)
LEMMA VisibleLogs ==
  ASSUME StateDirectoryOK, FilesAreClear, DictationsAreClear, NEW n \in LogNames
  PROVE  /\ StateDir!Read(n, EmptyLog) \in StateDir!AfterCrash(n, EmptyLog)
         /\ StateDir!Read(n, EmptyLog) \in Logs(cleared.upTo)
         /\ StateDir!Read(n, EmptyLog).size \in Nat
         /\ StateDir!Read(n, EmptyLog) =
              IF stateFiles.dir[n] = None THEN EmptyLog ELSE stateFiles.data[stateFiles.dir[n]]
         /\ stateFiles.dir[n] \in LogInodes \cup {None} /\ None \notin LogInodes
<1>1. stateFiles.dir \in stateFiles.survivors
  BY DEF StateDirectoryOK
<1>2. StateDir!Read(n, EmptyLog) =
         IF stateFiles.dir[n] = None THEN EmptyLog ELSE stateFiles.data[stateFiles.dir[n]]
  BY DEF StateDir!Read, StateDir!Exists, StateDir!Contents
<1>3. StateDir!Read(n, EmptyLog) \in StateDir!AfterCrash(n, EmptyLog)
  BY <1>1, <1>2 DEF StateDir!AfterCrash
<1>4. StateDir!Read(n, EmptyLog) \in Logs(cleared.upTo)
  BY <1>2, LogsOf DEF FilesAreClear
<1>5. StateDir!Read(n, EmptyLog).size \in Nat
  BY <1>4 DEF Logs
<1>6. stateFiles.dir[n] \in LogInodes \cup {None}
  BY <1>1 DEF StateDirectoryOK, LogDirectories
<1> QED BY <1>2, <1>3, <1>4, <1>5, <1>6, FilesAssumption DEF StateDir!FilesFit

(* The calls that are left when one was made.                                *)
LEMMA CallsLeft ==
  ASSUME CallsAreClear, stateFiles.calls # <<>>
  PROVE  /\ Head(stateFiles.calls) \in LogCalls(cleared.upTo)
         /\ Head(stateFiles.calls) = stateFiles.calls[1] /\ 1 \in DOMAIN stateFiles.calls
         /\ Tail(stateFiles.calls) \in Seq(LogCalls(cleared.upTo))
         /\ \A i \in DOMAIN Tail(stateFiles.calls) :
              /\ i \in Nat /\ i + 1 \in DOMAIN stateFiles.calls
              /\ Tail(stateFiles.calls)[i] = stateFiles.calls[i + 1]
         /\ \A i \in DOMAIN stateFiles.calls : i # 1 =>
              /\ i \in Nat /\ i - 1 \in DOMAIN Tail(stateFiles.calls)
              /\ stateFiles.calls[i] = Tail(stateFiles.calls)[i - 1]
<1> DEFINE S == LogCalls(cleared.upTo)
           c == stateFiles.calls
<1>1. c \in Seq(S) /\ c # <<>>
  BY DEF CallsAreClear
<1> HIDE DEF S, c
<1>2. Head(c) \in S /\ Head(c) = c[1] /\ 1 \in DOMAIN c /\ Tail(c) \in Seq(S)
  BY <1>1
<1>3. /\ Len(c) \in Nat /\ DOMAIN c = 1 .. Len(c) /\ DOMAIN Tail(c) = 1 .. Len(c) - 1
      /\ \A i \in 1 .. Len(c) - 1 : Tail(c)[i] = c[i + 1]
  BY <1>1
<1>4. \A i \in DOMAIN Tail(c) :
        i \in Nat /\ i + 1 \in DOMAIN c /\ Tail(c)[i] = c[i + 1]
  BY <1>3
<1>5. \A i \in DOMAIN c : i # 1 =>
        i \in Nat /\ i - 1 \in DOMAIN Tail(c) /\ c[i] = Tail(c)[i - 1]
  BY <1>3
<1> QED BY <1>2, <1>4, <1>5 DEF S, c
-----------------------------------------------------------------------------
(* The calls, one by one.                                                    *)
Outcome == IF Tail(stateFiles.calls) = <<>> THEN "ok" ELSE "none"

LEMMA LogCallMade ==
  ASSUME StateDirectoryOK, NEW made, made = StateDir!Made
  PROVE  /\ made = [dir |-> stateFiles.dir, survivors |-> stateFiles.survivors,
                    data |-> stateFiles.data, disk |-> stateFiles.disk,
                    calls |-> Tail(stateFiles.calls), outcome |-> Outcome]
         /\ made.dir = stateFiles.dir /\ made.survivors = stateFiles.survivors
         /\ made.data = stateFiles.data /\ made.disk = stateFiles.disk
<1> DEFINE calls == Tail(stateFiles.calls)
<1>1. made = [stateFiles EXCEPT !.calls = calls, !.outcome = Outcome]
  BY DEF StateDir!Made, StateDir!Returning, Outcome
<1> HIDE DEF calls
<1>2. made = [dir |-> stateFiles.dir, survivors |-> stateFiles.survivors,
              data |-> stateFiles.data, disk |-> stateFiles.disk,
              calls |-> calls, outcome |-> Outcome]
  BY <1>1 DEF StateDirectoryOK
<1> QED BY <1>2 DEF calls

LEMMA LogsCalled ==
  ASSUME StateDirectoryOK, FilesAreClear, DictationsAreClear, UNCHANGED cleared,
         NEW dir, NEW survivors, NEW data, NEW disk, NEW f,
         f = [dir |-> dir, survivors |-> survivors, data |-> data, disk |-> disk,
              calls |-> Tail(stateFiles.calls), outcome |-> Outcome],
         stateFiles' = f \/ stateFiles' = StateDir!Collected(f),
         dir \in survivors, survivors \subseteq LogDirectories, data \in LogData, disk \in LogData,
         \A n \in LogNames : dir[n] # None => data[dir[n]] \in Logs(cleared.upTo),
         \A d \in survivors, n \in LogNames : d[n] # None =>
           data[d[n]] \in Logs(LastingUpTo) /\ disk[d[n]] \in Logs(LastingUpTo),
         \A n \in LogNames :
           \/ dir[n] = None
           \/ data[dir[n]].size <= LogLimit
           \/ dir[n] = stateFiles.dir[n] /\ data[dir[n]] = stateFiles.data[dir[n]]
  PROVE  /\ StateDirectoryOK' /\ FilesAreClear' /\ SizesFollow
         /\ stateFiles'.calls = Tail(stateFiles.calls) /\ stateFiles'.dir = dir
         /\ \A n \in LogNames : StateDir!Read(n, EmptyLog)' =
              IF dir[n] = None THEN EmptyLog ELSE data[dir[n]]
<1>1. /\ f.dir = dir /\ f.survivors = survivors /\ f.data = data /\ f.disk = disk
      /\ f.calls = Tail(stateFiles.calls) /\ f.outcome = Outcome
  OBVIOUS
<1>2. IsDirectory(f) /\ (f.outcome # "none" => f.calls = <<>>)
  BY <1>1 DEF IsDirectory, Outcome
<1>3. cleared'.upTo = cleared.upTo /\ LastingUpTo' = LastingUpTo
  BY DEF LastingUpTo
<1>4. /\ \A n \in LogNames : f.dir[n] # None => f.data[f.dir[n]] \in Logs(cleared'.upTo)
      /\ \A d \in f.survivors, n \in LogNames : d[n] # None =>
           f.data[d[n]] \in Logs(LastingUpTo') /\ f.disk[d[n]] \in Logs(LastingUpTo')
  BY <1>1, <1>3
<1>5. /\ StateDirectoryOK' /\ FilesAreClear'
      /\ stateFiles'.calls = f.calls /\ stateFiles'.dir = f.dir
      /\ \A n \in LogNames : StateDir!Read(n, EmptyLog)' =
           IF f.dir[n] = None THEN EmptyLog ELSE f.data[f.dir[n]]
  <2>1. f.outcome # "none" => f.calls = <<>>
    BY <1>2
  <2>2. /\ IsDirectory(f)
        /\ \A n \in LogNames : f.dir[n] # None => f.data[f.dir[n]] \in Logs(cleared'.upTo)
        /\ \A d \in f.survivors, n \in LogNames : d[n] # None =>
             f.data[d[n]] \in Logs(LastingUpTo') /\ f.disk[d[n]] \in Logs(LastingUpTo')
    BY <1>2, <1>4
  <2>3. stateFiles' = f \/ stateFiles' = StateDir!Collected(f)
    OBVIOUS
  <2> QED
    BY <2>1, <2>2, <2>3, LogsFollow, ZenonT(40)
<1>6. SizesFollow
  <2> SUFFICES ASSUME NEW n \in LogNames
               PROVE  \/ StateDir!Read(n, EmptyLog)'.size <= LogLimit
                      \/ StateDir!Read(n, EmptyLog)' \in StateDir!AfterCrash(n, EmptyLog)
    BY DEF SizesFollow
  <2>1. StateDir!Read(n, EmptyLog)' = IF dir[n] = None THEN EmptyLog ELSE data[dir[n]]
    BY <1>1, <1>5
  <2> QED BY <2>1, LogsOf, VisibleLogs
<1> QED BY <1>1, <1>5, <1>6

(* What a call leaves for the calls after it.                                *)
CallIsClear ==
  LET call == Head(stateFiles.calls)
  IN /\ StateDirectoryOK' /\ FilesAreClear' /\ SizesFollow
     /\ stateFiles'.calls = Tail(stateFiles.calls)
     /\ \/ LogSize' <= LogLimit
        \/ LogSize' = LogSize /\ ~(call.call = "write" /\ call.file = "log")
     /\ call.call \in {"unlink", "syncdir"} =>
          \A n \in LogNames : stateFiles'.dir[n] \in {stateFiles.dir[n], None}
     /\ call.call = "unlink" => stateFiles'.dir[call.file] = None

LEMMA LogCreated ==
  ASSUME LogFiles, DictationsAreClear, StateDir!Create, UNCHANGED cleared
  PROVE  CallIsClear
<1>0. StateDirectoryOK /\ FilesAreClear /\ stateFiles.calls # <<>>
  BY DEF LogFiles, StateDir!Create, StateDir!Makes
<1>1. /\ Head(stateFiles.calls).call = "create" /\ Head(stateFiles.calls).file = "log"
      /\ Head(stateFiles.calls).arg = EmptyLog
  BY <1>0, CallsLeft, CallForms DEF LogFiles, StateDir!Create, StateDir!Makes
<1>2. PICK new, made, dir, f :
        /\ new \in StateDir!Unused
        /\ made = StateDir!Made
        /\ dir = [stateFiles.dir EXCEPT !["log"] = new]
        /\ f = [made EXCEPT !.data[new] = EmptyLog, !.disk[new] = EmptyLog]
        /\ stateFiles' = StateDir!WithDirectory(f, dir)
  BY <1>1 DEF StateDir!Create
<1>3. /\ new \in LogInodes /\ new # None
      /\ \A d \in stateFiles.survivors : \A n \in LogNames : d[n] # new
  BY <1>2, FilesAssumption DEF StateDir!Unused, LogNames, StateDir!FilesFit
<1>4. /\ dir \in LogDirectories /\ dir["log"] = new /\ dir["backup"] = stateFiles.dir["backup"]
      /\ StateDir!WithoutTemporary(dir) = dir
  BY <1>0, <1>2, <1>3 DEF StateDir!WithoutTemporary, StateDirectoryOK, LogDirectories, LogNames
<1> DEFINE data == [stateFiles.data EXCEPT ![new] = EmptyLog]
           disk == [stateFiles.disk EXCEPT ![new] = EmptyLog]
           survivors == stateFiles.survivors \cup {dir}
<1>5. f = [dir |-> stateFiles.dir, survivors |-> stateFiles.survivors, data |-> data,
           disk |-> disk, calls |-> Tail(stateFiles.calls), outcome |-> Outcome]
  <2>1. /\ made = [dir |-> stateFiles.dir, survivors |-> stateFiles.survivors,
                   data |-> stateFiles.data, disk |-> stateFiles.disk,
                   calls |-> Tail(stateFiles.calls), outcome |-> Outcome]
        /\ made.data = stateFiles.data /\ made.disk = stateFiles.disk
    BY <1>0, <1>2, LogCallMade
  <2>2. f = [made EXCEPT !.data = [made.data EXCEPT ![new] = EmptyLog],
                         !.disk = [made.disk EXCEPT ![new] = EmptyLog]]
    BY <1>2
  <2> HIDE DEF data, disk
  <2>3. f = [made EXCEPT !.data = data, !.disk = disk]
    BY <2>1, <2>2 DEF data, disk
  <2> QED BY <2>1, <2>3
<1>6. /\ data \in LogData /\ disk \in LogData
      /\ data[new] = EmptyLog /\ disk[new] = EmptyLog
      /\ \A i \in LogInodes : i # new => data[i] = stateFiles.data[i] /\ disk[i] = stateFiles.disk[i]
  BY <1>0, <1>3, LogsOf DEF StateDirectoryOK, LogData
<1> HIDE DEF data, disk
<1>7. stateFiles' = [dir |-> dir, survivors |-> survivors, data |-> data, disk |-> disk,
                     calls |-> Tail(stateFiles.calls), outcome |-> Outcome]
  <2>1. stateFiles' = [f EXCEPT !.dir = dir, !.survivors = f.survivors \cup {dir}]
    BY <1>2, <1>4 DEF StateDir!WithDirectory
  <2> QED BY <1>5, <2>1
<1>8. /\ dir \in survivors /\ survivors \subseteq LogDirectories
      /\ \A d \in stateFiles.survivors : \A n \in LogNames :
           d[n] # None => d[n] \in LogInodes /\ d[n] # new
      /\ stateFiles.dir \in stateFiles.survivors
  BY <1>0, <1>3, <1>4 DEF StateDirectoryOK, LogDirectories
<1>9. \A n \in LogNames : dir[n] # None =>
        /\ data[dir[n]] \in Logs(cleared.upTo)
        /\ data[dir[n]] = EmptyLog
           \/ (dir[n] = stateFiles.dir[n] /\ data[dir[n]] = stateFiles.data[dir[n]])
  BY <1>0, <1>4, <1>6, <1>8, LogsOf DEF FilesAreClear, LogNames
<1>10. \A d \in survivors, n \in LogNames : d[n] # None =>
         data[d[n]] \in Logs(LastingUpTo) /\ disk[d[n]] \in Logs(LastingUpTo)
  <2>1. ASSUME NEW d \in stateFiles.survivors, NEW n \in LogNames, d[n] # None
        PROVE  data[d[n]] \in Logs(LastingUpTo) /\ disk[d[n]] \in Logs(LastingUpTo)
    BY <1>0, <1>6, <1>8, <2>1 DEF FilesAreClear
  <2>2. ASSUME NEW n \in LogNames, dir[n] # None
        PROVE  data[dir[n]] \in Logs(LastingUpTo) /\ disk[dir[n]] \in Logs(LastingUpTo)
    BY <1>4, <1>6, <1>8, <2>1, <2>2, LogsOf DEF LogNames
  <2> QED BY <2>1, <2>2
<1>11. /\ StateDirectoryOK' /\ FilesAreClear' /\ SizesFollow
       /\ stateFiles'.calls = Tail(stateFiles.calls)
       /\ \A n \in LogNames : StateDir!Read(n, EmptyLog)' =
            IF dir[n] = None THEN EmptyLog ELSE data[dir[n]]
  BY <1>0, <1>6, <1>7, <1>8, <1>9, <1>10, LogsCalled, LogsOf
<1>12. LogSize' <= LogLimit
  BY <1>3, <1>4, <1>6, <1>11, LogsOf DEF LogSize, LogNames
<1> QED BY <1>1, <1>11, <1>12 DEF CallIsClear

LEMMA LogWritten ==
  ASSUME LogFiles, DictationsAreClear, StateDir!Write, UNCHANGED cleared
  PROVE  CallIsClear
<1> DEFINE call == Head(stateFiles.calls)
           file == stateFiles.dir[call.file]
           data == [stateFiles.data EXCEPT ![file] = call.arg]
<1>0. StateDirectoryOK /\ FilesAreClear /\ stateFiles.calls # <<>>
  BY DEF LogFiles, StateDir!Write, StateDir!Makes
<1>1. /\ call.call = "write" /\ call.file \in LogNames
      /\ call.arg \in Logs(cleared.upTo) /\ call.arg.size <= LogLimit
  BY <1>0, CallsLeft, CallForms DEF LogFiles, StateDir!Write, StateDir!Makes
<1>2. stateFiles' = [dir |-> stateFiles.dir, survivors |-> stateFiles.survivors, data |-> data,
                     disk |-> stateFiles.disk, calls |-> Tail(stateFiles.calls),
                     outcome |-> Outcome]
  <2>1. PICK made : /\ made = StateDir!Made
                    /\ stateFiles' = [made EXCEPT !.data[file] = call.arg]
    BY DEF StateDir!Write
  <2>2. /\ made = [dir |-> stateFiles.dir, survivors |-> stateFiles.survivors,
                   data |-> stateFiles.data, disk |-> stateFiles.disk,
                   calls |-> Tail(stateFiles.calls), outcome |-> Outcome]
        /\ made.data = stateFiles.data
    BY <1>0, <2>1, LogCallMade
  <2>3. stateFiles' = [made EXCEPT !.data = [made.data EXCEPT ![file] = call.arg]]
    BY <2>1
  <2> HIDE DEF data, call, file
  <2>4. stateFiles' = [made EXCEPT !.data = data]
    BY <2>2, <2>3 DEF data
  <2> QED BY <2>2, <2>4
<1>3. data \in LogData /\ \A i \in LogInodes :
        data[i] = stateFiles.data[i] \/ (i = file /\ data[i] = call.arg)
  <2>1. call.arg \in Logs(-1)
    BY <1>1, LastingIsLess
  <2> HIDE DEF call, file
  <2> QED BY <1>0, <2>1 DEF StateDirectoryOK, LogData
<1>4. file \in LogInodes => data[file] = call.arg
  <2> HIDE DEF call, file
  <2> QED BY <1>0 DEF StateDirectoryOK, LogData
<1> HIDE DEF data
<1>5. \A d \in stateFiles.survivors, n \in LogNames : d[n] # None => d[n] \in LogInodes
  BY <1>0 DEF StateDirectoryOK, LogDirectories
<1>6. /\ stateFiles.dir \in stateFiles.survivors /\ stateFiles.survivors \subseteq LogDirectories
      /\ stateFiles.disk \in LogData
  BY <1>0 DEF StateDirectoryOK
<1>7. \A n \in LogNames : stateFiles.dir[n] # None =>
        /\ data[stateFiles.dir[n]] \in Logs(cleared.upTo)
        /\ \/ data[stateFiles.dir[n]].size <= LogLimit
           \/ data[stateFiles.dir[n]] = stateFiles.data[stateFiles.dir[n]]
  <2> HIDE DEF call, file
  <2> QED BY <1>0, <1>1, <1>3, <1>5, <1>6 DEF FilesAreClear
<1>8. \A d \in stateFiles.survivors, n \in LogNames : d[n] # None =>
        data[d[n]] \in Logs(LastingUpTo) /\ stateFiles.disk[d[n]] \in Logs(LastingUpTo)
  <2>1. call.arg \in Logs(LastingUpTo)
    BY <1>1, LastingIsLess
  <2> HIDE DEF call, file
  <2> QED BY <1>0, <1>3, <1>5, <2>1 DEF FilesAreClear
<1>9. /\ StateDirectoryOK' /\ FilesAreClear' /\ SizesFollow
      /\ stateFiles'.calls = Tail(stateFiles.calls)
      /\ \A n \in LogNames : StateDir!Read(n, EmptyLog)' =
           IF stateFiles.dir[n] = None THEN EmptyLog ELSE data[stateFiles.dir[n]]
  <2> HIDE DEF call, file
  <2> QED BY <1>0, <1>2, <1>3, <1>6, <1>7, <1>8, LogsCalled
<1>10. \/ LogSize' <= LogLimit
       \/ LogSize' = LogSize /\ call.file # "log"
  <2>1. "log" \in LogNames
    BY DEF LogNames
  <2>2. CASE stateFiles.dir["log"] = None
    BY <1>9, <2>1, <2>2, LogsOf DEF LogSize
  <2>3. CASE stateFiles.dir["log"] # None /\ call.file = "log"
    BY <1>1, <1>4, <1>5, <1>6, <1>9, <2>1, <2>3 DEF LogSize
  <2>4. CASE stateFiles.dir["log"] # None /\ call.file # "log"
    <3> HIDE DEF call, file
    <3> QED BY <1>0, <1>7, <1>9, <2>1, <2>4, VisibleLogs DEF LogSize
  <2> QED BY <2>2, <2>3, <2>4
<1> QED BY <1>1, <1>9, <1>10 DEF CallIsClear

LEMMA LogSynced ==
  ASSUME LogFiles, DictationsAreClear, StateDir!Sync, UNCHANGED cleared
  PROVE  CallIsClear
<1> DEFINE call == Head(stateFiles.calls)
           file == stateFiles.dir[call.file]
           disk == [stateFiles.disk EXCEPT ![file] = stateFiles.data[file]]
<1>0. StateDirectoryOK /\ FilesAreClear /\ stateFiles.calls # <<>>
  BY DEF LogFiles, StateDir!Sync, StateDir!Makes
<1>1. call.call = "sync" /\ call.file \in LogNames
  BY <1>0, CallsLeft, CallForms DEF LogFiles, StateDir!Sync, StateDir!Makes
<1>2. stateFiles' = [dir |-> stateFiles.dir, survivors |-> stateFiles.survivors,
                     data |-> stateFiles.data, disk |-> disk,
                     calls |-> Tail(stateFiles.calls), outcome |-> Outcome]
  <2>1. PICK made : /\ made = StateDir!Made
                    /\ stateFiles' = [made EXCEPT !.disk[file] = stateFiles.data[file]]
    BY DEF StateDir!Sync
  <2>2. /\ made = [dir |-> stateFiles.dir, survivors |-> stateFiles.survivors,
                   data |-> stateFiles.data, disk |-> stateFiles.disk,
                   calls |-> Tail(stateFiles.calls), outcome |-> Outcome]
        /\ made.disk = stateFiles.disk
    BY <1>0, <2>1, LogCallMade
  <2>3. stateFiles' = [made EXCEPT !.disk = [made.disk EXCEPT ![file] = stateFiles.data[file]]]
    BY <2>1
  <2> HIDE DEF disk, call, file
  <2>4. stateFiles' = [made EXCEPT !.disk = disk]
    BY <2>2, <2>3 DEF disk
  <2> QED BY <2>2, <2>4
<1> HIDE DEF call, file
<1>3. disk \in LogData /\ \A i \in LogInodes :
        disk[i] = stateFiles.disk[i] \/ (i = file /\ disk[i] = stateFiles.data[i])
  BY <1>0 DEF StateDirectoryOK, LogData
<1> HIDE DEF disk
<1>4. \A d \in stateFiles.survivors, n \in LogNames : d[n] # None => d[n] \in LogInodes
  BY <1>0 DEF StateDirectoryOK, LogDirectories
<1>5. /\ stateFiles.dir \in stateFiles.survivors /\ stateFiles.survivors \subseteq LogDirectories
      /\ stateFiles.data \in LogData
  BY <1>0 DEF StateDirectoryOK
<1>6. \A d \in stateFiles.survivors, n \in LogNames : d[n] # None =>
        stateFiles.data[d[n]] \in Logs(LastingUpTo) /\ disk[d[n]] \in Logs(LastingUpTo)
  BY <1>0, <1>3, <1>4 DEF FilesAreClear
<1>7. \A n \in LogNames : stateFiles.dir[n] # None =>
        stateFiles.data[stateFiles.dir[n]] \in Logs(cleared.upTo)
  BY <1>0 DEF FilesAreClear
<1>8. /\ StateDirectoryOK' /\ FilesAreClear' /\ SizesFollow
      /\ stateFiles'.calls = Tail(stateFiles.calls)
      /\ \A n \in LogNames : StateDir!Read(n, EmptyLog)' =
           IF stateFiles.dir[n] = None THEN EmptyLog ELSE stateFiles.data[stateFiles.dir[n]]
  BY <1>0, <1>2, <1>3, <1>5, <1>6, <1>7, LogsCalled
<1>9. LogSize' = LogSize
  BY <1>0, <1>8, VisibleLogs DEF LogSize, LogNames
<1> QED BY <1>1, <1>8, <1>9 DEF CallIsClear, call

(* A call that changes the directory alone.                                  *)
LEMMA LogMoved ==
  ASSUME LogFiles, DictationsAreClear, UNCHANGED cleared, NEW dir \in LogDirectories,
         stateFiles' = StateDir!WithDirectory(StateDir!Made, dir),
         \A n \in LogNames :
           \/ dir[n] \in {stateFiles.dir[n], None}
           \/ dir[n] = stateFiles.dir["log"] /\ LogSize <= LogLimit
  PROVE  /\ StateDirectoryOK' /\ FilesAreClear' /\ SizesFollow
         /\ stateFiles'.calls = Tail(stateFiles.calls) /\ stateFiles'.dir = dir
         /\ \A n \in LogNames : StateDir!Read(n, EmptyLog)' =
              IF dir[n] = None THEN EmptyLog ELSE stateFiles.data[dir[n]]
<1> DEFINE survivors == stateFiles.survivors \cup {dir}
<1>0. StateDirectoryOK /\ FilesAreClear
  BY DEF LogFiles
<1>1. StateDir!WithoutTemporary(dir) = dir
  BY DEF StateDir!WithoutTemporary, LogDirectories
<1>2. stateFiles' = [dir |-> dir, survivors |-> survivors, data |-> stateFiles.data,
                     disk |-> stateFiles.disk, calls |-> Tail(stateFiles.calls),
                     outcome |-> Outcome]
  <2>1. PICK made : /\ made = StateDir!Made
                    /\ stateFiles' = [made EXCEPT !.dir = dir,
                                                  !.survivors = made.survivors \cup {dir}]
    BY <1>1 DEF StateDir!WithDirectory
  <2>2. /\ made = [dir |-> stateFiles.dir, survivors |-> stateFiles.survivors,
                   data |-> stateFiles.data, disk |-> stateFiles.disk,
                   calls |-> Tail(stateFiles.calls), outcome |-> Outcome]
        /\ made.survivors = stateFiles.survivors
    BY <1>0, <2>1, LogCallMade
  <2> HIDE DEF survivors
  <2>3. stateFiles' = [made EXCEPT !.dir = dir, !.survivors = survivors]
    BY <2>1, <2>2 DEF survivors
  <2> QED BY <2>2, <2>3
<1>3. /\ dir \in survivors /\ survivors \subseteq LogDirectories
      /\ stateFiles.data \in LogData /\ stateFiles.disk \in LogData
      /\ stateFiles.dir \in stateFiles.survivors
  BY <1>0 DEF StateDirectoryOK
<1>4. \A n \in LogNames : dir[n] # None =>
        \E m \in LogNames : /\ dir[n] = stateFiles.dir[m] /\ stateFiles.dir[m] # None
                            /\ m = n \/ (m = "log" /\ LogSize <= LogLimit)
  BY DEF LogNames
<1>5. \A n \in LogNames : dir[n] # None => stateFiles.data[dir[n]] \in Logs(cleared.upTo)
  BY <1>0, <1>4 DEF FilesAreClear
<1>6. \A d \in survivors, n \in LogNames : d[n] # None =>
        /\ stateFiles.data[d[n]] \in Logs(LastingUpTo)
        /\ stateFiles.disk[d[n]] \in Logs(LastingUpTo)
  BY <1>0, <1>3, <1>4 DEF FilesAreClear
<1>7. \A n \in LogNames :
        \/ dir[n] = None
        \/ stateFiles.data[dir[n]].size <= LogLimit
        \/ /\ dir[n] = stateFiles.dir[n]
           /\ stateFiles.data[dir[n]] = stateFiles.data[stateFiles.dir[n]]
  BY <1>0, <1>4, VisibleLogs DEF LogSize
<1> QED BY <1>0, <1>2, <1>3, <1>5, <1>6, <1>7, LogsCalled

LEMMA LogRenamed ==
  ASSUME LogFiles, DictationsAreClear, StateDir!Rename, UNCHANGED cleared
  PROVE  CallIsClear
<1> DEFINE dir == [stateFiles.dir EXCEPT !["backup"] = stateFiles.dir["log"], !["log"] = None]
<1>0. StateDirectoryOK /\ FilesAreClear /\ stateFiles.calls # <<>> /\ CutBeforeRotation
  BY DEF LogFiles, StateDir!Rename, StateDir!Makes
<1>1. /\ Head(stateFiles.calls).call = "rename" /\ Head(stateFiles.calls).file = "log"
      /\ Head(stateFiles.calls).arg = "backup"
  BY <1>0, CallsLeft, CallForms DEF LogFiles, StateDir!Rename, StateDir!Makes
<1>2. stateFiles' = StateDir!WithDirectory(StateDir!Made, dir)
  BY <1>1 DEF StateDir!Rename
<1>3. /\ dir \in LogDirectories /\ dir["log"] = None
      /\ dir["backup"] = stateFiles.dir["log"]
  BY <1>0 DEF StateDirectoryOK, LogDirectories, LogNames
<1>4. LogSize <= LogLimit
  <2>1. 1 \in DOMAIN stateFiles.calls /\ stateFiles.calls[1].call = "rename"
        /\ \A j \in DOMAIN stateFiles.calls : ~(j < 1)
    BY <1>0, <1>1, CallsLeft DEF LogFiles, CallsAreClear
  <2> QED BY <1>0, <2>1 DEF CutBeforeRotation
<1> HIDE DEF dir
<1>5. /\ StateDirectoryOK' /\ FilesAreClear' /\ SizesFollow
      /\ stateFiles'.calls = Tail(stateFiles.calls)
      /\ StateDir!Read("log", EmptyLog)' = EmptyLog
  BY <1>2, <1>3, <1>4, LogMoved DEF LogNames
<1>6. LogSize' <= LogLimit
  BY <1>5, LogsOf DEF LogSize
<1> QED BY <1>1, <1>5, <1>6 DEF CallIsClear

LEMMA LogUnlinked ==
  ASSUME LogFiles, DictationsAreClear, StateDir!Unlink, UNCHANGED cleared
  PROVE  CallIsClear
<1> DEFINE call == Head(stateFiles.calls)
           dir == [stateFiles.dir EXCEPT ![call.file] = None]
<1>0. StateDirectoryOK /\ FilesAreClear /\ stateFiles.calls # <<>>
  BY DEF LogFiles, StateDir!Unlink, StateDir!Makes
<1>1. call.call = "unlink" /\ call.file \in LogNames
  BY <1>0, CallsLeft, CallForms DEF LogFiles, StateDir!Unlink, StateDir!Makes
<1>2. stateFiles' = StateDir!WithDirectory(StateDir!Made, dir)
  BY DEF StateDir!Unlink
<1> HIDE DEF call
<1>3. /\ dir \in LogDirectories /\ dir[call.file] = None
      /\ \A n \in LogNames : dir[n] \in {stateFiles.dir[n], None}
  BY <1>0, <1>1 DEF StateDirectoryOK, LogDirectories, LogNames
<1> HIDE DEF dir
<1>4. /\ StateDirectoryOK' /\ FilesAreClear' /\ SizesFollow
      /\ stateFiles'.calls = Tail(stateFiles.calls) /\ stateFiles'.dir = dir
      /\ \A n \in LogNames : StateDir!Read(n, EmptyLog)' =
           IF dir[n] = None THEN EmptyLog ELSE stateFiles.data[dir[n]]
  BY <1>2, <1>3, LogMoved
<1>5. LogSize' <= LogLimit \/ LogSize' = LogSize
  BY <1>0, <1>3, <1>4, LogsOf, VisibleLogs DEF LogSize, LogNames
<1> QED BY <1>1, <1>3, <1>4, <1>5 DEF CallIsClear, call

LEMMA LogDirectorySynced ==
  ASSUME LogFiles, DictationsAreClear, StateDir!SyncDir, UNCHANGED cleared
  PROVE  CallIsClear
<1>0. StateDirectoryOK /\ FilesAreClear /\ stateFiles.calls # <<>>
  BY DEF LogFiles, StateDir!SyncDir, StateDir!Makes
<1>1. Head(stateFiles.calls).call = "syncdir"
  BY DEF StateDir!SyncDir, StateDir!Makes
<1> DEFINE survivors == {stateFiles.dir}
<1>2. PICK f : /\ f = [dir |-> stateFiles.dir, survivors |-> survivors,
                       data |-> stateFiles.data, disk |-> stateFiles.disk,
                       calls |-> Tail(stateFiles.calls), outcome |-> Outcome]
               /\ stateFiles' = StateDir!Collected(f)
  <2> HIDE DEF survivors
  <2>1. PICK made, f : /\ made = StateDir!Made
                       /\ f = [made EXCEPT !.survivors = survivors]
                       /\ stateFiles' = StateDir!Collected(f)
    BY DEF StateDir!SyncDir, survivors
  <2>2. made = [dir |-> stateFiles.dir, survivors |-> stateFiles.survivors,
                data |-> stateFiles.data, disk |-> stateFiles.disk,
                calls |-> Tail(stateFiles.calls), outcome |-> Outcome]
    BY <1>0, <2>1, LogCallMade
  <2>3. f = [made EXCEPT !.survivors = survivors]
    BY <2>1
  <2>4. f = [dir |-> stateFiles.dir, survivors |-> survivors,
             data |-> stateFiles.data, disk |-> stateFiles.disk,
             calls |-> Tail(stateFiles.calls), outcome |-> Outcome]
    BY <2>2, <2>3
  <2> QED BY <2>1, <2>4
<1>3. /\ stateFiles.dir \in stateFiles.survivors /\ survivors \subseteq LogDirectories
      /\ stateFiles.data \in LogData /\ stateFiles.disk \in LogData
  BY <1>0 DEF StateDirectoryOK
<1>4. /\ \A n \in LogNames : stateFiles.dir[n] # None =>
           stateFiles.data[stateFiles.dir[n]] \in Logs(cleared.upTo)
      /\ \A d \in survivors, n \in LogNames : d[n] # None =>
           stateFiles.data[d[n]] \in Logs(LastingUpTo) /\ stateFiles.disk[d[n]] \in Logs(LastingUpTo)
  BY <1>0, <1>3 DEF FilesAreClear
<1>5. /\ StateDirectoryOK' /\ FilesAreClear' /\ SizesFollow
      /\ stateFiles'.calls = Tail(stateFiles.calls) /\ stateFiles'.dir = stateFiles.dir
      /\ \A n \in LogNames : StateDir!Read(n, EmptyLog)' =
           IF stateFiles.dir[n] = None THEN EmptyLog ELSE stateFiles.data[stateFiles.dir[n]]
  <2>1. stateFiles.dir \in survivors
    OBVIOUS
  <2>2. \A n \in LogNames :
          \/ stateFiles.dir[n] = None
          \/ stateFiles.data[stateFiles.dir[n]].size <= LogLimit
          \/ /\ stateFiles.dir[n] = stateFiles.dir[n]
             /\ stateFiles.data[stateFiles.dir[n]] = stateFiles.data[stateFiles.dir[n]]
    OBVIOUS
  <2> HIDE DEF survivors
  <2> QED BY <1>0, <1>2, <1>3, <1>4, <2>1, <2>2, LogsCalled, SMTT(30)
<1>6. LogSize' = LogSize
  BY <1>0, <1>5, VisibleLogs DEF LogSize, LogNames
<1> QED BY <1>1, <1>5, <1>6 DEF CallIsClear
-----------------------------------------------------------------------------
(* The function ends early, and the machine stops.                           *)
LEMMA LogEnded ==
  ASSUME StateDirectoryOK, FilesAreClear, DictationsAreClear, UNCHANGED cleared,
         NEW how \in {"none", "failed"}, stateFiles' = StateDir!Ended(how)
  PROVE  /\ StateDirectoryOK' /\ FilesAreClear' /\ SizesFollow
         /\ stateFiles'.calls = <<>> /\ stateFiles'.outcome = how
<1>1. /\ stateFiles.dir \in stateFiles.survivors /\ stateFiles.survivors \subseteq LogDirectories
      /\ stateFiles.data \in LogData /\ stateFiles.disk \in LogData
  BY DEF StateDirectoryOK
<1>2. StateDir!WithoutTemporary(stateFiles.dir) = stateFiles.dir
  BY <1>1 DEF StateDir!WithoutTemporary, LogDirectories
<1>3. PICK f : /\ f = [stateFiles EXCEPT !.dir = stateFiles.dir, !.calls = <<>>, !.outcome = how]
               /\ stateFiles' = StateDir!Collected(f)
  BY <1>2 DEF StateDir!Ended
<1>4. f = [dir |-> stateFiles.dir, survivors |-> stateFiles.survivors, data |-> stateFiles.data,
           disk |-> stateFiles.disk, calls |-> <<>>, outcome |-> how]
  BY <1>3 DEF StateDirectoryOK
<1>5. /\ f.dir = stateFiles.dir /\ f.survivors = stateFiles.survivors
      /\ f.data = stateFiles.data /\ f.disk = stateFiles.disk
      /\ f.calls = <<>> /\ f.outcome = how
  BY <1>4
<1>6. IsDirectory(f)
  BY <1>1, <1>4, <1>5 DEF IsDirectory
<1>7. cleared'.upTo = cleared.upTo /\ LastingUpTo' = LastingUpTo
  BY DEF LastingUpTo
<1>8. /\ \A n \in LogNames : f.dir[n] # None => f.data[f.dir[n]] \in Logs(cleared'.upTo)
      /\ \A d \in f.survivors, n \in LogNames : d[n] # None =>
           f.data[d[n]] \in Logs(LastingUpTo') /\ f.disk[d[n]] \in Logs(LastingUpTo')
  BY <1>5, <1>7 DEF FilesAreClear
<1>9. /\ StateDirectoryOK' /\ FilesAreClear'
      /\ stateFiles'.calls = <<>> /\ stateFiles'.outcome = how
      /\ \A n \in LogNames : StateDir!Read(n, EmptyLog)' =
           IF stateFiles.dir[n] = None THEN EmptyLog ELSE stateFiles.data[stateFiles.dir[n]]
  <2>1. stateFiles' = StateDir!Collected(f) /\ (f.outcome # "none" => f.calls = <<>>)
    BY <1>3, <1>5
  <2> QED BY <1>5, <1>6, <1>8, <2>1, LogsFollow
<1>10. SizesFollow
  BY <1>9, VisibleLogs DEF SizesFollow
<1> QED BY <1>9, <1>10

(* A crash: what was cleared for good stays so.                              *)
LEMMA LogsCrash ==
  ASSUME StateDirectoryOK, FilesAreClear, DictationsAreClear, StateDir!Crash,
         cleared' = IF cleared.lasting THEN cleared ELSE NothingCleared
  PROVE  /\ StateDirectoryOK' /\ FilesAreClear' /\ SizesFollow
         /\ stateFiles'.calls = <<>> /\ stateFiles'.outcome = "none"
<1>1. PICK d \in stateFiles.survivors,
           written \in SUBSET {i \in LogInodes : stateFiles.data[i] # stateFiles.disk[i]} :
        stateFiles' = StateDir!Collected(
          [dir |-> d, survivors |-> {d},
           data |-> [i \in LogInodes |-> IF i \in written THEN stateFiles.data[i]
                                                          ELSE stateFiles.disk[i]],
           disk |-> [i \in LogInodes |-> IF i \in written THEN stateFiles.data[i]
                                                          ELSE stateFiles.disk[i]],
           calls |-> <<>>, outcome |-> "none"])
  BY DEF StateDir!Crash
<1> DEFINE data == [i \in LogInodes |-> IF i \in written THEN stateFiles.data[i]
                                                         ELSE stateFiles.disk[i]]
<1>2. PICK f : /\ f = [dir |-> d, survivors |-> {d}, data |-> data, disk |-> data,
                       calls |-> <<>>, outcome |-> "none"]
               /\ stateFiles' = StateDir!Collected(f)
  BY <1>1
<1>3. data \in LogData /\ \A i \in LogInodes : data[i] \in {stateFiles.data[i], stateFiles.disk[i]}
  BY DEF StateDirectoryOK, LogData
<1> HIDE DEF data
<1>4. /\ f.dir = d /\ f.survivors = {d} /\ f.data = data /\ f.disk = data
      /\ f.calls = <<>> /\ f.outcome = "none"
  BY <1>2
<1>5. d \in LogDirectories /\ \A n \in LogNames : d[n] # None => d[n] \in LogInodes
  BY DEF StateDirectoryOK, LogDirectories
<1>6. IsDirectory(f)
  BY <1>2, <1>3, <1>4, <1>5 DEF IsDirectory
<1>7. cleared'.upTo = LastingUpTo /\ LastingUpTo' = LastingUpTo
  BY DEF LastingUpTo, NothingCleared
<1>8. \A n \in LogNames : d[n] # None => data[d[n]] \in Logs(LastingUpTo)
  BY <1>3, <1>5 DEF FilesAreClear
<1>9. /\ \A n \in LogNames : f.dir[n] # None => f.data[f.dir[n]] \in Logs(cleared'.upTo)
      /\ \A e \in f.survivors, n \in LogNames : e[n] # None =>
           f.data[e[n]] \in Logs(LastingUpTo') /\ f.disk[e[n]] \in Logs(LastingUpTo')
  BY <1>4, <1>7, <1>8
<1>10. /\ StateDirectoryOK' /\ FilesAreClear'
       /\ stateFiles'.calls = <<>> /\ stateFiles'.outcome = "none"
       /\ \A n \in LogNames : StateDir!Read(n, EmptyLog)' =
            IF d[n] = None THEN EmptyLog ELSE data[d[n]]
  <2>1. stateFiles' = StateDir!Collected(f) /\ (f.outcome # "none" => f.calls = <<>>)
    BY <1>2, <1>4
  <2> QED BY <1>4, <1>6, <1>9, <2>1, LogsFollow
<1>11. \A n \in LogNames : StateDir!Read(n, EmptyLog)' \in StateDir!AfterCrash(n, EmptyLog)
  BY <1>3, <1>5, <1>10 DEF StateDir!AfterCrash
<1>12. SizesFollow
  BY <1>11 DEF SizesFollow
<1> QED BY <1>10, <1>12

LEMMA LogCallStep ==
  ASSUME LogFiles, DictationsAreClear, StateDir!CallStep, UNCHANGED <<queue, cleared>>
  PROVE  LogFiles' /\ SizesFollow
<1>0. /\ StateDirectoryOK /\ FilesAreClear /\ CallsAreClear /\ CutBeforeRotation
      /\ ClearUnderWay /\ stateFiles.calls # <<>>
  BY DEF LogFiles, StateDir!CallStep, StateDir!Create, StateDir!Write, StateDir!Sync,
         StateDir!Rename, StateDir!Unlink, StateDir!SyncDir, StateDir!Fail, StateDir!Makes
<1>1. CASE StateDir!Fail
  <2>1. /\ StateDirectoryOK' /\ FilesAreClear' /\ SizesFollow
        /\ stateFiles'.calls = <<>> /\ stateFiles'.outcome = "failed"
    BY <1>0, <1>1, LogEnded DEF StateDir!Fail
  <2> QED BY <2>1 DEF LogFiles, CallsAreClear, CutBeforeRotation, ClearUnderWay
<1>2. CASE ~StateDir!Fail
  <2> DEFINE call == Head(stateFiles.calls)
             tail == Tail(stateFiles.calls)
  <2>1. CallIsClear
    BY <1>2, LogCreated, LogWritten, LogSynced, LogRenamed, LogUnlinked, LogDirectorySynced
    DEF StateDir!CallStep
  <2>2. /\ StateDirectoryOK' /\ FilesAreClear' /\ SizesFollow
        /\ stateFiles'.calls = tail
        /\ \/ LogSize' <= LogLimit
           \/ LogSize' = LogSize /\ ~(call.call = "write" /\ call.file = "log")
        /\ call.call \in {"unlink", "syncdir"} =>
             \A n \in LogNames : stateFiles'.dir[n] \in {stateFiles.dir[n], None}
        /\ call.call = "unlink" => stateFiles'.dir[call.file] = None
    BY <2>1 DEF CallIsClear
  <2>3. /\ call = stateFiles.calls[1] /\ 1 \in DOMAIN stateFiles.calls
        /\ tail \in Seq(LogCalls(cleared.upTo))
        /\ \A i \in DOMAIN tail :
             /\ i \in Nat /\ i + 1 \in DOMAIN stateFiles.calls
             /\ tail[i] = stateFiles.calls[i + 1]
        /\ \A i \in DOMAIN stateFiles.calls : i # 1 =>
             /\ i \in Nat /\ i - 1 \in DOMAIN tail
             /\ stateFiles.calls[i] = tail[i - 1]
    BY <1>0, CallsLeft
  <2> HIDE DEF call, tail
  <2>4. CallsAreClear'
    BY <2>2, <2>3 DEF CallsAreClear
  <2>5. CutBeforeRotation'
    <3> SUFFICES ASSUME NEW i \in DOMAIN tail, tail[i].call = "rename", ~(LogSize' <= LogLimit)
                 PROVE  \E j \in DOMAIN tail :
                          j < i /\ tail[j].call = "write" /\ tail[j].file = "log"
      BY <2>2 DEF CutBeforeRotation
    <3>1. i \in Nat /\ i + 1 \in DOMAIN stateFiles.calls /\ stateFiles.calls[i + 1].call = "rename"
      BY <2>3
    <3>2. LogSize' = LogSize /\ ~(call.call = "write" /\ call.file = "log")
      BY <2>2
    <3>3. PICK j \in DOMAIN stateFiles.calls :
            /\ j < i + 1
            /\ stateFiles.calls[j].call = "write" /\ stateFiles.calls[j].file = "log"
      BY <1>0, <3>1, <3>2 DEF CutBeforeRotation
    <3>4. j # 1
      BY <2>3, <3>2, <3>3
    <3>5. /\ j \in Nat /\ j - 1 \in DOMAIN tail /\ stateFiles.calls[j] = tail[j - 1]
          /\ j - 1 < i
      BY <2>3, <3>1, <3>3, <3>4
    <3> QED BY <3>3, <3>5
  <2>6. ClearUnderWay'
    <3> SUFFICES ASSUME queue # <<>>, Head(queue).kind = "clear"
                 PROVE  /\ \A i \in DOMAIN tail : tail[i].call \in {"unlink", "syncdir"}
                        /\ \A n \in LogNames : \/ stateFiles'.dir[n] = None
                                               \/ \E i \in DOMAIN tail :
                                                    tail[i] = StateDir!Call("unlink", n, Torn)
      BY <2>2 DEF ClearUnderWay
    <3>1. /\ \A i \in DOMAIN stateFiles.calls : stateFiles.calls[i].call \in {"unlink", "syncdir"}
          /\ \A n \in LogNames : \/ stateFiles.dir[n] = None
                                 \/ \E i \in DOMAIN stateFiles.calls :
                                      stateFiles.calls[i] = StateDir!Call("unlink", n, Torn)
      BY <1>0 DEF ClearUnderWay, StateDir!Idle, StateDirectoryOK
    <3>2. \A i \in DOMAIN tail : tail[i].call \in {"unlink", "syncdir"}
      BY <2>3, <3>1
    <3>3. \A n \in LogNames : stateFiles'.dir[n] \in {stateFiles.dir[n], None}
      BY <2>2, <2>3, <3>1
    <3>4. ASSUME NEW n \in LogNames, NEW i \in DOMAIN stateFiles.calls,
                 stateFiles.calls[i] = StateDir!Call("unlink", n, Torn)
          PROVE  \/ stateFiles'.dir[n] = None
                 \/ \E j \in DOMAIN tail : tail[j] = StateDir!Call("unlink", n, Torn)
      <4>1. CASE i = 1
        BY <2>2, <2>3, <3>4, <4>1 DEF StateDir!Call
      <4>2. CASE i # 1
        BY <2>3, <3>4, <4>2
      <4> QED BY <4>1, <4>2
    <3> QED BY <3>1, <3>2, <3>3, <3>4
  <2> QED BY <2>2, <2>4, <2>5, <2>6 DEF LogFiles
<1> QED BY <1>1, <1>2
-----------------------------------------------------------------------------
(* The functions of the log.                                                 *)
LEMMA Joined ==
  ASSUME NEW S, NEW s \in Seq(S), NEW t \in Seq(S)
  PROVE  /\ s \o t \in Seq(S) /\ Len(s) \in Nat
         /\ \A i \in DOMAIN s : /\ i \in DOMAIN (s \o t) /\ (s \o t)[i] = s[i]
                                /\ i \in Nat /\ i <= Len(s)
         /\ \A i \in DOMAIN t : /\ Len(s) + i \in DOMAIN (s \o t) /\ (s \o t)[Len(s) + i] = t[i]
                                /\ i \in Nat /\ i >= 1
         /\ \A i \in DOMAIN (s \o t) :
              \/ i \in DOMAIN s /\ (s \o t)[i] = s[i]
              \/ /\ i \in Nat /\ i > Len(s)
                 /\ \E j \in DOMAIN t : (s \o t)[i] = t[j]
<1>1. /\ Len(s) \in Nat /\ Len(t) \in Nat /\ s \o t \in Seq(S)
      /\ DOMAIN s = 1 .. Len(s) /\ DOMAIN t = 1 .. Len(t)
      /\ DOMAIN (s \o t) = 1 .. Len(s) + Len(t)
      /\ \A i \in 1 .. Len(s) + Len(t) :
           (s \o t)[i] = IF i <= Len(s) THEN s[i] ELSE t[i - Len(s)]
  OBVIOUS
<1>2. \A i \in DOMAIN s : /\ i \in DOMAIN (s \o t) /\ (s \o t)[i] = s[i]
                          /\ i \in Nat /\ i <= Len(s)
  BY <1>1
<1>3. ASSUME NEW i \in DOMAIN t
      PROVE  /\ Len(s) + i \in DOMAIN (s \o t) /\ (s \o t)[Len(s) + i] = t[i]
             /\ i \in Nat /\ i >= 1
  <2>1. i \in 1 .. Len(t) /\ Len(s) + i \in 1 .. Len(s) + Len(t) /\ ~(Len(s) + i <= Len(s))
        /\ (Len(s) + i) - Len(s) = i
    BY <1>1
  <2> QED BY <1>1, <2>1
<1>4. ASSUME NEW i \in DOMAIN (s \o t)
      PROVE  \/ i \in DOMAIN s /\ (s \o t)[i] = s[i]
             \/ /\ i \in Nat /\ i > Len(s)
                /\ \E j \in DOMAIN t : (s \o t)[i] = t[j]
  <2>1. CASE i <= Len(s)
    BY <1>1, <2>1
  <2>2. CASE ~(i <= Len(s))
    <3>1. i \in Nat /\ i > Len(s) /\ i - Len(s) \in DOMAIN t /\ (s \o t)[i] = t[i - Len(s)]
      BY <1>1, <2>2
    <3> QED BY <3>1
  <2> QED BY <2>1, <2>2
<1> QED BY <1>1, <1>2, <1>3, <1>4

LEMMA Added ==
  ASSUME NEW S, NEW s \in Seq(S), NEW a \in S
  PROVE  /\ Append(s, a) \in Seq(S)
         /\ \A i \in DOMAIN Append(s, a) : \/ i \in DOMAIN s /\ Append(s, a)[i] = s[i]
                                           \/ Append(s, a)[i] = a
  OBVIOUS

LEMMA LogCallSet ==
  ASSUME NEW upTo
  PROVE  /\ StateDir!Call("create", "log", EmptyLog) \in LogCalls(upTo)
         /\ StateDir!Call("rename", "log", "backup") \in LogCalls(upTo)
         /\ StateDir!SyncDirectory \in LogCalls(upTo)
         /\ \A n \in LogNames : /\ StateDir!Call("sync", n, Torn) \in LogCalls(upTo)
                                /\ StateDir!Call("unlink", n, Torn) \in LogCalls(upTo)
         /\ \A n \in LogNames : \A log \in Logs(upTo) :
              log.size <= LogLimit => StateDir!Call("write", n, log) \in LogCalls(upTo)
  BY DEF LogCalls

LEMMA SequencesOf ==
  ASSUME NEW S
  PROVE  /\ <<>> \in Seq(S) /\ DOMAIN <<>> = {}
         /\ \A a \in S : <<a>> \in Seq(S) /\ DOMAIN <<a>> = {1} /\ <<a>>[1] = a
         /\ \A a \in S, b \in S : /\ <<a, b>> \in Seq(S) /\ DOMAIN <<a, b>> = {1, 2}
                                  /\ <<a, b>>[1] = a /\ <<a, b>>[2] = b
         /\ \A a \in S, b \in S, c \in S : /\ <<a, b, c>> \in Seq(S)
                                           /\ DOMAIN <<a, b, c>> = {1, 2, 3}
                                           /\ <<a, b, c>>[1] = a /\ <<a, b, c>>[2] = b
                                           /\ <<a, b, c>>[3] = c
  OBVIOUS

(* A step that leaves the files themselves alone.                            *)
LEMMA FilesStay ==
  ASSUME StateDirectoryOK, FilesAreClear, DictationsAreClear,
         stateFiles' = [stateFiles EXCEPT !.calls = stateFiles'.calls,
                                          !.outcome = stateFiles'.outcome],
         stateFiles'.outcome # "none" => stateFiles'.calls = <<>>
  PROVE  /\ StateDirectoryOK' /\ SizesFollow /\ LogSize' = LogSize
         /\ stateFiles'.dir = stateFiles.dir /\ stateFiles'.survivors = stateFiles.survivors
         /\ stateFiles'.data = stateFiles.data /\ stateFiles'.disk = stateFiles.disk
<1> DEFINE calls == stateFiles'.calls
           outcome == stateFiles'.outcome
<1>0. stateFiles' = [stateFiles EXCEPT !.calls = calls, !.outcome = outcome]
  OBVIOUS
<1> HIDE DEF calls, outcome
<1>1. PICK f : f = stateFiles'
  OBVIOUS
<1>2. f = [stateFiles EXCEPT !.calls = calls, !.outcome = outcome]
  BY <1>0, <1>1
<1>3. f = [dir |-> stateFiles.dir, survivors |-> stateFiles.survivors, data |-> stateFiles.data,
           disk |-> stateFiles.disk, calls |-> calls, outcome |-> outcome]
  BY <1>2 DEF StateDirectoryOK
<1>4. /\ f.dir = stateFiles.dir /\ f.survivors = stateFiles.survivors
      /\ f.data = stateFiles.data /\ f.disk = stateFiles.disk
      /\ f.calls = calls /\ f.outcome = outcome
  BY <1>3
<1>5. /\ stateFiles'.dir = stateFiles.dir /\ stateFiles'.survivors = stateFiles.survivors
      /\ stateFiles'.data = stateFiles.data /\ stateFiles'.disk = stateFiles.disk
  BY <1>1, <1>4
<1>6. StateDirectoryOK'
  BY <1>1, <1>3, <1>4, <1>5 DEF StateDirectoryOK, calls, outcome
<1>7. \A n \in LogNames : StateDir!Read(n, EmptyLog)' = StateDir!Read(n, EmptyLog)
  BY <1>5 DEF StateDir!Read, StateDir!Exists, StateDir!Contents
<1>8. SizesFollow
  BY <1>7, VisibleLogs DEF SizesFollow
<1> QED BY <1>5, <1>6, <1>7, <1>8 DEF LogSize, LogNames

(* The files of a log that is open can be described by what was in it.       *)
LEMMA CutCalls ==
  ASSUME StateDirectoryOK, FilesAreClear, DictationsAreClear, NEW n \in LogNames,
         StateDir!Exists(n)
  PROVE  /\ StateDir!Cut(n, LogLimit) \in Seq(LogCalls(cleared.upTo))
         /\ DOMAIN StateDir!Cut(n, LogLimit) = {1, 2}
         /\ StateDir!Cut(n, LogLimit)[1].call = "write"
         /\ StateDir!Cut(n, LogLimit)[1].file = n
         /\ StateDir!Cut(n, LogLimit)[2].call = "sync"
<1> DEFINE S == LogCalls(cleared.upTo)
           log == [StateDir!Contents(n) EXCEPT !.size = LogLimit]
           write == StateDir!Call("write", n, log)
           sync == StateDir!Call("sync", n, Torn)
<1>1. StateDir!Contents(n) \in Logs(cleared.upTo)
  BY DEF StateDir!Exists, StateDir!Contents, FilesAreClear
<1>2. log \in Logs(cleared.upTo) /\ log.size <= LogLimit
  BY <1>1, LogAssumption DEF Logs
<1> HIDE DEF log
<1>3. write \in S /\ sync \in S
  BY <1>2, LogCallSet
<1>4. write.call = "write" /\ write.file = n /\ sync.call = "sync"
  BY DEF StateDir!Call
<1>5. StateDir!Cut(n, LogLimit) = <<write, sync>>
  BY DEF StateDir!Cut, log
<1> HIDE DEF write, sync, S
<1>6. /\ <<write, sync>> \in Seq(S) /\ DOMAIN <<write, sync>> = {1, 2}
      /\ <<write, sync>>[1] = write /\ <<write, sync>>[2] = sync
  BY <1>3, SequencesOf
<1> QED BY <1>4, <1>5, <1>6 DEF S

(* The backup is cut and the log opened before anything else.                *)
LEMMA LogPrepared ==
  ASSUME StateDirectoryOK, FilesAreClear, DictationsAreClear
  PROVE  LET calls == StateDir!Cap("backup", LogLimit) \o StateDir!OpenAppend("log", EmptyLog)
         IN /\ calls \in Seq(LogCalls(cleared.upTo))
            /\ \A i \in DOMAIN calls : calls[i].call # "rename"
<1> DEFINE S == LogCalls(cleared.upTo)
           cut == StateDir!Cut("backup", LogLimit)
           cap == StateDir!Cap("backup", LogLimit)
           open == StateDir!OpenAppend("log", EmptyLog)
<1>1. cap \in Seq(S) /\ \A i \in DOMAIN cap : cap[i].call # "rename"
  <2>1. CASE ~(StateDir!Exists("backup") /\ StateDir!Contents("backup").size > LogLimit)
    <3>1. cap = <<>>
      BY <2>1 DEF StateDir!Cap
    <3> HIDE DEF cap, S
    <3> QED BY <3>1, SequencesOf
  <2>2. CASE StateDir!Exists("backup") /\ StateDir!Contents("backup").size > LogLimit
    <3>1. cap = Append(cut, StateDir!SyncDirectory)
      BY <2>2 DEF StateDir!Cap
    <3>2. /\ cut \in Seq(S) /\ DOMAIN cut = {1, 2}
          /\ cut[1].call = "write" /\ cut[2].call = "sync"
      BY <2>2, CutCalls DEF LogNames
    <3>3. StateDir!SyncDirectory \in S /\ StateDir!SyncDirectory.call = "syncdir"
      BY LogCallSet DEF StateDir!SyncDirectory, StateDir!Call
    <3> HIDE DEF cap, cut, S
    <3>4. /\ cap \in Seq(S)
          /\ \A i \in DOMAIN cap : \/ i \in DOMAIN cut /\ cap[i] = cut[i]
                                   \/ cap[i] = StateDir!SyncDirectory
      BY <3>1, <3>2, <3>3, Added
    <3> QED BY <3>2, <3>3, <3>4
  <2> QED BY <2>1, <2>2
<1>2. open \in Seq(S) /\ \A i \in DOMAIN open : open[i].call # "rename"
  <2>1. CASE StateDir!Exists("log")
    <3>1. open = <<>>
      BY <2>1 DEF StateDir!OpenAppend
    <3> HIDE DEF open, S
    <3> QED BY <3>1, SequencesOf
  <2>2. CASE ~StateDir!Exists("log")
    <3> DEFINE create == StateDir!Call("create", "log", EmptyLog)
    <3>1. open = <<create>>
      BY <2>2 DEF StateDir!OpenAppend
    <3>2. create \in S /\ create.call = "create"
      BY LogCallSet DEF StateDir!Call
    <3> HIDE DEF open, create, S
    <3>3. /\ <<create>> \in Seq(S) /\ DOMAIN <<create>> = {1} /\ <<create>>[1] = create
      BY <3>2, SequencesOf
    <3> QED BY <3>1, <3>2, <3>3
  <2> QED BY <2>1, <2>2
<1> HIDE DEF cap, open, S
<1>3. /\ cap \o open \in Seq(S)
      /\ \A i \in DOMAIN (cap \o open) :
           \/ i \in DOMAIN cap /\ (cap \o open)[i] = cap[i]
           \/ \E j \in DOMAIN open : (cap \o open)[i] = open[j]
  BY <1>1, <1>2, Joined
<1>4. \A i \in DOMAIN (cap \o open) : (cap \o open)[i].call # "rename"
  BY <1>1, <1>2, <1>3
<1> QED BY <1>3, <1>4 DEF cap, open, S

(* The calls of append_debug_log.                                            *)
LEMMA AppendingCalls ==
  ASSUME StateDirectoryOK, FilesAreClear, DictationsAreClear,
         NEW entry, entry.of \in Nat, entry.of > cleared.upTo, entry.size \in EntrySizes
  PROVE  /\ AppendCalls(entry) \in Seq(LogCalls(cleared.upTo))
         /\ \A i \in DOMAIN AppendCalls(entry) : AppendCalls(entry)[i].call = "rename" =>
              \/ LogSize <= LogLimit
              \/ \E j \in DOMAIN AppendCalls(entry) :
                   /\ j < i /\ AppendCalls(entry)[j].call = "write"
                   /\ AppendCalls(entry)[j].file = "log"
<1> DEFINE S == LogCalls(cleared.upTo)
           log == StateDir!Read("log", EmptyLog)
           current == IF log.size > LogLimit THEN LogLimit ELSE log.size
           rotates == Rotates(current, entry)
           before == IF rotates THEN EmptyLog ELSE [log EXCEPT !.size = current]
           after == [size |-> before.size + entry.size, of |-> before.of \cup {entry.of}]
           open == StateDir!Cap("backup", LogLimit) \o StateDir!OpenAppend("log", EmptyLog)
           cut == IF log.size > LogLimit THEN StateDir!Cut("log", LogLimit) ELSE <<>>
           create == StateDir!Call("create", "log", EmptyLog)
           rename == StateDir!Call("rename", "log", "backup")
           rotate == IF rotates THEN StateDir!Rotate("log", "backup") \o <<create>> ELSE <<>>
           write == StateDir!Call("write", "log", after)
           sync == StateDir!Call("sync", "log", Torn)
<1>1. AppendCalls(entry) = open \o cut \o rotate \o <<write, sync>>
  BY DEF AppendCalls
<1>2. open \in Seq(S) /\ \A i \in DOMAIN open : open[i].call # "rename"
  BY LogPrepared
<1>3. /\ cut \in Seq(S) /\ \A i \in DOMAIN cut : cut[i].call # "rename"
      /\ log.size > LogLimit =>
           1 \in DOMAIN cut /\ cut[1].call = "write" /\ cut[1].file = "log"
  <2>1. CASE log.size > LogLimit
    <3>1. StateDir!Exists("log")
      BY <2>1, LogsOf, LogAssumption DEF StateDir!Read, EmptyLog
    <3>2. cut = StateDir!Cut("log", LogLimit)
      BY <2>1
    <3> QED BY <3>1, <3>2, CutCalls DEF LogNames
  <2>2. CASE ~(log.size > LogLimit)
    <3>1. cut = <<>>
      BY <2>2
    <3> HIDE DEF cut, S
    <3> QED BY <2>2, <3>1, SequencesOf
  <2> QED BY <2>1, <2>2
<1>4. rotate \in Seq(S)
  <2>1. create \in S /\ rename \in S /\ StateDir!SyncDirectory \in S
    BY LogCallSet
  <2>2. StateDir!Rotate("log", "backup") = <<rename, StateDir!SyncDirectory>>
    BY DEF StateDir!Rotate
  <2> HIDE DEF create, rename, S, rotates
  <2>3. rotate = IF rotates THEN <<rename, StateDir!SyncDirectory>> \o <<create>> ELSE <<>>
    BY <2>2
  <2>4. <<rename, StateDir!SyncDirectory>> \in Seq(S) /\ <<create>> \in Seq(S) /\ <<>> \in Seq(S)
    BY <2>1, SequencesOf
  <2> HIDE DEF rotate
  <2> QED BY <2>3, <2>4, Joined
<1>5. /\ log \in Logs(cleared.upTo) /\ log.size \in Nat
      /\ log.of \subseteq {g \in Nat : g > cleared.upTo}
  BY VisibleLogs DEF LogNames, Logs
<1>6. after \in Logs(cleared.upTo) /\ after.size <= LogLimit
  <2>1. current \in Nat /\ current <= LogLimit
    <3> HIDE DEF log
    <3> QED BY <1>5, LogAssumption
  <2>2. entry.size \in Nat /\ entry.size <= LogLimit /\ LogLimit \in Nat
    <3>1. \A k \in EntrySizes : k \in Nat /\ k <= LogLimit
      BY LogAssumption
    <3> QED BY <3>1, LogAssumption
  <2>3. rotates <=> (current > 0 /\ current + entry.size > LogLimit)
    BY DEF Rotates
  <2>4. /\ before.size = IF rotates THEN 0 ELSE current
        /\ before.of \subseteq {g \in Nat : g > cleared.upTo}
    <3> HIDE DEF log, current, rotates
    <3>1. CASE rotates
      BY <3>1 DEF EmptyLog
    <3>2. CASE ~rotates
      <4>1. before = [log EXCEPT !.size = current]
        BY <3>2
      <4>2. before.size = current /\ before.of = log.of
        <5> HIDE DEF before
        <5> QED BY <1>5, <4>1 DEF Logs
      <4> QED BY <1>5, <3>2, <4>2
    <3> QED BY <3>1, <3>2
  <2> HIDE DEF log, current, rotates, before
  <2>5. before.size + entry.size \in Nat /\ before.size + entry.size <= LogLimit
    BY <2>1, <2>2, <2>3, <2>4
  <2>6. before.of \cup {entry.of} \in SUBSET {g \in Nat : g > cleared.upTo}
    BY <2>4
  <2> QED BY <2>5, <2>6 DEF Logs
<1>7. <<write, sync>> \in Seq(S) /\ write.call # "rename" /\ sync.call # "rename"
      /\ DOMAIN <<write, sync>> = {1, 2}
      /\ <<write, sync>>[1] = write /\ <<write, sync>>[2] = sync
  <2> HIDE DEF after
  <2>1. write \in S /\ sync \in S
    BY <1>6, LogCallSet DEF LogNames
  <2>2. write.call # "rename" /\ sync.call # "rename"
    BY DEF StateDir!Call
  <2> HIDE DEF write, sync, S
  <2> QED BY <2>1, <2>2, SequencesOf
<1> HIDE DEF open, cut, rotate, write, sync, S, log
<1> DEFINE opened == open \o cut
           rotated == opened \o rotate
           calls == rotated \o <<write, sync>>
<1>8. /\ opened \in Seq(S) /\ \A i \in DOMAIN opened : opened[i].call # "rename"
      /\ log.size > LogLimit =>
           \E j \in DOMAIN opened : opened[j].call = "write" /\ opened[j].file = "log"
  <2>1. /\ opened \in Seq(S)
        /\ \A i \in DOMAIN opened : \/ i \in DOMAIN open /\ opened[i] = open[i]
                                    \/ \E j \in DOMAIN cut : opened[i] = cut[j]
    <3>1. open \in Seq(S) /\ cut \in Seq(S)
      BY <1>2, <1>3
    <3> QED BY <3>1, Joined
  <2>2. \A i \in DOMAIN cut :
          Len(open) + i \in DOMAIN opened /\ opened[Len(open) + i] = cut[i]
    BY <1>2, <1>3, Joined
  <2> HIDE DEF opened
  <2>3. ASSUME log.size > LogLimit
        PROVE  \E j \in DOMAIN opened : opened[j].call = "write" /\ opened[j].file = "log"
    BY <1>3, <2>2, <2>3
  <2> QED BY <1>2, <1>3, <2>1, <2>3
<1> HIDE DEF opened
<1>9. /\ rotated \in Seq(S)
      /\ \A i \in DOMAIN opened : i \in DOMAIN rotated /\ rotated[i] = opened[i]
                                  /\ i \in Nat /\ i <= Len(opened)
      /\ \A i \in DOMAIN rotated : \/ i \in DOMAIN opened /\ rotated[i] = opened[i]
                                   \/ i \in Nat /\ i > Len(opened)
      /\ Len(opened) \in Nat
  BY <1>4, <1>8, Joined
<1> HIDE DEF rotated
<1>10. /\ calls \in Seq(S)
       /\ \A i \in DOMAIN rotated : i \in DOMAIN calls /\ calls[i] = rotated[i]
       /\ \A i \in DOMAIN calls : \/ i \in DOMAIN rotated /\ calls[i] = rotated[i]
                                  \/ \E j \in DOMAIN <<write, sync>> : calls[i] = <<write, sync>>[j]
  BY <1>7, <1>9, Joined
<1> HIDE DEF calls
<1>11. ASSUME NEW i \in DOMAIN calls, calls[i].call = "rename", log.size > LogLimit
       PROVE  \E j \in DOMAIN calls :
                j < i /\ calls[j].call = "write" /\ calls[j].file = "log"
  <2>1. i \in DOMAIN rotated /\ rotated[i].call = "rename"
    BY <1>7, <1>10, <1>11
  <2>2. i \in Nat /\ i > Len(opened)
    BY <1>8, <1>9, <2>1
  <2>3. PICK j \in DOMAIN opened : opened[j].call = "write" /\ opened[j].file = "log"
    BY <1>8, <1>11
  <2>4. j \in DOMAIN calls /\ calls[j] = opened[j] /\ j < i
    BY <1>9, <1>10, <2>2
  <2> QED BY <2>3, <2>4
<1>12. calls = AppendCalls(entry)
  BY <1>1 DEF calls, rotated, opened
<1>13. log.size = LogSize /\ log.size \in Nat /\ LogLimit \in Nat
  BY <1>5, LogAssumption DEF log, LogSize
<1> QED BY <1>10, <1>11, <1>12, <1>13 DEF S

LEMMA LogFunctionBegins ==
  ASSUME StateDirectoryOK, FilesAreClear, DictationsAreClear, UNCHANGED cleared,
         NEW calls \in Seq(LogCalls(cleared.upTo)), StateDir!Begin(calls)
  PROVE  /\ StateDirectoryOK' /\ FilesAreClear' /\ CallsAreClear' /\ SizesFollow
         /\ LogSize' = LogSize /\ stateFiles'.calls = calls /\ stateFiles'.dir = stateFiles.dir
<1> DEFINE outcome == IF calls = <<>> THEN "ok" ELSE "none"
<1>1. PICK f : f = [stateFiles EXCEPT !.calls = calls, !.outcome = outcome] /\ stateFiles' = f
  BY DEF StateDir!Begin, StateDir!Returning
<1>2. f = [dir |-> stateFiles.dir, survivors |-> stateFiles.survivors, data |-> stateFiles.data,
           disk |-> stateFiles.disk, calls |-> calls, outcome |-> outcome]
  <2> HIDE DEF outcome
  <2> QED BY <1>1 DEF StateDirectoryOK
<1>3. f.calls = calls /\ f.outcome = outcome
  BY <1>2
<1> HIDE DEF outcome
<1>4. f = [stateFiles EXCEPT !.calls = f.calls, !.outcome = f.outcome]
  BY <1>1, <1>3
<1>5. /\ stateFiles' = [stateFiles EXCEPT !.calls = stateFiles'.calls,
                                          !.outcome = stateFiles'.outcome]
      /\ stateFiles'.outcome # "none" => stateFiles'.calls = <<>>
      /\ stateFiles'.calls = calls
  BY <1>1, <1>3, <1>4 DEF outcome
<1>6. /\ StateDirectoryOK' /\ SizesFollow /\ LogSize' = LogSize
      /\ stateFiles'.dir = stateFiles.dir /\ stateFiles'.survivors = stateFiles.survivors
      /\ stateFiles'.data = stateFiles.data /\ stateFiles'.disk = stateFiles.disk
  BY <1>5, FilesStay
<1>7. FilesAreClear' /\ CallsAreClear'
  BY <1>5, <1>6 DEF FilesAreClear, CallsAreClear, LastingUpTo
<1> QED BY <1>5, <1>6, <1>7

(* The calls of clear_debug_logs unlink what is there.                       *)
LEMMA ClearingCalls ==
  ASSUME StateDirectoryOK, NEW upTo
  PROVE  /\ ClearCalls \in Seq(LogCalls(upTo))
         /\ \A i \in DOMAIN ClearCalls : ClearCalls[i].call \in {"unlink", "syncdir"}
         /\ \A n \in LogNames : \/ stateFiles.dir[n] = None
                                \/ \E i \in DOMAIN ClearCalls :
                                     ClearCalls[i] = StateDir!Call("unlink", n, Torn)
<1> DEFINE S == LogCalls(upTo)
<1>1. ASSUME NEW n \in LogNames
      PROVE  /\ StateDir!Remove(n) \in Seq(S)
             /\ \A i \in DOMAIN StateDir!Remove(n) :
                  StateDir!Remove(n)[i].call \in {"unlink", "syncdir"}
             /\ \/ stateFiles.dir[n] = None
                \/ \E i \in DOMAIN StateDir!Remove(n) :
                     StateDir!Remove(n)[i] = StateDir!Call("unlink", n, Torn)
  <2> DEFINE unlink == StateDir!Call("unlink", n, Torn)
             sync == StateDir!SyncDirectory
             calls == StateDir!Remove(n)
  <2>1. CASE StateDir!Exists(n)
    <3>1. calls = <<unlink, sync>>
      BY <2>1 DEF StateDir!Remove
    <3>2. unlink \in S /\ sync \in S
      BY LogCallSet
    <3>3. unlink.call = "unlink" /\ sync.call = "syncdir"
      BY DEF StateDir!Call, StateDir!SyncDirectory
    <3> HIDE DEF unlink, sync, calls, S
    <3>4. /\ <<unlink, sync>> \in Seq(S) /\ DOMAIN <<unlink, sync>> = {1, 2}
          /\ <<unlink, sync>>[1] = unlink /\ <<unlink, sync>>[2] = sync
      BY <3>2, SequencesOf
    <3>5. /\ calls \in Seq(S) /\ \A i \in DOMAIN calls : calls[i].call \in {"unlink", "syncdir"}
          /\ \E i \in DOMAIN calls : calls[i] = unlink
      BY <3>1, <3>3, <3>4
    <3> QED BY <3>5 DEF calls, unlink
  <2>2. CASE ~StateDir!Exists(n)
    <3>1. calls = <<>> /\ stateFiles.dir[n] = None
      BY <2>2 DEF StateDir!Remove, StateDir!Exists
    <3> HIDE DEF calls, S
    <3>2. calls \in Seq(S) /\ DOMAIN calls = {}
      BY <3>1, SequencesOf
    <3> QED BY <3>1, <3>2 DEF calls
  <2> QED BY <2>1, <2>2
<1> DEFINE log == StateDir!Remove("log")
           backup == StateDir!Remove("backup")
<1>2. /\ log \in Seq(S) /\ backup \in Seq(S)
      /\ \A i \in DOMAIN log : log[i].call \in {"unlink", "syncdir"}
      /\ \A i \in DOMAIN backup : backup[i].call \in {"unlink", "syncdir"}
      /\ stateFiles.dir["log"] # None =>
           \E i \in DOMAIN log : log[i] = StateDir!Call("unlink", "log", Torn)
      /\ stateFiles.dir["backup"] # None =>
           \E i \in DOMAIN backup : backup[i] = StateDir!Call("unlink", "backup", Torn)
  BY <1>1 DEF LogNames
<1>3. ClearCalls = log \o backup
  BY DEF ClearCalls
<1> HIDE DEF log, backup, S
<1>4. /\ ClearCalls \in Seq(S)
      /\ \A i \in DOMAIN log : i \in DOMAIN ClearCalls /\ ClearCalls[i] = log[i]
      /\ \A i \in DOMAIN backup :
           Len(log) + i \in DOMAIN ClearCalls /\ ClearCalls[Len(log) + i] = backup[i]
      /\ \A i \in DOMAIN ClearCalls :
           \/ i \in DOMAIN log /\ ClearCalls[i] = log[i]
           \/ \E j \in DOMAIN backup : ClearCalls[i] = backup[j]
  <2>1. log \in Seq(S) /\ backup \in Seq(S)
    BY <1>2
  <2> QED BY <1>3, <2>1, Joined
<1>5. \A i \in DOMAIN ClearCalls : ClearCalls[i].call \in {"unlink", "syncdir"}
  BY <1>2, <1>4
<1>6. /\ stateFiles.dir["log"] # None =>
           \E i \in DOMAIN ClearCalls : ClearCalls[i] = StateDir!Call("unlink", "log", Torn)
      /\ stateFiles.dir["backup"] # None =>
           \E i \in DOMAIN ClearCalls : ClearCalls[i] = StateDir!Call("unlink", "backup", Torn)
  BY <1>2, <1>4
<1> QED BY <1>4, <1>5, <1>6 DEF S, LogNames

LEMMA LogBegins ==
  ASSUME LogFiles, DictationsAreClear, QueueIsClear, TypeOK, QueueTakes
  PROVE  LogFiles' /\ SizesFollow
<1>0. /\ StateDirectoryOK /\ FilesAreClear /\ queue # <<>> /\ UNCHANGED <<queue, cleared>>
      /\ StateDir!Begin(IF Head(queue).kind = "append" THEN AppendCalls(Head(queue))
                                                       ELSE ClearCalls)
  BY DEF LogFiles, QueueTakes
<1>1. /\ queue \in Seq(QueueEntry(generation)) /\ generation \in Nat
      /\ 1 \in DOMAIN queue /\ Head(queue) = queue[1] /\ Head(queue) \in QueueEntry(generation)
  <2>1. queue \in Seq(QueueEntry(generation)) /\ generation \in Nat
    BY DEF TypeOK, QueueEntry
  <2> QED BY <1>0, <2>1
<1>2. CASE Head(queue).kind = "append"
  <2> DEFINE entry == Head(queue)
             calls == AppendCalls(Head(queue))
  <2>1. entry.of \in Nat /\ entry.size \in EntrySizes
    BY <1>1, <1>2 DEF QueueEntry
  <2>2. entry.of > cleared.upTo
    BY <1>1, <1>2 DEF QueueIsClear
  <2>3. /\ calls \in Seq(LogCalls(cleared.upTo))
        /\ \A i \in DOMAIN calls : calls[i].call = "rename" =>
              \/ LogSize <= LogLimit
              \/ \E j \in DOMAIN calls :
                   j < i /\ calls[j].call = "write" /\ calls[j].file = "log"
    BY <1>0, <2>1, <2>2, AppendingCalls
  <2>4. StateDir!Begin(calls)
    BY <1>0, <1>2
  <2> HIDE DEF calls
  <2>5. /\ StateDirectoryOK' /\ FilesAreClear' /\ CallsAreClear' /\ SizesFollow
        /\ LogSize' = LogSize /\ stateFiles'.calls = calls
    BY <1>0, <2>3, <2>4, LogFunctionBegins
  <2>6. CutBeforeRotation'
    BY <2>3, <2>5 DEF CutBeforeRotation
  <2>7. ClearUnderWay'
    BY <1>0, <1>2 DEF ClearUnderWay
  <2> QED BY <2>5, <2>6, <2>7 DEF LogFiles
<1>3. CASE Head(queue).kind # "append"
  <2> DEFINE calls == ClearCalls
  <2>1. /\ calls \in Seq(LogCalls(cleared.upTo))
        /\ \A i \in DOMAIN calls : calls[i].call \in {"unlink", "syncdir"}
        /\ \A n \in LogNames : \/ stateFiles.dir[n] = None
                               \/ \E i \in DOMAIN calls :
                                    calls[i] = StateDir!Call("unlink", n, Torn)
    BY <1>0, ClearingCalls
  <2>2. StateDir!Begin(calls)
    BY <1>0, <1>3
  <2> HIDE DEF calls
  <2>3. /\ StateDirectoryOK' /\ FilesAreClear' /\ CallsAreClear' /\ SizesFollow
        /\ stateFiles'.calls = calls /\ stateFiles'.dir = stateFiles.dir
    BY <1>0, <2>1, <2>2, LogFunctionBegins
  <2>4. CutBeforeRotation'
    BY <2>1, <2>3 DEF CutBeforeRotation
  <2>5. ClearUnderWay'
    BY <2>1, <2>3 DEF ClearUnderWay
  <2> QED BY <2>3, <2>4, <2>5 DEF LogFiles
<1> QED BY <1>2, <1>3
-----------------------------------------------------------------------------
(* The steps of the daemon.                                                  *)
LEMMA LogsStay ==
  ASSUME LogFiles, DictationsAreClear, UNCHANGED <<stateFiles, cleared>>,
         UNCHANGED queue \/ StateDir!Idle
  PROVE  LogFiles' /\ SizesFollow
<1>1. StateDirectoryOK /\ FilesAreClear /\ CallsAreClear /\ CutBeforeRotation /\ ClearUnderWay
  BY DEF LogFiles
<1>2. StateDirectoryOK' /\ FilesAreClear' /\ CallsAreClear'
  BY <1>1 DEF StateDirectoryOK, FilesAreClear, CallsAreClear, LastingUpTo
<1>3. CutBeforeRotation'
  BY <1>1 DEF CutBeforeRotation, LogSize, StateDir!Read, StateDir!Exists, StateDir!Contents
<1>4. ClearUnderWay'
  BY <1>1 DEF ClearUnderWay, StateDir!Idle
<1>5. \A n \in LogNames : StateDir!Read(n, EmptyLog)' = StateDir!Read(n, EmptyLog)
  BY DEF StateDir!Read, StateDir!Exists, StateDir!Contents
<1>6. SizesFollow
  BY <1>1, <1>5, VisibleLogs DEF SizesFollow
<1> QED BY <1>2, <1>3, <1>4, <1>6 DEF LogFiles

LEMMA LogResultTaken ==
  ASSUME LogFiles, DictationsAreClear, NEW result \in {"ok", "failed"}, StateDir!Take(result)
  PROVE  /\ StateDirectoryOK' /\ SizesFollow /\ StateDir!Idle'
         /\ CallsAreClear' /\ CutBeforeRotation' /\ ClearUnderWay'
         /\ stateFiles'.dir = stateFiles.dir /\ stateFiles'.survivors = stateFiles.survivors
         /\ stateFiles'.data = stateFiles.data /\ stateFiles'.disk = stateFiles.disk
<1>0. StateDirectoryOK /\ FilesAreClear /\ stateFiles.calls = <<>>
  BY DEF LogFiles, StateDir!Take
<1>1. PICK f : f = [stateFiles EXCEPT !.outcome = "none"] /\ stateFiles' = f
  BY DEF StateDir!Take
<1>2. f = [dir |-> stateFiles.dir, survivors |-> stateFiles.survivors, data |-> stateFiles.data,
           disk |-> stateFiles.disk, calls |-> <<>>, outcome |-> "none"]
  BY <1>0, <1>1 DEF StateDirectoryOK
<1>3. f.calls = <<>> /\ f.outcome = "none"
  BY <1>2
<1>4. f = [stateFiles EXCEPT !.calls = f.calls, !.outcome = f.outcome]
  <2>1. PICK g : g = [stateFiles EXCEPT !.calls = f.calls, !.outcome = f.outcome]
    OBVIOUS
  <2>2. g = [dir |-> stateFiles.dir, survivors |-> stateFiles.survivors,
             data |-> stateFiles.data, disk |-> stateFiles.disk,
             calls |-> f.calls, outcome |-> f.outcome]
    BY <1>0, <2>1 DEF StateDirectoryOK
  <2>3. g = f
    BY <1>2, <1>3, <2>2
  <2> QED BY <2>1, <2>3
<1>5. /\ StateDirectoryOK' /\ SizesFollow /\ LogSize' = LogSize
      /\ stateFiles'.dir = stateFiles.dir /\ stateFiles'.survivors = stateFiles.survivors
      /\ stateFiles'.data = stateFiles.data /\ stateFiles'.disk = stateFiles.disk
  <2>1. /\ stateFiles' = [stateFiles EXCEPT !.calls = stateFiles'.calls,
                                            !.outcome = stateFiles'.outcome]
        /\ stateFiles'.outcome # "none" => stateFiles'.calls = <<>>
    BY <1>1, <1>3, <1>4
  <2> QED BY <1>0, <2>1, FilesStay
<1>6. stateFiles'.calls = <<>> /\ stateFiles'.outcome = "none"
  BY <1>1, <1>3
<1>7. StateDir!Idle' /\ CallsAreClear' /\ CutBeforeRotation' /\ ClearUnderWay'
  BY <1>6 DEF StateDir!Idle, CallsAreClear, CutBeforeRotation, ClearUnderWay
<1> QED BY <1>5, <1>7

(* The queue loses its head.                                                 *)
LEMMA QueueServed ==
  ASSUME QueueIsClear, TypeOK, queue # <<>>, queue' = Tail(queue)
  PROVE  /\ \A i \in DOMAIN queue' : queue'[i].kind = "append" => queue'[i].of > cleared.upTo
         /\ \A i \in DOMAIN queue' : queue'[i].kind = "clear" => i = Len(queue')
         /\ Head(queue) = queue[1] /\ 1 \in DOMAIN queue
         /\ Head(queue).kind = "clear" => queue' = <<>>
<1> DEFINE S == QueueEntry(generation)
<1>1. queue \in Seq(S)
  BY DEF TypeOK, QueueEntry
<1> HIDE DEF S
<1>2. /\ Len(queue) \in Nat /\ Len(queue) >= 1 /\ Len(queue') = Len(queue) - 1
      /\ Head(queue) = queue[1] /\ 1 \in DOMAIN queue
      /\ \A i \in DOMAIN queue' : /\ i \in Nat /\ i + 1 \in DOMAIN queue
                                  /\ queue'[i] = queue[i + 1]
  BY <1>1
<1>3. /\ \A i \in DOMAIN queue : queue[i].kind = "append" => queue[i].of > cleared.upTo
      /\ \A i \in DOMAIN queue : queue[i].kind = "clear" => i = Len(queue)
  BY DEF QueueIsClear
<1>4. \A i \in DOMAIN queue' : queue'[i].kind = "clear" => i = Len(queue')
  <2> SUFFICES ASSUME NEW i \in DOMAIN queue', queue'[i].kind = "clear"
               PROVE  i = Len(queue')
    OBVIOUS
  <2>1. i \in Nat /\ i + 1 = Len(queue)
    BY <1>2, <1>3
  <2> QED BY <1>2, <2>1
<1>5. Head(queue).kind = "clear" => queue' = <<>>
  <2>1. Head(queue).kind = "clear" => Len(queue) = 1
    BY <1>2, <1>3
  <2> QED BY <1>1, <2>1
<1> QED BY <1>2, <1>3, <1>4, <1>5

LEMMA LoggingAppended ==
  ASSUME Logging, TypeOK, Appended
  PROVE  Logging' /\ SizesFollow
<1>0. LogFiles /\ QueueIsClear /\ DictationsAreClear /\ FilesAreClear
  BY DEF Logging, LogFiles
<1>1. PICK result \in {"ok", "failed"} : StateDir!Take(result)
  BY DEF Appended
<1>2. /\ StateDirectoryOK' /\ SizesFollow /\ StateDir!Idle'
      /\ CallsAreClear' /\ CutBeforeRotation' /\ ClearUnderWay'
      /\ stateFiles'.dir = stateFiles.dir /\ stateFiles'.survivors = stateFiles.survivors
      /\ stateFiles'.data = stateFiles.data /\ stateFiles'.disk = stateFiles.disk
  BY <1>0, <1>1, LogResultTaken
<1>3. /\ UNCHANGED <<cleared, lastEntry, generation, command>>
      /\ queue # <<>> /\ queue' = Tail(queue)
      /\ activity' = activity \/ (activity = "persisting" /\ activity' = "written")
  BY DEF Appended
<1>4. FilesAreClear'
  BY <1>0, <1>2, <1>3 DEF FilesAreClear, LastingUpTo
<1>5. QueueIsClear'
  BY <1>0, <1>2, <1>3, QueueServed DEF QueueIsClear
<1>6. DictationsAreClear'
  BY <1>0, <1>3 DEF DictationsAreClear
<1> QED BY <1>2, <1>4, <1>5, <1>6 DEF Logging, LogFiles

(* The clear was the last in the queue, and both logs are gone.              *)
LEMMA LoggingCleared ==
  ASSUME Logging, TypeOK, ClearAwaited, DebugCleared \/ ClearFailed
  PROVE  Logging' /\ SizesFollow
<1>0. LogFiles /\ QueueIsClear /\ DictationsAreClear /\ FilesAreClear /\ ClearUnderWay
  BY DEF Logging, LogFiles
<1>1. PICK result \in {"ok", "failed"} :
        /\ StateDir!Take(result)
        /\ result = "ok" <=> DebugCleared
  BY DEF DebugCleared, ClearFailed, StateDir!Take
<1>2. /\ StateDirectoryOK' /\ SizesFollow /\ StateDir!Idle'
      /\ CallsAreClear' /\ CutBeforeRotation' /\ ClearUnderWay'
      /\ stateFiles'.dir = stateFiles.dir /\ stateFiles'.survivors = stateFiles.survivors
      /\ stateFiles'.data = stateFiles.data /\ stateFiles'.disk = stateFiles.disk
  BY <1>0, <1>1, LogResultTaken
<1>3. /\ queue # <<>> /\ Head(queue).kind = "clear" /\ queue' = Tail(queue)
      /\ command' = NoCommand /\ UNCHANGED <<activity, generation>>
  BY DEF DebugCleared, ClearFailed, dictationVars
<1>4. queue' = <<>> /\ Head(queue) = queue[1] /\ 1 \in DOMAIN queue
  BY <1>0, <1>3, QueueServed
<1>5. QueueIsClear'
  BY <1>2, <1>3, <1>4 DEF QueueIsClear, NoCommand
<1>6. activity = "none"
  BY <1>0, <1>3, <1>4 DEF ClearAwaited, QueueIsClear
<1>7. CASE DebugCleared
  <2>1. /\ lastEntry' = 0
        /\ cleared' = [upTo |-> generation, lasting |-> stateFiles.survivors = {stateFiles.dir}]
    BY <1>7 DEF DebugCleared
  <2>2. \A n \in LogNames : stateFiles.dir[n] = None
    <3>1. stateFiles.calls = <<>> /\ stateFiles.outcome = "ok"
      BY <1>7 DEF DebugCleared, StateDir!Take
    <3> QED BY <1>0, <1>3, <3>1 DEF ClearUnderWay, StateDir!Idle
  <2>3. /\ cleared'.upTo = generation
        /\ cleared'.lasting <=> stateFiles.survivors = {stateFiles.dir}
    BY <2>1
  <2>4. \A d \in stateFiles.survivors, n \in LogNames : d[n] # None =>
          /\ stateFiles.data[d[n]] \in Logs(LastingUpTo')
          /\ stateFiles.disk[d[n]] \in Logs(LastingUpTo')
    <3>1. CASE stateFiles.survivors = {stateFiles.dir}
      BY <2>2, <3>1
    <3>2. CASE stateFiles.survivors # {stateFiles.dir}
      <4>1. LastingUpTo' = -1
        BY <2>3, <3>2 DEF LastingUpTo
      <4>2. Logs(LastingUpTo) \subseteq Logs(-1)
        BY <1>0, LastingIsLess
      <4> QED BY <1>0, <4>1, <4>2 DEF FilesAreClear
    <3> QED BY <3>1, <3>2
  <2>5. FilesAreClear'
    BY <1>2, <2>2, <2>4 DEF FilesAreClear
  <2>6. DictationsAreClear'
    <3>1. generation \in Nat
      BY DEF TypeOK
    <3>2. cleared' \in Clears
      BY <2>1, <3>1 DEF Clears
    <3> QED BY <1>3, <1>6, <2>1, <2>3, <3>1, <3>2 DEF DictationsAreClear
  <2> QED BY <1>2, <1>5, <2>5, <2>6 DEF Logging, LogFiles
<1>8. CASE ClearFailed
  <2>1. UNCHANGED <<cleared, lastEntry>>
    BY <1>8 DEF ClearFailed
  <2>2. FilesAreClear'
    BY <1>0, <1>2, <2>1 DEF FilesAreClear, LastingUpTo
  <2>3. DictationsAreClear'
    BY <1>0, <1>3, <2>1 DEF DictationsAreClear
  <2> QED BY <1>2, <1>5, <2>2, <2>3 DEF Logging, LogFiles
<1> QED BY <1>7, <1>8

(* The queue grows: by an entry of this dictation, or by a clear.            *)
LEMMA QueueGrows ==
  ASSUME QueueIsClear, TypeOK, ClearAwaited, command.kind # "clear",
         NEW entry \in QueueEntry(generation), queue' = Append(queue, entry),
         entry.kind = "append" => entry.of > cleared.upTo
  PROVE  /\ queue' # <<>>
         /\ \A i \in DOMAIN queue' : queue'[i].kind = "append" => queue'[i].of > cleared.upTo
         /\ \A i \in DOMAIN queue' : queue'[i].kind = "clear" => i = Len(queue')
         /\ queue # <<>> => Head(queue') = Head(queue)
<1> DEFINE S == QueueEntry(generation)
<1>1. queue \in Seq(S)
  BY DEF TypeOK, QueueEntry
<1>2. \A i \in DOMAIN queue : queue[i].kind # "clear"
  BY DEF ClearAwaited
<1> HIDE DEF S
<1>3. /\ \A i \in DOMAIN queue' : \/ i \in DOMAIN queue /\ queue'[i] = queue[i]
                                  \/ queue'[i] = entry /\ i = Len(queue')
      /\ queue' # <<>>
      /\ queue # <<>> => Head(queue') = Head(queue)
  BY <1>1
<1> QED BY <1>2, <1>3 DEF QueueIsClear

LEMMA LoggingQueued ==
  ASSUME Logging, TypeOK, Counting, ClearAwaited,
         ClearDebug \/ \E size \in EntrySizes : Persist(size)
  PROVE  Logging' /\ SizesFollow
<1>0. LogFiles /\ QueueIsClear /\ DictationsAreClear /\ ClearUnderWay
  BY DEF Logging, LogFiles
<1>1. PICK entry \in QueueEntry(generation) :
        /\ queue' = Append(queue, entry)
        /\ entry.kind = "append" => entry.of > cleared.upTo
        /\ command.kind # "clear"
        /\ UNCHANGED <<stateFiles, cleared, lastEntry, generation>>
        /\ \/ activity' = "none" /\ activity = "none"
           \/ activity # "none" /\ command' = command
  <2>1. CASE ClearDebug
    <3>1. [kind |-> "clear"] \in QueueEntry(generation)
      BY DEF QueueEntry
    <3> QED BY <2>1, <3>1 DEF ClearDebug, Ready, Idle, NoCommand, dictationVars
  <2>2. ASSUME NEW size \in EntrySizes, Persist(size)
        PROVE  \E entry \in QueueEntry(generation) :
                 /\ queue' = Append(queue, entry)
                 /\ entry.kind = "append" => entry.of > cleared.upTo
                 /\ command.kind # "clear"
                 /\ UNCHANGED <<stateFiles, cleared, lastEntry, generation>>
                 /\ \/ activity' = "none" /\ activity = "none"
                    \/ activity # "none" /\ command' = command
    <3> DEFINE entry == [kind |-> "append", of |-> generation, size |-> size]
    <3>1. /\ queue' = Append(queue, entry) /\ activity = "pipeline" /\ command' = command
          /\ UNCHANGED <<stateFiles, cleared, lastEntry, generation>>
      BY <2>2 DEF Persist
    <3>2. generation \in Nat /\ generation > 0 /\ generation > cleared.upTo
      BY <1>0, <3>1 DEF Counting, TypeOK, DictationsAreClear
    <3>3. entry \in QueueEntry(generation) /\ entry.of > cleared.upTo
      BY <3>2 DEF QueueEntry
    <3>4. command.kind # "clear"
      BY <1>0, <3>1 DEF QueueIsClear
    <3> QED BY <3>1, <3>3, <3>4
  <2> QED BY <2>1, <2>2
<1>2. /\ queue' # <<>>
      /\ \A i \in DOMAIN queue' : queue'[i].kind = "append" => queue'[i].of > cleared.upTo
      /\ \A i \in DOMAIN queue' : queue'[i].kind = "clear" => i = Len(queue')
      /\ queue # <<>> => Head(queue') = Head(queue)
  BY <1>0, <1>1, QueueGrows
<1>3. QueueIsClear'
  BY <1>1, <1>2 DEF QueueIsClear
<1>4. DictationsAreClear'
  <2>1. activity' # "none" => activity # "none"
    BY <1>1
  <2> QED BY <1>0, <1>1, <2>1 DEF DictationsAreClear
<1>5. LogFiles' /\ SizesFollow
  <2>1. CASE queue = <<>>
    BY <1>0, <1>1, <2>1, LogsStay DEF QueueIsClear
  <2>2. CASE queue # <<>>
    <3>1. /\ StateDirectoryOK' /\ FilesAreClear' /\ CallsAreClear' /\ CutBeforeRotation'
          /\ SizesFollow
      <4>1. StateDirectoryOK /\ FilesAreClear /\ CallsAreClear /\ CutBeforeRotation
        BY <1>0 DEF LogFiles
      <4>2. StateDirectoryOK' /\ FilesAreClear' /\ CallsAreClear'
        BY <1>1, <4>1 DEF StateDirectoryOK, FilesAreClear, CallsAreClear, LastingUpTo
      <4>3. /\ CutBeforeRotation'
            /\ \A n \in LogNames : StateDir!Read(n, EmptyLog)' = StateDir!Read(n, EmptyLog)
        BY <1>1, <4>1
        DEF CutBeforeRotation, LogSize, StateDir!Read, StateDir!Exists, StateDir!Contents
      <4> QED BY <1>0, <4>1, <4>2, <4>3, VisibleLogs DEF SizesFollow
    <3>2. ClearUnderWay'
      BY <1>0, <1>1, <1>2, <2>2 DEF ClearUnderWay, StateDir!Idle
    <3> QED BY <3>1, <3>2 DEF LogFiles
  <2> QED BY <2>1, <2>2
<1> QED BY <1>3, <1>4, <1>5 DEF Logging

(* Whatever else the actor does leaves the log alone.                        *)
LEMMA LoggingElsewhere ==
  ASSUME Logging, UNCHANGED <<stateFiles, queue, cleared>>,
         generation' = generation \/ (generation' = generation + 1 /\ activity' # "none"),
         generation \in Nat,
         activity' = "none" \/ activity # "none" \/ generation' = generation + 1,
         command'.kind = "clear" => command.kind = "clear" /\ activity' = activity,
         lastEntry' = lastEntry \/ (lastEntry' = generation /\ activity # "none")
  PROVE  Logging' /\ SizesFollow
<1>0. LogFiles /\ QueueIsClear /\ DictationsAreClear
  BY DEF Logging
<1>1. LogFiles' /\ SizesFollow
  BY <1>0, LogsStay
<1>2. QueueIsClear'
  BY <1>0 DEF QueueIsClear, StateDir!Idle
<1>3. DictationsAreClear'
  <2>1. cleared' = cleared /\ cleared \in Clears /\ cleared.upTo \in Nat \cup {-1}
    BY <1>0 DEF DictationsAreClear, Clears
  <2>2. /\ cleared.upTo <= generation
        /\ activity # "none" => generation > cleared.upTo
        /\ lastEntry = 0 \/ lastEntry > cleared.upTo
    BY <1>0 DEF DictationsAreClear
  <2>3. cleared'.upTo = cleared.upTo
    BY <2>1
  <2>4. generation' \in Nat /\ cleared.upTo <= generation'
    BY <2>1, <2>2
  <2>5. activity' # "none" => generation' > cleared.upTo
    BY <2>1, <2>2
  <2>6. lastEntry' = 0 \/ lastEntry' > cleared.upTo
    BY <2>1, <2>2
  <2> QED BY <2>1, <2>3, <2>4, <2>5, <2>6 DEF DictationsAreClear
<1> QED BY <1>1, <1>2, <1>3 DEF Logging

(* The process is killed, or the machine stops.                              *)
LEMMA LoggingStopped ==
  ASSUME Logging, TypeOK, ProcessKilled \/ MachineCrashes
  PROVE  Logging' /\ SizesFollow
<1>0. LogFiles /\ QueueIsClear /\ DictationsAreClear /\ StateDirectoryOK /\ FilesAreClear
  BY DEF Logging, LogFiles
<1>1. /\ queue' = <<>> /\ lastEntry' = 0 /\ activity' = "none" /\ generation' = generation
      /\ command' = NoCommand
  BY DEF ProcessKilled, MachineCrashes, Stopped
<1>2. /\ StateDirectoryOK' /\ FilesAreClear' /\ SizesFollow
      /\ stateFiles'.calls = <<>> /\ stateFiles'.outcome = "none"
  <2>1. CASE ProcessKilled
    BY <1>0, <2>1, LogEnded DEF ProcessKilled, StateDir!Kill
  <2>2. CASE MachineCrashes
    BY <1>0, <2>2, LogsCrash DEF MachineCrashes
  <2> QED BY <2>1, <2>2
<1>3. StateDir!Idle' /\ CallsAreClear' /\ CutBeforeRotation' /\ ClearUnderWay'
  BY <1>2 DEF StateDir!Idle, CallsAreClear, CutBeforeRotation, ClearUnderWay
<1>4. QueueIsClear'
  BY <1>1, <1>3 DEF QueueIsClear, NoCommand
<1>5. DictationsAreClear'
  <2>1. cleared \in Clears /\ cleared.upTo <= generation /\ cleared.upTo \in Nat \cup {-1}
    BY <1>0 DEF DictationsAreClear, Clears
  <2>2. CASE cleared' = cleared
    BY <1>1, <2>1, <2>2 DEF DictationsAreClear
  <2>3. CASE cleared' = NothingCleared /\ cleared' # cleared
    <3>1. cleared' \in Clears /\ cleared'.upTo = -1
      BY <2>3 DEF Clears, NothingCleared
    <3>2. cleared'.upTo <= generation'
      BY <1>1, <3>1 DEF TypeOK
    <3> QED BY <1>1, <3>1, <3>2 DEF DictationsAreClear
  <2> QED BY <2>2, <2>3 DEF ProcessKilled, MachineCrashes
<1> QED BY <1>2, <1>3, <1>4, <1>5 DEF Logging, LogFiles

(* The start: what is found is older than every dictation.                   *)
LEMMA FoundClear ==
  ASSUME NEW log, NEW backup, \A l \in {log, backup} : l = None \/ l \in [size : Nat, of : SUBSET {0}],
         StateDir!FilesInit([log |-> log, backup |-> backup, temp |-> None]),
         cleared = NothingCleared
  PROVE  StateDirectoryOK /\ FilesAreClear /\ StateDir!Idle
<1> DEFINE names == {"log", "backup", "temp"}
           contents == [log |-> log, backup |-> backup, temp |-> None]
           place == CHOOSE f \in [names -> LogInodes] : StateDir!IsInjective(f)
           dir == [n \in names |-> IF contents[n] = None THEN None ELSE place[n]]
           data == [i \in LogInodes |->
                      IF \E n \in names : dir[n] = i
                        THEN contents[CHOOSE n \in names : dir[n] = i] ELSE Torn]
<1>1. place \in [names -> LogInodes] /\ None \notin LogInodes
  BY FilesAssumption DEF StateDir!FilesFit
<1>2. stateFiles = [dir |-> dir, survivors |-> {dir}, data |-> data, disk |-> data,
                    calls |-> <<>>, outcome |-> "none"]
  BY DEF StateDir!FilesInit
<1>3. contents["log"] = log /\ contents["backup"] = backup /\ contents["temp"] = None
  OBVIOUS
<1>4. \A n \in names : contents[n] = None \/ contents[n] \in Logs(-1)
  <2>1. [size : Nat, of : SUBSET {0}] \subseteq Logs(-1)
    <3>1. SUBSET {0} \subseteq SUBSET {g \in Nat : g > -1}
      OBVIOUS
    <3> QED BY <3>1 DEF Logs
  <2> HIDE DEF contents
  <2> QED BY <1>3, <2>1
<1> HIDE DEF contents, place
<1>5. dir \in LogDirectories
  BY <1>1, <1>3 DEF LogDirectories, LogNames
<1>6. \A n \in names : dir[n] # None => dir[n] \in LogInodes
  BY <1>1
<1>7. \A i \in LogInodes : \A n \in names : dir[n] = i => contents[n] \in Logs(-1)
  BY <1>1, <1>4
<1>8. \A i \in LogInodes : /\ data[i] \in Logs(-1) \cup {Torn}
                           /\ (\E n \in names : dir[n] = i) => data[i] \in Logs(-1)
  <2> SUFFICES ASSUME NEW i \in LogInodes
               PROVE  /\ data[i] \in Logs(-1) \cup {Torn}
                      /\ (\E n \in names : dir[n] = i) => data[i] \in Logs(-1)
    OBVIOUS
  <2>1. CASE \E n \in names : dir[n] = i
    <3>1. PICK m : m = CHOOSE n \in names : dir[n] = i
      OBVIOUS
    <3>2. m \in names /\ dir[m] = i /\ data[i] = contents[m]
      <4> HIDE DEF dir
      <4> QED BY <2>1, <3>1
    <3> QED BY <1>7, <3>2
  <2>2. CASE ~\E n \in names : dir[n] = i
    BY <2>2
  <2> QED BY <2>1, <2>2
<1>9. data \in LogData
  <2> HIDE DEF dir, names
  <2> QED BY <1>8 DEF LogData
<1> HIDE DEF dir, data
<1>10. /\ stateFiles.dir = dir /\ stateFiles.survivors = {dir} /\ stateFiles.data = data
       /\ stateFiles.disk = data /\ stateFiles.calls = <<>> /\ stateFiles.outcome = "none"
  BY <1>2
<1>11. StateDirectoryOK
  BY <1>2, <1>5, <1>9, <1>10 DEF StateDirectoryOK
<1>12. \A n \in LogNames : dir[n] # None => data[dir[n]] \in Logs(-1)
  BY <1>6, <1>8 DEF LogNames
<1>13. cleared.upTo = -1 /\ LastingUpTo = -1
  BY DEF NothingCleared, LastingUpTo
<1>14. FilesAreClear
  BY <1>10, <1>12, <1>13 DEF FilesAreClear
<1> QED BY <1>10, <1>11, <1>14 DEF StateDir!Idle

LEMMA LoggingInit == Init => Logging
<1> SUFFICES ASSUME Init PROVE Logging
  OBVIOUS
<1>1. PICK found \in FoundLogs :
        StateDir!FilesInit([log |-> found.log, backup |-> found.backup, temp |-> None])
  BY DEF Init
<1>2. /\ queue = <<>> /\ lastEntry = 0 /\ activity = "none" /\ generation = 0
      /\ command = NoCommand /\ cleared = NothingCleared
  BY DEF Init
<1>3. \A l \in {found.log, found.backup} : l = None \/ l \in [size : Nat, of : SUBSET {0}]
  BY FoundAssumption
<1>4. StateDirectoryOK /\ FilesAreClear /\ StateDir!Idle
  BY <1>1, <1>2, <1>3, FoundClear
<1>5. CallsAreClear /\ CutBeforeRotation /\ ClearUnderWay
  BY <1>4 DEF CallsAreClear, CutBeforeRotation, ClearUnderWay, StateDir!Idle
<1>6. QueueIsClear
  BY <1>2, <1>4 DEF QueueIsClear, NoCommand
<1>7. DictationsAreClear
  BY <1>2 DEF DictationsAreClear, Clears, NothingCleared
<1> QED BY <1>4, <1>5, <1>6, <1>7 DEF Logging, LogFiles

LEMMA LoggingNext ==
  ASSUME Storing, Logging, [Next]_vars
  PROVE  Logging' /\ SizesFollow
<1>0. /\ TypeOK /\ Counting /\ ClearAwaited /\ CommandIsSaved /\ generation \in Nat
      /\ LogFiles /\ QueueIsClear /\ DictationsAreClear
  BY DEF Storing, Durable, TypeOK, Logging
<1>1. CASE \/ \E change \in Changes :
                UpdateSettings(change.enabled, change.provider, change.model)
           \/ \E enabled \in BOOLEAN : UpdateDebug(enabled)
           \/ \E provider \in Providers, token \in Tokens \cup {None} :
                UpdateToken(provider, token)
  <2>1. UNCHANGED <<logVars, dictationVars>> /\ command'.kind # "clear"
    <3>1. CASE \E change \in Changes :
                 UpdateSettings(change.enabled, change.provider, change.model)
      BY <3>1 DEF UpdateSettings, BeginSave
    <3>2. CASE \E enabled \in BOOLEAN : UpdateDebug(enabled)
      BY <3>2 DEF UpdateDebug, BeginSave
    <3>3. CASE \E provider \in Providers, token \in Tokens \cup {None} :
                 UpdateToken(provider, token)
      BY <3>3 DEF UpdateToken, BeginSave
    <3> QED BY <1>1, <3>1, <3>2, <3>3
  <2>2. /\ UNCHANGED <<stateFiles, queue, cleared>> /\ UNCHANGED <<lastEntry, generation, activity>>
        /\ command'.kind # "clear"
    BY <2>1 DEF logVars, dictationVars
  <2> QED BY <1>0, <2>2, LoggingElsewhere
<1>2. CASE \/ SettingsSaved \/ TokenSaved \/ SaveFailed \/ ConfigCall
           \/ \E c \in Edits : EditByHand(c)
           \/ StartDaemon
  <2>1. UNCHANGED <<logVars, dictationVars>> /\ command' \in {command, NoCommand}
    BY <1>2 DEF SettingsSaved, TokenSaved, SaveFailed, ConfigCall, EditByHand, StartDaemon
  <2>2. /\ UNCHANGED <<stateFiles, queue, cleared>> /\ UNCHANGED <<lastEntry, generation, activity>>
        /\ command'.kind = "clear" => command.kind = "clear"
    BY <2>1 DEF logVars, dictationVars, NoCommand
  <2> QED BY <1>0, <2>2, LoggingElsewhere
<1>3. CASE StartRecording
  <2>1. /\ UNCHANGED <<stateFiles, queue, cleared>> /\ UNCHANGED lastEntry
        /\ generation' = generation + 1 /\ activity' = "recording" /\ command'.kind # "clear"
    BY <1>3 DEF StartRecording, Ready, Idle, NoCommand, logVars
  <2> QED BY <1>0, <2>1, LoggingElsewhere
<1>4. CASE FinalizeRecording \/ Cancel \/ CancellationFinished \/ Completed
  <2>1. /\ UNCHANGED <<stateFiles, queue, cleared>> /\ generation' = generation
        /\ activity # "none" /\ command'.kind # "clear"
        /\ lastEntry' \in {lastEntry, generation}
    BY <1>4
    DEF FinalizeRecording, Cancel, CancellationFinished, Completed, Idle, NoCommand, logVars
  <2> QED BY <1>0, <2>1, LoggingElsewhere
<1>5. CASE ClearDebug \/ \E size \in EntrySizes : Persist(size)
  BY <1>0, <1>5, LoggingQueued
<1>6. CASE QueueTakes \/ LogCall
  <2>1. LogFiles' /\ SizesFollow
    BY <1>0, <1>6, LogBegins, LogCallStep DEF LogCall
  <2>2. /\ UNCHANGED <<queue, lastEntry, cleared, command>> /\ UNCHANGED dictationVars
        /\ queue # <<>>
    <3>1. CASE QueueTakes
      BY <3>1 DEF QueueTakes
    <3>2. CASE LogCall
      <4>1. stateFiles.calls # <<>>
        BY <3>2 DEF LogCall, StateDir!CallStep, StateDir!Create, StateDir!Write, StateDir!Sync,
          StateDir!Rename, StateDir!Unlink, StateDir!SyncDir, StateDir!Fail, StateDir!Makes
      <4> QED BY <1>0, <3>2, <4>1 DEF LogCall, QueueIsClear, StateDir!Idle
    <3> QED BY <1>6, <3>1, <3>2
  <2>3. QueueIsClear' /\ DictationsAreClear'
    BY <1>0, <2>2 DEF QueueIsClear, DictationsAreClear, dictationVars
  <2> QED BY <2>1, <2>3 DEF Logging
<1>7. CASE Appended
  BY <1>0, <1>7, LoggingAppended
<1>8. CASE DebugCleared \/ ClearFailed
  BY <1>0, <1>8, LoggingCleared
<1>9. CASE ProcessKilled \/ MachineCrashes
  BY <1>0, <1>9, LoggingStopped
<1>10. CASE UNCHANGED vars
  <2>1. /\ UNCHANGED <<stateFiles, queue, cleared>> /\ UNCHANGED <<lastEntry, generation, activity>>
        /\ command' = command
    BY <1>10 DEF vars, logVars, dictationVars
  <2> QED BY <1>0, <2>1, LoggingElsewhere
<1> QED
  BY <1>1, <1>2, <1>3, <1>4, <1>5, <1>6, <1>7, <1>8, <1>9, <1>10 DEF Next

LEMMA LoggingInvariant == Spec => [](Storing /\ Logging)
<1>1. Init => Storing /\ Logging
  BY StoringInit, LoggingInit
<1>2. (Storing /\ Logging) /\ [Next]_vars => (Storing /\ Logging)'
  BY StoringNext, LoggingNext
<1> QED BY <1>1, <1>2, PTL DEF Spec
-----------------------------------------------------------------------------
(* Once a clear was acknowledged, nothing of an earlier dictation is in the  *)
(* log, its backup or the last entry, nor comes back, however clears,        *)
(* canceled dictations, failing calls and crashes interleave                 *)
(* (clear_debug_at, clear_debug_logs).                                       *)
THEOREM ClearsLast == Spec => []ClearedIsGone
<1>1. Storing /\ Logging => ClearedIsGone
  <2> SUFFICES ASSUME Logging PROVE ClearedIsGone
    OBVIOUS
  <2>1. StateDirectoryOK /\ FilesAreClear /\ DictationsAreClear
    BY DEF Logging, LogFiles
  <2>2. cleared.upTo \in Nat \cup {-1} /\ LastingUpTo \in Nat \cup {-1}
    BY <2>1, LastingIsLess
  <2>3. ASSUME NEW name \in LogNames, cleared.lasting,
               NEW log \in StateDir!AfterCrash(name, EmptyLog), NEW g \in log.of
        PROVE  g > cleared.upTo
    <3>1. LastingUpTo = cleared.upTo
      BY <2>3 DEF LastingUpTo
    <3>2. log \in Logs(cleared.upTo)
      <4>1. PICK d \in stateFiles.survivors :
              log \in IF d[name] = None THEN {EmptyLog}
                      ELSE {stateFiles.data[d[name]], stateFiles.disk[d[name]]}
        BY DEF StateDir!AfterCrash
      <4> QED BY <2>1, <3>1, <4>1, LogsOf DEF FilesAreClear
    <3> QED BY <3>2 DEF Logs
  <2>4. ASSUME NEW name \in LogNames, NEW g \in StateDir!Read(name, EmptyLog).of
        PROVE  g > cleared.upTo
    <3>1. StateDir!Read(name, EmptyLog) \in Logs(cleared.upTo)
      BY <2>1, VisibleLogs
    <3> QED BY <3>1 DEF Logs
  <2> QED BY <2>1, <2>3, <2>4 DEF ClearedIsGone, LogNames, DictationsAreClear
<1> QED BY <1>1, LoggingInvariant, PTL

(* Neither log grows beyond the limit: not by an append, a rotation, a       *)
(* failing call or a crash; a larger one was there before                    *)
(* (append_debug_log).                                                       *)
THEOREM LogsAreBounded == Spec => LogsStayBounded
<1> DEFINE Bounded ==
      \A name \in {"log", "backup"} :
        LET size == StateDir!Read(name, EmptyLog).size
        IN size' <= LogLimit
           \/ size' \in {log.size : log \in StateDir!AfterCrash(name, EmptyLog)}
<1>1. Storing /\ Logging /\ [Next]_vars => [Bounded]_vars
  <2> SUFFICES ASSUME Storing, Logging, [Next]_vars PROVE Bounded
    OBVIOUS
  <2>1. SizesFollow
    BY LoggingNext
  <2> QED BY <2>1 DEF SizesFollow, LogNames
<1> QED BY <1>1, LoggingInvariant, PTL DEF Spec, LogsStayBounded
=============================================================================
