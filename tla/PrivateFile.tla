----------------------------- MODULE PrivateFile -----------------------------
(***************************************************************************)
(* One directory of private files (private_file.rs) and the system calls   *)
(* that reach it.  Processes see fs.dir and fs.data.  A crash of the        *)
(* machine leaves one of the directories in fs.survivors, since a change of *)
(* a directory lasts only once the directory is synced, and of every file   *)
(* either fs.data or fs.disk, its contents at the last sync.  A function of *)
(* private_file.rs is the sequence of calls it makes; fs.calls holds those  *)
(* still to be made, and each of them may fail, which ends the function     *)
(* with its error.  What the checks of path, owner, links and mode refuse   *)
(* is such a failure before the first call.  A temporary file always has a  *)
(* fresh name, here "temp": one that is left behind is never met again, so   *)
(* that it is left out.                                                     *)
(***************************************************************************)
EXTENDS Naturals, Sequences, Functions

CONSTANTS
  Names,     \* the files of the directory
  Inodes,    \* bound on the files that have a name in a surviving directory
  Missing,   \* no file of that name
  Torn       \* what is in a file whose contents did not reach it whole

(* What a module that uses this one assumes of the constants.                *)
FilesFit == "temp" \in Names /\ Missing \notin Inodes
            /\ \E f \in [Names -> Inodes] : IsInjective(f)

VARIABLE fs
(* fs.dir        [Names -> Inodes \cup {Missing}]                             *)
(* fs.survivors  the directories a crash may leave                            *)
(* fs.data       [Inodes -> contents], as processes see them                  *)
(* fs.disk       [Inodes -> contents], as last synced                         *)
(* fs.calls      the calls the function under way still has to make           *)
(* fs.outcome    "none" until the function ends, then "ok" or "failed"        *)

Call(call, file, arg) == [call |-> call, file |-> file, arg |-> arg]

Exists(name) == fs.dir[name] # Missing

Contents(name) == fs.data[fs.dir[name]]

(* What a reader finds, whatever of it is on the disk.                       *)
Read(name, default) == IF Exists(name) THEN Contents(name) ELSE default

(* Everything a crash may leave under a name.                                *)
AfterCrash(name, default) ==
  UNION {IF d[name] = Missing THEN {default}
                              ELSE {fs.data[d[name]], fs.disk[d[name]]} : d \in fs.survivors}

Idle == fs.calls = <<>> /\ fs.outcome = "none"

FilesInit(contents) ==
  LET place == CHOOSE f \in [Names -> Inodes] : IsInjective(f)
      dir == [n \in Names |-> IF contents[n] = Missing THEN Missing ELSE place[n]]
      data == [i \in Inodes |-> IF \E n \in Names : dir[n] = i
                                  THEN contents[CHOOSE n \in Names : dir[n] = i] ELSE Torn]
  IN fs = [dir |-> dir, survivors |-> {dir}, data |-> data, disk |-> data,
           calls |-> <<>>, outcome |-> "none"]

-----------------------------------------------------------------------------
(* The functions.                                                            *)

SyncDirectory == Call("syncdir", "temp", Torn)

(* Mutant: the contents are not synced before the rename.                    *)
AtomicWriteUnsynced(name, contents) ==
  << Call("create", "temp", Torn), Call("write", "temp", contents),
     Call("rename", "temp", name), SyncDirectory >>

(* Mutant: the directory is not synced after the rename.                     *)
AtomicWriteUnsettled(name, contents) ==
  << Call("create", "temp", Torn), Call("write", "temp", contents),
     Call("sync", "temp", Torn), Call("rename", "temp", name) >>

AtomicWrite(name, contents) ==
  << Call("create", "temp", Torn), Call("write", "temp", contents),
     Call("sync", "temp", Torn), Call("rename", "temp", name), SyncDirectory >>

Rotate(name, backup) == << Call("rename", name, backup), SyncDirectory >>

Remove(name) ==
  IF Exists(name) THEN << Call("unlink", name, Torn), SyncDirectory >> ELSE <<>>

(* set_len and sync of a file that has a size.                               *)
Cut(name, maximum) ==
  << Call("write", name, [Contents(name) EXCEPT !.size = maximum]), Call("sync", name, Torn) >>

Cap(name, maximum) ==
  IF Exists(name) /\ Contents(name).size > maximum
    THEN Append(Cut(name, maximum), SyncDirectory) ELSE <<>>

OpenAppend(name, empty) ==
  IF Exists(name) THEN <<>> ELSE << Call("create", name, empty) >>

-----------------------------------------------------------------------------
(* The calls of the function under way.                                      *)

Returning(sequence) ==
  [fs EXCEPT !.calls = sequence, !.outcome = IF sequence = <<>> THEN "ok" ELSE "none"]

Begin(sequence) == Idle /\ fs' = Returning(sequence)

Makes(call) == fs.calls # <<>> /\ Head(fs.calls).call = call

Made == Returning(Tail(fs.calls))

WithoutTemporary(d) == [d EXCEPT !["temp"] = Missing]

WithDirectory(f, d) == [f EXCEPT !.dir = d, !.survivors = @ \cup {WithoutTemporary(d)}]

(* The file system forgets the files that have no name any more.             *)
Collected(f) ==
  LET Named(i) == \E d \in f.survivors \cup {f.dir} : \E n \in Names : d[n] = i
  IN [f EXCEPT !.data = [i \in Inodes |-> IF Named(i) THEN f.data[i] ELSE Torn],
               !.disk = [i \in Inodes |-> IF Named(i) THEN f.disk[i] ELSE Torn]]

Unused == {i \in Inodes : \A d \in fs.survivors \cup {fs.dir} : \A n \in Names : d[n] # i}

(* open_at with O_CREAT: a new file, whose name a crash may lose.            *)
Create ==
  /\ Makes("create")
  /\ Unused # {}
  /\ LET new == CHOOSE i \in Unused : TRUE
         empty == Head(fs.calls).arg
     IN fs' = WithDirectory([Made EXCEPT !.data[new] = empty, !.disk[new] = empty],
                            [fs.dir EXCEPT ![Head(fs.calls).file] = new])

Write ==
  /\ Makes("write")
  /\ fs' = [Made EXCEPT !.data[fs.dir[Head(fs.calls).file]] = Head(fs.calls).arg]

Sync ==
  /\ Makes("sync")
  /\ LET file == fs.dir[Head(fs.calls).file]
     IN fs' = [Made EXCEPT !.disk[file] = fs.data[file]]

Rename ==
  /\ Makes("rename")
  /\ LET from == Head(fs.calls).file
         to == Head(fs.calls).arg
     IN fs' = WithDirectory(Made, [fs.dir EXCEPT ![to] = fs.dir[from], ![from] = Missing])

Unlink ==
  /\ Makes("unlink")
  /\ fs' = WithDirectory(Made, [fs.dir EXCEPT ![Head(fs.calls).file] = Missing])

SyncDir ==
  /\ Makes("syncdir")
  /\ fs' = Collected([Made EXCEPT !.survivors = {fs.dir}])

(* A function ends early, and leaves no temporary file that matters.         *)
Ended(how) ==
  Collected([fs EXCEPT !.dir = WithoutTemporary(@), !.calls = <<>>, !.outcome = how])

(* A call fails, or a check before the first one refuses.  atomic_write then *)
(* unlinks its temporary file, which has another name after the rename.      *)
Fail == fs.calls # <<>> /\ fs' = Ended("failed")

CallStep == Create \/ Write \/ Sync \/ Rename \/ Unlink \/ SyncDir \/ Fail

(* The caller takes the result.                                              *)
Take(result) ==
  /\ fs.calls = <<>> /\ fs.outcome = result
  /\ fs' = [fs EXCEPT !.outcome = "none"]

(* Another program replaces a file, and syncs it.                            *)
Replaced(name, contents) ==
  LET free == {i \in Inodes : \A n \in Names : fs.dir[n] # i}
      new == CHOOSE i \in free : TRUE
      dir == [fs.dir EXCEPT ![name] = new]
  IN /\ free # {}
     /\ fs' = Collected([fs EXCEPT !.dir = dir, !.survivors = {dir},
                                   !.data[new] = contents, !.disk[new] = contents])

(* The machine stops and is started again.                                   *)
Crash ==
  \E d \in fs.survivors, written \in SUBSET {i \in Inodes : fs.data[i] # fs.disk[i]} :
    LET data == [i \in Inodes |-> IF i \in written THEN fs.data[i] ELSE fs.disk[i]]
    IN fs' = Collected([dir |-> d, survivors |-> {d}, data |-> data, disk |-> data,
                        calls |-> <<>>, outcome |-> "none"])

(* The process is killed: the files stay as it left them.                    *)
Kill == fs' = Ended("none")
===============================================================================
