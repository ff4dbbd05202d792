------------------------------ MODULE SavedFile ------------------------------
(***************************************************************************)
(* What the daemon promises about one of its files, told without            *)
(* directories, temporary files or system calls: the file is a register of   *)
(* whole values.  Readers always find a value, a save replaces it at one     *)
(* instant, a crash may bring an older value back only until the save is     *)
(* acknowledged, and only what was acknowledged or loaded is ever in use.    *)
(* What the daemon goes on with is what it saved, as far as Saves says so.   *)
(* Module Storage implements this one twice, with its settings and with its  *)
(* tokens.                                                                   *)
(***************************************************************************)
CONSTANTS
  Values,     \* what the file may hold
  Initial,    \* what it stands for while there is none
  Saves,      \* what a save may be: [file, memory], as far as the two differ
  Edits       \* what other programs write to it

VARIABLES
  value,      \* what a reader finds
  possible,   \* what a reader may find after a crash of the machine
  saving,     \* the save under way, as a set of at most one
  used        \* the copy in the memory of the daemon

vars == <<value, possible, saving, used>>

Init ==
  /\ value \in Values /\ possible = {value}
  /\ saving = {} /\ used = Initial

\* One save at a time.
Begin ==
  /\ saving = {}
  /\ \E save \in saving' : save \in Saves /\ saving' = {save}
  /\ UNCHANGED <<value, possible, used>>

\* Readers have the new value from now on, a crash may still take it away.
Replace ==
  \E save \in saving :
    /\ value' = save.file /\ possible' = possible \cup {save.file}
    /\ UNCHANGED <<saving, used>>

\* What readers find becomes all that a crash can leave.
Sync == possible' = {value} /\ UNCHANGED <<value, saving, used>>

\* Success is reported only of a value that nothing can take away any more.
Acknowledge ==
  \E save \in saving :
    /\ value = save.file /\ possible = {save.file}
    /\ saving' = {} /\ used' = save.memory
    /\ UNCHANGED <<value, possible>>

\* Failure is reported: the file may have the value or not, the daemon has not.
GiveUp == saving # {} /\ saving' = {} /\ UNCHANGED <<value, possible, used>>

Edit(v) ==
  /\ saving = {}
  /\ value' = v /\ possible' = {v}
  /\ UNCHANGED <<saving, used>>

Load ==
  /\ saving = {} /\ used = Initial
  /\ used' = value
  /\ UNCHANGED <<value, possible, saving>>

\* The daemon ends, in the middle of a save perhaps.
Kill == saving' = {} /\ used' = Initial /\ UNCHANGED <<value, possible>>

Crash ==
  /\ \E v \in possible : value' = v /\ possible' = {v}
  /\ saving' = {} /\ used' = Initial

Next ==
  \/ Begin \/ Replace \/ Sync \/ Acknowledge \/ GiveUp
  \/ \E v \in Edits : Edit(v)
  \/ Load \/ Kill \/ Crash

Spec == Init /\ [][Next]_vars
==============================================================================
