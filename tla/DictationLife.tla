---------------------------- MODULE DictationLife ----------------------------
(***************************************************************************)
(* What the daemon promises about dictations, told without messages, tasks  *)
(* or a model.  Dictations are numbered as they begin.  One is open at a    *)
(* time; while it is open its text may leave the daemon, once; then it ends *)
(* and is never touched again, and how it is said to have ended is true.    *)
(* A result is put on display when its dictation ends, and is only taken    *)
(* away after that.  Module Daemon implements this one.                     *)
(***************************************************************************)
EXTENDS Naturals

CONSTANT MaxGeneration  \* bound on the dictations, as in module Daemon

VARIABLES
  fate,       \* of each dictation: "none", "open", or how it ended
  sent,       \* the dictations whose text left the daemon
  kept,       \* the result that "copy last" copies, as its dictation
  displayed   \* the result on display

vars == <<fate, sent, kept, displayed>>

None == 0
Dictations == 1 .. MaxGeneration
Over(g) == fate[g] \in {"delivered", "undelivered", "failed", "canceled"}

Init ==
  /\ fate = [g \in Dictations |-> "none"]
  /\ sent = {}
  /\ kept = None /\ displayed = None

\* In order, and each after the end of the one before.
Begin(g) ==
  /\ fate[g] = "none"
  /\ \A h \in Dictations : h < g => Over(h)
  /\ fate' = [fate EXCEPT ![g] = "open"]
  /\ displayed' = None
  /\ UNCHANGED <<sent, kept>>

\* At most once, and never after the end.
Send(g) ==
  /\ fate[g] = "open" /\ g \notin sent
  /\ sent' = sent \cup {g}
  /\ UNCHANGED <<fate, kept, displayed>>

\* There is a result, and whether it was delivered is what happened.
EndsWithResult(g, how) ==
  /\ fate[g] = "open"
  /\ how = "delivered" <=> g \in sent
  /\ fate' = [fate EXCEPT ![g] = how]
  /\ kept' = g /\ displayed' = g
  /\ UNCHANGED sent

Fails(g) ==
  /\ fate[g] = "open" /\ g \notin sent
  /\ fate' = [fate EXCEPT ![g] = "failed"]
  /\ displayed' = None
  /\ UNCHANGED <<sent, kept>>

\* A cancellation may come too late to hold the text back.
IsCanceled(g) ==
  /\ fate[g] = "open"
  /\ fate' = [fate EXCEPT ![g] = "canceled"]
  /\ displayed' = None
  /\ UNCHANGED <<sent, kept>>

\* A command or a change of the model takes the result off the display.
Dismiss == displayed' = None /\ UNCHANGED <<fate, sent, kept>>

Next ==
  \/ \E g \in Dictations :
       \/ Begin(g) \/ Send(g) \/ Fails(g) \/ IsCanceled(g)
       \/ \E how \in {"delivered", "undelivered"} : EndsWithResult(g, how)
  \/ Dismiss

Spec == Init /\ [][Next]_vars
==============================================================================
