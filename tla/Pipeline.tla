------------------------------- MODULE Pipeline -------------------------------
(***************************************************************************)
(* The pipeline of one dictation (run_pipeline of daemon.rs) from the        *)
(* captured audio to the report: transcription, refinement by a text         *)
(* provider (post_processing.rs) and delivery (output.rs) through child      *)
(* processes that go on running on their own: hyprctl tells the active       *)
(* window, wtype types, wl-copy serves the clipboard.  The daemon may abort  *)
(* the pipeline at any of its awaits.                                        *)
(*                                                                           *)
(* The settings are a snapshot taken at the start of the dictation; each is  *)
(* chosen here where it is first read.                                       *)
(***************************************************************************)
EXTENDS Instructions

CONSTANTS
  Windows,      \* the windows of the desktop
  NoWindow,     \* no window is active, or none was when the recording began
  Parts,        \* wtype types a text in this many steps
  Scripts,      \* what may be dictated
  Near,         \* [Scripts -> SUBSET Scripts]: what a provider may mistake it for
  None

ASSUME PipelineAssumption ==
  /\ NoWindow \notin Windows /\ Parts \in Nat \ {0}
  /\ \A script \in Scripts : Near[script] \subseteq Scripts

VARIABLES
  pipeline,   \* the task: its step, and what its locals hold; unlogged is a ghost: the
              \* debug log could not be written
  children,   \* the child processes that run
  observed,   \* the window hyprctl found active
  focus,      \* the active window
  screen,     \* the windows that received the parts typed so far
  clipboard,  \* "old", "transcript", or "empty" when its server was killed
  seen        \* ghost: the recording's window was active when hyprctl looked

desktopVars == <<observed, focus, screen, clipboard, seen>>
pipelineVars == <<pipeline, children, desktopVars>>

Programs == {"hyprctl", "wtype", "wl-copy"}
Steps == {"none", "transcribing", "refining", "delivering", "resolving", "verified",
          "typing", "failing", "copying", "logging", "done", "dropped"}
NoText == [source |-> "raw", right |-> TRUE, blank |-> TRUE, control |-> FALSE]
NoPipeline ==
  [step |-> "none", issue |-> "none", target |-> NoWindow, script |-> None, asked |-> FALSE,
   text |-> NoText, fallback |-> FALSE, result |-> "none", notices |-> {}, unlogged |-> FALSE]

-----------------------------------------------------------------------------
(* The task starts with the audio and the window recorded.                   *)
StartTask(issue, target) ==
  /\ pipeline.step = "none"
  /\ pipeline' = [NoPipeline EXCEPT !.step = "transcribing", !.issue = issue,
                                    !.target = target]
  /\ UNCHANGED <<children, desktopVars>>

Transcribed(script) ==
  /\ pipeline.step = "transcribing"
  /\ pipeline' = [pipeline EXCEPT !.step = "refining", !.script = script]
  /\ UNCHANGED <<children, desktopVars>>

TranscriptionFails ==
  /\ pipeline.step = "transcribing"
  /\ pipeline' = [pipeline EXCEPT !.step = "logging", !.result = "failed"]
  /\ UNCHANGED <<children, desktopVars>>

-----------------------------------------------------------------------------
(* refine_with_client.  From here on the transcript is known by what the     *)
(* delivery and its properties tell apart.                                   *)

Raw(script) == [source |-> "raw", right |-> TRUE, blank |-> Spoken(script) = <<>>,
                control |-> FALSE]

(* What the provider may answer: the script, or what it took it for, with     *)
(* digits or number words; or the script with a segment that should not be   *)
(* there.                                                                    *)
Answers(script) ==
  {[written |-> Written(taken, digits), faithful |-> Meaning(taken) = Meaning(script)] :
     taken \in Near[script], digits \in BOOLEAN}
  \cup {[written |-> Append(Written(script, TRUE), [mark |-> flaw, words |-> <<>>]),
         faithful |-> FALSE] : flaw \in Refused}

(* The text that is kept after an answer, and whether it is right to keep it. *)
(* A line break in an accepted answer is a control character to wtype.       *)
TextsAfter(script, answer) ==
  IF SuspiciousError(Spoken(script), answer.written)
  THEN {[Raw(script) EXCEPT !.right = ~answer.faithful \/ Misread(script) \/ TakesMoneyBack(script)]}
  ELSE {[source |-> "answer", right |-> answer.faithful \/ Misread(script),
         blank |-> answer.written = <<>>, control |-> control] : control \in BOOLEAN}

(* Known for each script from the start.                                     *)
RefinedTexts ==
  [script \in Scripts |-> UNION {TextsAfter(script, answer) : answer \in Answers(script)}]

Refined(text, asked) ==
  pipeline' = [pipeline EXCEPT !.step = "delivering", !.script = None, !.text = text,
                               !.asked = asked]

RefinementDisabled ==
  /\ pipeline.step = "refining"
  /\ Refined(Raw(pipeline.script), FALSE)
  /\ UNCHANGED <<children, desktopVars>>

(* No usable settings, no token, a failed request, an answer too large or    *)
(* malformed, an HTTP error.                                                 *)
RefinementFails ==
  /\ pipeline.step = "refining"
  /\ Refined(Raw(pipeline.script), TRUE)
  /\ UNCHANGED <<children, desktopVars>>

ProviderAnswers ==
  /\ pipeline.step = "refining"
  /\ \E text \in RefinedTexts[pipeline.script] : Refined(text, TRUE)
  /\ UNCHANGED <<children, desktopVars>>

-----------------------------------------------------------------------------
(* deliver_to_target.                                                        *)

At(step) == pipeline.step = step
GoTo(step) == pipeline' = [pipeline EXCEPT !.step = step]
Deliver(result) == pipeline' = [pipeline EXCEPT !.step = "logging", !.result = result]

DeliverNothing ==
  /\ At("delivering") /\ pipeline.text.blank
  /\ Deliver("nothing")
  /\ UNCHANGED <<children, desktopVars>>

(* copy_to_clipboard starts wl-copy, or cannot.                              *)
StartCopying(asFallback) ==
  \/ /\ pipeline' = [pipeline EXCEPT !.step = "copying", !.fallback = asFallback]
     /\ children' = children \cup {"wl-copy"}
  \/ /\ Deliver("error")
     /\ UNCHANGED children

DeliverToClipboard ==
  /\ At("delivering") /\ ~pipeline.text.blank
  /\ StartCopying(FALSE)
  /\ UNCHANGED desktopVars

(* verify_target asks hyprctl, or cannot; without a recorded window there is *)
(* nothing to ask.                                                           *)
DeliverByTyping ==
  /\ At("delivering") /\ ~pipeline.text.blank
  /\ \/ /\ pipeline.target # NoWindow
        /\ GoTo("resolving")
        /\ children' = children \cup {"hyprctl"}
     \/ /\ GoTo("failing")
        /\ UNCHANGED children
  /\ UNCHANGED desktopVars

HyprctlLooks ==
  /\ "hyprctl" \in children /\ observed = None
  /\ observed' = focus
  /\ seen' = (focus = pipeline.target)
  /\ UNCHANGED <<pipeline, children, focus, screen, clipboard>>

\* (Mutant: any active window will do.)
HyprctlExitsUnchecked ==
  /\ At("resolving") /\ observed # None
  /\ GoTo(IF observed # NoWindow THEN "verified" ELSE "failing")
  /\ children' = children \ {"hyprctl"}
  /\ observed' = None
  /\ UNCHANGED <<focus, screen, clipboard, seen>>

HyprctlExits ==
  /\ At("resolving") /\ observed # None
  /\ GoTo(IF observed = pipeline.target THEN "verified" ELSE "failing")
  /\ children' = children \ {"hyprctl"}
  /\ observed' = None
  /\ UNCHANGED <<focus, screen, clipboard, seen>>

\* (Mutant: the child is left to itself.)
StopChildLater(program) == UNCHANGED <<children, clipboard>>

(* stop_child kills the whole process group, the server of wl-copy included. *)
StopChild(program) ==
  /\ children' = children \ {program}
  /\ clipboard' = IF program = "wl-copy" /\ clipboard = "transcript" THEN "empty" ELSE clipboard

(* hyprctl fails, writes too much or times out.                              *)
HyprctlFails ==
  /\ At("resolving")
  /\ GoTo("failing")
  /\ StopChild("hyprctl")
  /\ observed' = None
  /\ UNCHANGED <<focus, screen, seen>>

(* type_text.                                                                *)
StartTyping ==
  /\ At("verified") /\ ~pipeline.text.control
  /\ \/ GoTo("typing") /\ children' = children \cup {"wtype"}
     \/ GoTo("failing") /\ UNCHANGED children
  /\ UNCHANGED desktopVars

RefuseToType ==
  /\ At("verified") /\ pipeline.text.control
  /\ GoTo("failing")
  /\ UNCHANGED <<children, desktopVars>>

(* Each part goes to whatever window is active by then.                      *)
WtypeTypes ==
  /\ "wtype" \in children /\ Len(screen) < Parts
  /\ screen' = Append(screen, focus)
  /\ UNCHANGED <<pipeline, children, observed, focus, clipboard, seen>>

WtypeExits ==
  /\ At("typing") /\ "wtype" \in children
  /\ children' = children \ {"wtype"}
  /\ \/ Len(screen) = Parts /\ Deliver("typed")
     \/ GoTo("failing")
  /\ UNCHANGED desktopVars

WtypeTimesOut ==
  /\ At("typing")
  /\ GoTo("failing")
  /\ StopChild("wtype")
  /\ UNCHANGED <<observed, focus, screen, seen>>

HandleTypingFailure ==
  /\ At("failing")
  /\ \/ Deliver("error") /\ UNCHANGED children
     \/ StartCopying(TRUE)
  /\ UNCHANGED desktopVars

(* wl-copy takes the clipboard over and leaves a server behind.              *)
CopierServes ==
  /\ "wl-copy" \in children
  /\ clipboard' = "transcript"
  /\ UNCHANGED <<pipeline, children, observed, focus, screen, seen>>

CopierExits ==
  /\ At("copying") /\ "wl-copy" \in children
  /\ children' = children \ {"wl-copy"}
  /\ \/ clipboard = "transcript"
        /\ Deliver(IF pipeline.fallback THEN "clipboard_fallback" ELSE "clipboard")
     \/ clipboard # "transcript" /\ Deliver("error")
  /\ UNCHANGED desktopVars

(* It times out, or its standard error is too long.                          *)
CopierTimesOut ==
  /\ At("copying")
  /\ Deliver("error")
  /\ StopChild("wl-copy")
  /\ UNCHANGED <<observed, focus, screen, seen>>

-----------------------------------------------------------------------------
(* The end of run_pipeline.                                                  *)

(* pipeline_notices.                                                         *)
PipelineNotices ==
  (IF pipeline.asked /\ pipeline.text.source = "raw" THEN {"post_processing_fallback"} ELSE {})
  \cup (IF pipeline.issue # "none" THEN {pipeline.issue} ELSE {})
  \cup (IF pipeline.result = "clipboard_fallback" THEN {"clipboard_fallback"} ELSE {})

(* The debug log is written, or cannot be, and the outcome is reported.      *)
Complete ==
  /\ At("logging")
  /\ \E unlogged \in BOOLEAN :
       pipeline' = [pipeline EXCEPT !.step = "done", !.unlogged = unlogged,
                      !.notices = IF pipeline.result = "failed" THEN {}
                                  ELSE PipelineNotices \cup
                                       (IF unlogged THEN {"debug_write_failed"} ELSE {})]
  /\ UNCHANGED <<children, desktopVars>>

(* The aborted task is dropped at an await: kill_on_drop kills the child     *)
(* itself, which may or may not take the clipboard's server with it.         *)
DropTask ==
  /\ pipeline.step \notin {"none", "done", "dropped"}
  /\ GoTo("dropped")
  /\ children' = {}
  /\ observed' = None
  /\ clipboard' \in IF "wl-copy" \in children /\ clipboard = "transcript"
                    THEN {"transcript", "empty"} ELSE {clipboard}
  /\ UNCHANGED <<focus, screen, seen>>

(* The user goes to another window.  It matters only while a child that looks *)
(* or types is there to see it.                                              *)
FocusMoves(window) ==
  /\ children \cap {"hyprctl", "wtype"} # {} /\ window # focus
  /\ focus' = window
  /\ UNCHANGED <<pipeline, children, observed, screen, clipboard, seen>>

-----------------------------------------------------------------------------
PipelineInit ==
  /\ pipeline = NoPipeline
  /\ children = {}
  /\ observed = None
  /\ focus \in Windows \cup {NoWindow}
  /\ screen = <<>>
  /\ clipboard = "old"
  /\ seen = FALSE

PipelineNext ==
  \/ \E script \in Scripts : Transcribed(script)
  \/ TranscriptionFails \/ RefinementDisabled \/ RefinementFails \/ ProviderAnswers
  \/ DeliverNothing \/ DeliverToClipboard \/ DeliverByTyping
  \/ HyprctlLooks \/ HyprctlExits \/ HyprctlFails
  \/ StartTyping \/ RefuseToType \/ WtypeTypes \/ WtypeExits \/ WtypeTimesOut
  \/ HandleTypingFailure
  \/ CopierServes \/ CopierExits \/ CopierTimesOut
  \/ Complete \/ DropTask
  \/ \E window \in Windows \cup {NoWindow} : FocusMoves(window)
===============================================================================
