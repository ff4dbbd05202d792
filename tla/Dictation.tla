------------------------------ MODULE Dictation -------------------------------
(***************************************************************************)
(* One dictation from the microphone to the screen: the recording of Capture *)
(* with its live preview, then the pipeline of Pipeline, which gets the       *)
(* recording's audio, its first issue and the window that was active when it  *)
(* began.                                                                    *)
(***************************************************************************)
EXTENDS Capture, Pipeline

VARIABLE target   \* the window captured when the recording began

vars == <<captureVars, pipelineVars, target>>

Init == CaptureInit /\ PipelineInit /\ target = focus

(* The recording is consumed; what it held is of no further use.             *)
StartPipeline ==
  /\ phase = "finished"
  /\ StartTask(issue, target)
  /\ phase' = "consumed"
  /\ ratio' = 1 /\ captured' = 0 /\ input' = <<>> /\ free' = PoolSize /\ filled' = <<>>
  /\ held' = NoBlock /\ worker' = "done" /\ accepting' = FALSE
  /\ resampler' = NewResampler(1) /\ samples' = <<>> /\ issue' = "none"
  /\ preview' = NewPreview
  /\ UNCHANGED <<stream, target>>

Record == CaptureNext /\ UNCHANGED <<pipelineVars, target>>
Process == phase = "consumed" /\ PipelineNext /\ UNCHANGED <<captureVars, target>>

Next == Record \/ StartPipeline \/ Process
Spec == Init /\ [][Next]_vars

-----------------------------------------------------------------------------
(* The types of all variables.  A block of the pool is free, filled or in    *)
(* the worker's hands: none is ever lost, or the callback would run dry.     *)
TypeOK ==
  /\ phase \in {"recording", "closing", "finished", "failed", "consumed"}
  /\ stream \in BOOLEAN /\ accepting \in BOOLEAN
  /\ captured \in 0 .. MaxFrames
  /\ free + Len(filled) + (IF held = NoBlock THEN 0 ELSE 1) = PoolSize
  /\ \A k \in DOMAIN filled : Len(filled[k]) \in 1 .. BlockFrames
  /\ worker \in {"running", "limit", "done"}
  /\ Len(samples) <= MaxSamples
  /\ issue \in {"none", "overflow", "device", "limit"}
  /\ preview.step \in {"sleeping", "counted", "listening"}
  /\ pipeline.step \in Steps /\ pipeline.issue \in {"none", "overflow", "device", "limit"}
  /\ children \subseteq Programs
  /\ observed \in Windows \cup {NoWindow, None} /\ focus \in Windows \cup {NoWindow}
  /\ Len(screen) <= Parts /\ clipboard \in {"old", "transcript", "empty"}
  /\ seen \in BOOLEAN /\ target \in Windows \cup {NoWindow}

(* The audio that is transcribed is everything the microphone delivered until *)
(* the recording stopped, or its beginning up to the limit when the limit is  *)
(* what is reported; with any other issue it still is in order and without a  *)
(* sample twice (Recording::finish, capture_worker, append_capture_samples).  *)
AudioIsWhole ==
  phase = "finished" =>
    LET Sample(k) == (k - 1) * ratio + 1
        total == (captured + ratio - 1) \div ratio
    IN /\ issue = "none" => Audio = [k \in 1 .. total |-> Sample(k)]
       /\ issue = "limit" => total > MaxSamples /\ Audio = [k \in 1 .. MaxSamples |-> Sample(k)]
       /\ \A i, j \in DOMAIN Audio : i < j => Audio[i] < Audio[j]

(* Windows that overlap are merged into one transcript (spawn_preview_loop,   *)
(* preview_window, merge_preview).  With a recogniser that hears every word,  *)
(* whatever words are said again: the preview shows words that were said, in  *)
(* their order and none of them twice; unless a window failed, it ends with   *)
(* the newest word of the last window; and when in no window a word is said   *)
(* twice, it is all of the speech.  A word that is repeated within a window   *)
(* may be missing, for the longest overlap may take it for the one before.    *)
PreviewFollows ==
  preview.step = "sleeping" =>
    /\ \A i, j \in DOMAIN Heard : i < j => Heard[i] < Heard[j]
    /\ ~preview.missed /\ preview.last > 0 =>
         Heard # <<>> /\ Speech[Last(Heard)] = Speech[samples[preview.last]]
    /\ ~preview.missed /\ ~preview.repeats => Heard = SubSeq(samples, 1, preview.last)

(* A transcript is delivered as it was dictated or as an answer that says the *)
(* same, with the same numbers, and an answer that follows the instructions   *)
(* is refused only when an amount of money is taken back, for that amount is  *)
(* still counted (suspicious_error, currency_mentions).  Neither is claimed   *)
(* of a script that the analysis reads otherwise than the instructions:       *)
(* Misread names the three kinds.                                             *)
TextIsFaithful == pipeline.text.right

(* What the outcome reports is what happened (run_pipeline, deliver_to_target,*)
(* pipeline_notices, terminal_outcome, verify_target).  Nothing is typed      *)
(* unless the window of the recording was seen active.  "typed" means in      *)
(* full, "clipboard" that the clipboard holds the text and nothing was typed, *)
(* "nothing" and "failed" that both are untouched.  The two reports of a      *)
(* failure speak of the clipboard alone: before it, any part of the text may  *)
(* have been typed, all of it included.  Each notice is there exactly when    *)
(* what it tells of has happened, but a failed transcription has none at all: *)
(* the warning of its capture and of its debug log are dropped.               *)
ReportIsTrue ==
  /\ screen # <<>> => seen /\ ~pipeline.text.control
  /\ pipeline.step = "done" =>
       /\ pipeline.result = "typed" => Len(screen) = Parts /\ clipboard = "old"
       /\ pipeline.result = "clipboard" => clipboard = "transcript" /\ screen = <<>>
       /\ pipeline.result = "clipboard_fallback" => clipboard = "transcript"
       /\ pipeline.result = "error" => clipboard # "transcript"
       /\ pipeline.result \in {"nothing", "failed"} => screen = <<>> /\ clipboard = "old"
       /\ pipeline.result = "failed" => pipeline.notices = {}
       /\ pipeline.result # "failed" =>
            /\ "post_processing_fallback" \in pipeline.notices
                 <=> pipeline.asked /\ pipeline.text.source = "raw"
            /\ \A warning \in {"overflow", "device", "limit"} :
                 warning \in pipeline.notices <=> pipeline.issue = warning
            /\ "clipboard_fallback" \in pipeline.notices
                 <=> clipboard = "transcript" /\ pipeline.fallback
            /\ "debug_write_failed" \in pipeline.notices <=> pipeline.unlogged

(* No child outlives the step that waits for it: nothing is typed once typing *)
(* has failed, timed out or been aborted (stop_child, kill_on_drop).          *)
OnlyTypesWhileTyping == [][screen' # screen => pipeline.step = "typing"]_vars
===============================================================================
