---------------------------- MODULE DictationProofs ----------------------------
(***************************************************************************)
(* Theorems about one dictation: that the recording's audio is what the      *)
(* microphone delivered, that the preview follows it, that the report is     *)
(* true of what was typed and copied, and that the validator's number parser *)
(* reads what was said.                                                      *)
(***************************************************************************)
EXTENDS Dictation, TLAPS, WellFoundedInduction

(* ---------------------------- the recording ----------------------------- *)

Issues == {"none", "overflow", "device", "limit"}
Frames == Nat \ {0}

(* The frames of a block follow each other without a gap.                    *)
Block == {b \in Seq(Frames) : b # <<>> /\ \A j \in DOMAIN b : b[j] = b[1] + j - 1}
PoolBlock == {b \in Block : Len(b) <= BlockFrames}
End(block) == block[Len(block)]

HoldsBlock == held # NoBlock /\ held # <<>>
Held == IF held = NoBlock THEN 0 ELSE 1

CaptureTypeOK ==
  /\ phase \in {"recording", "closing", "finished", "failed", "consumed"}
  /\ stream \in BOOLEAN /\ accepting \in BOOLEAN
  /\ ratio \in Nat \ {0}
  /\ captured \in 0 .. MaxFrames
  /\ input \in Block \cup {<<>>}
  /\ filled \in Seq(PoolBlock)
  /\ held \in PoolBlock \cup {<<>>, NoBlock}
  /\ free \in Nat /\ free + Len(filled) + Held = PoolSize
  /\ worker \in {"running", "limit", "done"}
  /\ samples \in Seq(Nat) /\ Len(samples) <= MaxSamples
  /\ issue \in Issues

(* Frames are neither reordered nor doubled on their way to the worker, and   *)
(* none is lost as long as no issue is reported.  The worker is done with     *)
(* the frames up to last.                                                     *)
Links(a, b) == a < b /\ (issue = "none" => b = a + 1)
HeldEnd(last) == IF HoldsBlock THEN End(held) ELSE last
EndBefore(last, k) == IF k = 1 THEN HeldEnd(last) ELSE End(filled[k - 1])
InOrder(last) ==
  /\ last \in 0 .. captured
  /\ HoldsBlock => Links(last, held[1]) /\ End(held) <= captured
  /\ \A k \in DOMAIN filled :
       Links(EndBefore(last, k), filled[k][1]) /\ End(filled[k]) <= captured
  /\ input # <<>> =>
       Links(EndBefore(last, Len(filled) + 1), input[1]) /\ End(input) = captured
  /\ input = <<>> /\ issue = "none" => EndBefore(last, Len(filled) + 1) = captured

(* The samples are every ratio-th frame, as long as no frame is missing.     *)
Rising(s) == \A i, j \in DOMAIN s : i < j => s[i] < s[j]
FrameOf(k) == (k - 1) * ratio + 1
Whole(s) == \A k \in DOMAIN s : s[k] = FrameOf(k)

(* The resampler has not lost any of the frames up to last, which it was     *)
(* given: one sample in its delay line, the rest of a chunk pending.          *)
Decimated == IF ratio = 1 THEN Len(samples) ELSE Len(samples) + 1 - resampler.trim
Resampling(last) ==
  /\ resampler = [pending |-> resampler.pending, line |-> resampler.line,
                  trim |-> resampler.trim, in |-> resampler.in, out |-> resampler.out]
  /\ resampler.pending \in Seq(Frames) /\ resampler.line \in Seq(Nat)
  /\ Len(resampler.pending) < ratio
  /\ resampler.in = Decimated * ratio + Len(resampler.pending)
  /\ resampler.out = Len(samples)
  /\ IF ratio = 1 THEN resampler.trim = 0 /\ resampler.line = <<>>
     ELSE /\ resampler.trim \in {0, 1} /\ Len(resampler.line) = 1
          /\ resampler.trim = 1 => samples = <<>>
          /\ resampler.trim = 0 => resampler.line[1] \in Frames /\ resampler.line[1] <= last
  /\ Rising(resampler.pending)
  /\ \A j \in DOMAIN resampler.pending : resampler.pending[j] <= last
  /\ \A k \in DOMAIN samples : samples[k] <= last
  /\ ratio > 1 /\ resampler.trim = 0 =>
       /\ \A k \in DOMAIN samples : samples[k] < resampler.line[1]
       /\ \A j \in DOMAIN resampler.pending : resampler.line[1] < resampler.pending[j]
  /\ issue = "none" =>
       /\ last = resampler.in
       /\ \A j \in DOMAIN resampler.pending : resampler.pending[j] = Decimated * ratio + j
       /\ ratio > 1 /\ resampler.trim = 0 => resampler.line[1] = FrameOf(Decimated)

LimitPassed == Len(samples) = MaxSamples /\ MaxSamples * ratio < captured
CoversAll(n) == (Len(samples) - 1) * ratio < n /\ n <= Len(samples) * ratio

SamplesInOrder ==
  /\ \A k \in DOMAIN samples : samples[k] \in Frames
  /\ Rising(samples)
  /\ issue \in {"none", "limit"} => Whole(samples)
  /\ issue = "limit" => LimitPassed

WorkerOK ==
  /\ worker = "limit" => ~accepting /\ ~HoldsBlock
  /\ issue = "limit" => ~accepting
  /\ worker = "limit" /\ issue = "none" => LimitPassed
  /\ worker = "running" /\ issue = "none" => accepting
  /\ worker = "done" => held = NoBlock
  /\ worker = "done" /\ issue = "none" =>
       filled = <<>> /\ ~stream /\ CoversAll(captured)
  /\ stream <=> phase = "recording"
  /\ ~stream => input = <<>>
  /\ phase \in {"finished", "failed", "consumed"} => worker = "done"

Recorded(last) ==
  /\ InOrder(last)
  /\ worker = "running" /\ accepting => Resampling(last)

Recording == CaptureTypeOK /\ SamplesInOrder /\ WorkerOK /\ \E last \in Nat : Recorded(last)

(* ----------------------------- the preview ------------------------------- *)

(* What has been heard is some of the samples up to n, in order, each once;   *)
(* it ends with the words that the next window starts with, unless a window   *)
(* was missed and it all comes before the next one.                          *)
HeardFrom(n) == \A i \in DOMAIN Heard : \E m \in 1 .. n : Heard[i] = samples[m]
EndsWith(n) ==
  LET k == n - WindowStart(n)
  IN /\ Len(Heard) >= k
     /\ \A i \in 1 .. k :
          Speech[Heard[Len(Heard) - k + i]] = Speech[samples[WindowStart(n) + i]]
MergedUpTo(n) ==
  /\ n <= Len(samples) /\ Rising(Heard) /\ HeardFrom(n)
  /\ EndsWith(n) \/ (preview.missed /\ HeardFrom(WindowStart(n)))
  /\ ~preview.missed /\ ~preview.repeats => Heard = SubSeq(samples, 1, n)

HeardWord == [sample : Nat, stop : BOOLEAN]
PreviewOK ==
  /\ preview = [step |-> preview.step, last |-> preview.last, end |-> preview.end,
                segment |-> preview.segment, merged |-> preview.merged,
                missed |-> preview.missed, repeats |-> preview.repeats]
  /\ preview.step \in {"sleeping", "counted", "listening"}
  /\ preview.last \in Nat /\ preview.end \in Nat
  /\ preview.merged \in Seq(HeardWord)
  /\ preview.missed \in BOOLEAN /\ preview.repeats \in BOOLEAN
  /\ preview.step # "listening" => MergedUpTo(preview.last)
  /\ preview.step = "counted" =>
       preview.last + Cadence <= preview.end /\ preview.end <= Len(samples)
  /\ preview.step = "listening" => \E old \in Nat :
       /\ MergedUpTo(old)
       /\ old + Cadence <= preview.last /\ preview.last <= Len(samples)
       /\ preview.segment = Recognise(SubSeq(samples, WindowStart(old) + 1, preview.last))

(* ----------------------------- the pipeline ------------------------------ *)

Results == {"none", "nothing", "typed", "clipboard", "clipboard_fallback", "failed", "error"}

IsTask ==
  pipeline = [step |-> pipeline.step, issue |-> pipeline.issue, target |-> pipeline.target,
              script |-> pipeline.script, asked |-> pipeline.asked, text |-> pipeline.text,
              fallback |-> pipeline.fallback, result |-> pipeline.result,
              notices |-> pipeline.notices, unlogged |-> pipeline.unlogged]

PipelineTypeOK ==
  /\ IsTask
  /\ pipeline.step \in Steps /\ pipeline.issue \in Issues
  /\ pipeline.asked \in BOOLEAN /\ pipeline.fallback \in BOOLEAN
  /\ pipeline.result \in Results
  /\ children \subseteq Programs
  /\ observed \in Windows \cup {NoWindow, None} /\ focus \in Windows \cup {NoWindow}
  /\ screen \in Seq(Windows \cup {NoWindow}) /\ Len(screen) <= Parts
  /\ clipboard \in {"old", "transcript", "empty"}
  /\ seen \in BOOLEAN /\ target \in Windows \cup {NoWindow}

(* A child runs only while its step waits for it.                            *)
ChildrenAreAwaited ==
  /\ "hyprctl" \in children => At("resolving")
  /\ "wtype" \in children => At("typing")
  /\ "wl-copy" \in children => At("copying")

(* Typing waits for the window of the recording to be seen.                   *)
SeenBeforeTyping ==
  /\ observed # None => At("resolving") /\ (seen <=> observed = pipeline.target)
  /\ At("verified") => seen
  /\ At("typing") => seen /\ ~pipeline.text.control
  /\ screen # <<>> =>
       /\ seen /\ ~pipeline.text.control
       /\ pipeline.step \in {"typing", "failing", "copying", "logging", "done", "dropped"}

(* What each result says of the screen and of the clipboard.                 *)
ResultIsTrue ==
  /\ pipeline.step \notin {"copying", "logging", "done", "dropped"} =>
       clipboard = "old" /\ ~pipeline.fallback
  /\ pipeline.step = "copying" /\ ~pipeline.fallback => screen = <<>>
  /\ pipeline.step \in {"logging", "done"} =>
       /\ pipeline.result # "none"
       /\ pipeline.result = "typed" =>
            Len(screen) = Parts /\ clipboard = "old" /\ ~pipeline.fallback
       /\ pipeline.result = "clipboard" =>
            clipboard = "transcript" /\ screen = <<>> /\ ~pipeline.fallback
       /\ pipeline.result = "clipboard_fallback" => clipboard = "transcript" /\ pipeline.fallback
       /\ pipeline.result = "error" => clipboard # "transcript"
       /\ pipeline.result \in {"nothing", "failed"} => screen = <<>> /\ clipboard = "old"

NoticesAreTrue ==
  pipeline.step = "done" =>
    /\ pipeline.result = "failed" => pipeline.notices = {}
    /\ pipeline.result # "failed" =>
         /\ "post_processing_fallback" \in pipeline.notices
              <=> pipeline.asked /\ pipeline.text.source = "raw"
         /\ \A warning \in {"overflow", "device", "limit"} :
              warning \in pipeline.notices <=> pipeline.issue = warning
         /\ "clipboard_fallback" \in pipeline.notices <=> pipeline.result = "clipboard_fallback"
         /\ "debug_write_failed" \in pipeline.notices <=> pipeline.unlogged

Delivering ==
  PipelineTypeOK /\ ChildrenAreAwaited /\ SeenBeforeTyping /\ ResultIsTrue /\ NoticesAreTrue

LEMMA PipelineStarts == Init => Delivering
<1> SUFFICES ASSUME Init PROVE Delivering
  OBVIOUS
<1>1. pipeline = NoPipeline /\ children = {} /\ observed = None /\ screen = <<>>
      /\ clipboard = "old" /\ seen = FALSE /\ focus \in Windows \cup {NoWindow} /\ target = focus
  BY DEF Init, PipelineInit
<1>2. PipelineTypeOK
  <2>1. screen \in Seq(Windows \cup {NoWindow}) /\ Len(screen) <= Parts
    BY <1>1, PipelineAssumption
  <2> QED
    BY <1>1, <2>1 DEF PipelineTypeOK, IsTask, NoPipeline, Issues, Results, Steps
<1>3. ChildrenAreAwaited /\ SeenBeforeTyping
  BY <1>1 DEF ChildrenAreAwaited, SeenBeforeTyping, NoPipeline, At
<1>4. ResultIsTrue /\ NoticesAreTrue
  BY <1>1 DEF ResultIsTrue, NoticesAreTrue, NoPipeline
<1> QED
  BY <1>2, <1>3, <1>4 DEF Delivering

(* A step of the pipeline that changes nothing but its record.               *)
LEMMA TaskStarts ==
  ASSUME Delivering, CaptureTypeOK, StartPipeline
  PROVE  Delivering'
<1> USE DEF Delivering
<1>1. /\ pipeline.step = "none" /\ pipeline' = [NoPipeline EXCEPT !.step = "transcribing",
                              !.issue = issue, !.target = target]
      /\ children' = children /\ observed' = observed /\ focus' = focus /\ screen' = screen
      /\ clipboard' = clipboard /\ seen' = seen /\ target' = target
  BY DEF StartPipeline, StartTask, desktopVars
<1>2. issue \in Issues
  BY DEF CaptureTypeOK
<1>3. PipelineTypeOK'
  <2>1. IsTask'
    BY <1>1 DEF IsTask, NoPipeline
  <2>2. /\ pipeline'.step = "transcribing" /\ pipeline'.issue = issue /\ pipeline'.asked = FALSE
        /\ pipeline'.fallback = FALSE /\ pipeline'.result = "none"
    BY <1>1 DEF NoPipeline
  <2>3. pipeline'.step \in Steps /\ pipeline'.result \in Results
    BY <2>2 DEF Steps, Results
  <2>4. /\ children' \subseteq Programs
        /\ observed' \in Windows \cup {NoWindow, None} /\ focus' \in Windows \cup {NoWindow}
        /\ screen' \in Seq(Windows \cup {NoWindow}) /\ Len(screen') <= Parts
        /\ clipboard' \in {"old", "transcript", "empty"}
        /\ seen' \in BOOLEAN /\ target' \in Windows \cup {NoWindow}
    BY <1>1 DEF PipelineTypeOK
  <2> QED
    BY <2>1, <2>2, <2>3, <2>4, <1>2 DEF PipelineTypeOK
<1>4. (ChildrenAreAwaited /\ SeenBeforeTyping)'
  BY <1>1 DEF ChildrenAreAwaited, SeenBeforeTyping, NoPipeline, At
<1>5. (ResultIsTrue /\ NoticesAreTrue)'
  BY <1>1 DEF ResultIsTrue, NoticesAreTrue, NoPipeline
<1> QED
  BY <1>3, <1>4, <1>5

(* What most steps leave of the task as it is.                               *)
SameTask ==
  /\ pipeline'.issue = pipeline.issue /\ pipeline'.target = pipeline.target
  /\ pipeline'.asked = pipeline.asked /\ pipeline'.text = pipeline.text
  /\ pipeline'.notices = pipeline.notices

LEMMA TaskGoes ==
  ASSUME IsTask, NEW step, GoTo(step)
  PROVE  /\ IsTask' /\ SameTask /\ pipeline'.step = step
         /\ pipeline'.fallback = pipeline.fallback /\ pipeline'.result = pipeline.result
         /\ pipeline'.script = pipeline.script
  BY DEF IsTask, SameTask, GoTo

LEMMA TaskDelivers ==
  ASSUME IsTask, NEW result, Deliver(result)
  PROVE  /\ IsTask' /\ SameTask /\ pipeline'.step = "logging"
         /\ pipeline'.fallback = pipeline.fallback /\ pipeline'.result = result
  BY DEF IsTask, SameTask, Deliver

LEMMA TaskCopies ==
  ASSUME IsTask, NEW asFallback \in BOOLEAN, StartCopying(asFallback)
  PROVE  /\ IsTask' /\ SameTask
         /\ \/ /\ pipeline'.step = "copying" /\ pipeline'.result = pipeline.result
               /\ pipeline'.fallback = asFallback /\ children' = children \cup {"wl-copy"}
            \/ /\ pipeline'.step = "logging" /\ pipeline'.result = "error"
               /\ pipeline'.fallback = pipeline.fallback /\ children' = children
<1>1. CASE Deliver("error") /\ UNCHANGED children
  BY <1>1, TaskDelivers
<1>2. CASE /\ pipeline' = [pipeline EXCEPT !.step = "copying", !.fallback = asFallback]
           /\ children' = children \cup {"wl-copy"}
  BY <1>2 DEF IsTask, SameTask
<1> QED
  BY <1>1, <1>2 DEF StartCopying

(* Up to the delivery nothing is typed and nothing is copied.                *)
LEMMA Transcribing ==
  ASSUME Delivering, UNCHANGED target,
         \/ \E script \in Scripts : Transcribed(script)
         \/ TranscriptionFails \/ RefinementDisabled \/ RefinementFails \/ ProviderAnswers
  PROVE  Delivering'
<1> USE DEF Delivering
<1>1. CASE \E script \in Scripts : Transcribed(script)
  <2>1. PICK script \in Scripts : Transcribed(script)
    BY <1>1
  <2>2. IsTask' /\ SameTask /\ pipeline.step = "transcribing" /\ pipeline'.step = "refining"
        /\ pipeline'.result = pipeline.result /\ pipeline'.fallback = pipeline.fallback
    BY <2>1 DEF Transcribed, PipelineTypeOK, IsTask, SameTask
  <2>3. UNCHANGED <<children, observed, focus, screen, clipboard, seen>>
    BY <2>1 DEF Transcribed, desktopVars
  <2>4. PipelineTypeOK'
    BY <2>2, <2>3 DEF PipelineTypeOK, SameTask, Steps
  <2>5. (ChildrenAreAwaited /\ SeenBeforeTyping)'
    BY <2>2, <2>3 DEF ChildrenAreAwaited, SeenBeforeTyping, SameTask, At
  <2>6. (ResultIsTrue /\ NoticesAreTrue)'
    BY <2>2, <2>3 DEF ResultIsTrue, NoticesAreTrue, SameTask
  <2> QED
    BY <2>4, <2>5, <2>6
<1>2. CASE TranscriptionFails
  <2>1. Deliver("failed")
    BY <1>2 DEF TranscriptionFails, Deliver
  <2>2. IsTask' /\ SameTask /\ pipeline.step = "transcribing" /\ pipeline'.step = "logging"
        /\ pipeline'.result = "failed" /\ pipeline'.fallback = pipeline.fallback
    BY <1>2, <2>1, TaskDelivers DEF TranscriptionFails, PipelineTypeOK
  <2>3. UNCHANGED <<children, observed, focus, screen, clipboard, seen>>
    BY <1>2 DEF TranscriptionFails, desktopVars
  <2>4. PipelineTypeOK'
    BY <2>2, <2>3 DEF PipelineTypeOK, SameTask, Steps, Results
  <2>5. (ChildrenAreAwaited /\ SeenBeforeTyping)'
    BY <2>2, <2>3 DEF ChildrenAreAwaited, SeenBeforeTyping, SameTask, At
  <2>6. (ResultIsTrue /\ NoticesAreTrue)'
    BY <2>2, <2>3 DEF ResultIsTrue, NoticesAreTrue, SameTask, SeenBeforeTyping
  <2> QED
    BY <2>4, <2>5, <2>6
<1>3. CASE RefinementDisabled \/ RefinementFails \/ ProviderAnswers
  <2>1. PICK asked \in BOOLEAN : \E text : Refined(text, asked)
    <3>1. CASE RefinementDisabled
      BY <3>1, Zenon DEF RefinementDisabled
    <3>2. CASE RefinementFails
      BY <3>2, Zenon DEF RefinementFails
    <3>3. CASE ProviderAnswers
      BY <3>3, Zenon DEF ProviderAnswers
    <3> QED
      BY <1>3, <3>1, <3>2, <3>3
  <2>2. /\ IsTask' /\ pipeline.step = "refining" /\ pipeline'.step = "delivering"
        /\ pipeline'.result = pipeline.result /\ pipeline'.fallback = pipeline.fallback
        /\ pipeline'.issue = pipeline.issue /\ pipeline'.asked = asked
    BY <1>3, <2>1 DEF Refined, RefinementDisabled, RefinementFails, ProviderAnswers,
                      PipelineTypeOK, IsTask
  <2>3. UNCHANGED <<children, observed, focus, screen, clipboard, seen>>
    BY <1>3 DEF RefinementDisabled, RefinementFails, ProviderAnswers, desktopVars
  <2>4. PipelineTypeOK'
    BY <2>2, <2>3 DEF PipelineTypeOK, Steps
  <2>5. (ChildrenAreAwaited /\ SeenBeforeTyping)'
    BY <2>2, <2>3 DEF ChildrenAreAwaited, SeenBeforeTyping, At
  <2>6. (ResultIsTrue /\ NoticesAreTrue)'
    BY <2>2, <2>3 DEF ResultIsTrue, NoticesAreTrue
  <2> QED
    BY <2>4, <2>5, <2>6
<1> QED
  BY <1>1, <1>2, <1>3

(* The delivery by typing: the window is verified, then the text is typed.    *)
LEMMA Verifying ==
  ASSUME Delivering, UNCHANGED target,
         DeliverByTyping \/ HyprctlLooks \/ HyprctlExits \/ HyprctlFails
  PROVE  Delivering'
<1> USE DEF Delivering
<1>1. CASE DeliverByTyping
  <2>1. PICK step \in {"resolving", "failing"} :
          /\ GoTo(step)
          /\ children' = IF step = "resolving" THEN children \cup {"hyprctl"} ELSE children
    BY <1>1 DEF DeliverByTyping
  <2>2. /\ IsTask' /\ SameTask /\ pipeline.step = "delivering" /\ pipeline'.step = step
        /\ pipeline'.result = pipeline.result /\ pipeline'.fallback = pipeline.fallback
    BY <1>1, <2>1, TaskGoes DEF DeliverByTyping, At, PipelineTypeOK
  <2>3. UNCHANGED <<observed, focus, screen, clipboard, seen>>
    BY <1>1 DEF DeliverByTyping, desktopVars
  <2>4. PipelineTypeOK'
    BY <2>1, <2>2, <2>3 DEF PipelineTypeOK, SameTask, Steps, Programs
  <2>5. (ChildrenAreAwaited /\ SeenBeforeTyping)'
    BY <2>1, <2>2, <2>3 DEF ChildrenAreAwaited, SeenBeforeTyping, SameTask, At
  <2>6. (ResultIsTrue /\ NoticesAreTrue)'
    BY <2>1, <2>2, <2>3 DEF ResultIsTrue, NoticesAreTrue, SameTask
  <2> QED
    BY <2>4, <2>5, <2>6
<1>2. CASE HyprctlLooks
  <2>1. /\ At("resolving") /\ observed' = focus /\ seen' = (focus = pipeline.target)
        /\ UNCHANGED <<pipeline, children, focus, screen, clipboard>>
    BY <1>2 DEF HyprctlLooks, ChildrenAreAwaited
  <2>2. PipelineTypeOK'
    BY <2>1 DEF PipelineTypeOK, IsTask
  <2>3. (ChildrenAreAwaited /\ SeenBeforeTyping)'
    BY <2>1 DEF ChildrenAreAwaited, SeenBeforeTyping, At
  <2>4. (ResultIsTrue /\ NoticesAreTrue)'
    BY <2>1 DEF ResultIsTrue, NoticesAreTrue
  <2> QED
    BY <2>2, <2>3, <2>4
<1>3. CASE HyprctlExits
  <2>1. PICK step \in {"verified", "failing"} :
          GoTo(step) /\ (step = "verified" <=> observed = pipeline.target)
    BY <1>3 DEF HyprctlExits
  <2>2. /\ IsTask' /\ SameTask /\ pipeline.step = "resolving" /\ pipeline'.step = step
        /\ pipeline'.result = pipeline.result /\ pipeline'.fallback = pipeline.fallback
    BY <1>3, <2>1, TaskGoes DEF HyprctlExits, At, PipelineTypeOK
  <2>3. /\ observed # None /\ children' = children \ {"hyprctl"} /\ observed' = None
        /\ UNCHANGED <<focus, screen, clipboard, seen>>
    BY <1>3 DEF HyprctlExits
  <2>4. PipelineTypeOK'
    BY <2>2, <2>3 DEF PipelineTypeOK, SameTask, Steps, Programs
  <2>5. (ChildrenAreAwaited /\ SeenBeforeTyping)'
    BY <2>1, <2>2, <2>3 DEF ChildrenAreAwaited, SeenBeforeTyping, SameTask, At
  <2>6. (ResultIsTrue /\ NoticesAreTrue)'
    BY <2>2, <2>3 DEF ResultIsTrue, NoticesAreTrue, SameTask
  <2> QED
    BY <2>4, <2>5, <2>6
<1>4. CASE HyprctlFails
  <2>2. /\ IsTask' /\ SameTask /\ pipeline.step = "resolving" /\ pipeline'.step = "failing"
        /\ pipeline'.result = pipeline.result /\ pipeline'.fallback = pipeline.fallback
    BY <1>4, TaskGoes DEF HyprctlFails, At, PipelineTypeOK
  <2>3. /\ children' = children \ {"hyprctl"} /\ observed' = None
        /\ UNCHANGED <<focus, screen, clipboard, seen>>
    BY <1>4 DEF HyprctlFails, StopChild
  <2>4. PipelineTypeOK'
    BY <2>2, <2>3 DEF PipelineTypeOK, SameTask, Steps, Programs
  <2>5. (ChildrenAreAwaited /\ SeenBeforeTyping)'
    BY <2>2, <2>3 DEF ChildrenAreAwaited, SeenBeforeTyping, SameTask, At
  <2>6. (ResultIsTrue /\ NoticesAreTrue)'
    BY <2>2, <2>3 DEF ResultIsTrue, NoticesAreTrue, SameTask
  <2> QED
    BY <2>4, <2>5, <2>6
<1> QED
  BY <1>1, <1>2, <1>3, <1>4

LEMMA Typing ==
  ASSUME Delivering, UNCHANGED target,
         StartTyping \/ RefuseToType \/ WtypeTypes \/ WtypeExits \/ WtypeTimesOut
  PROVE  Delivering'
<1> USE DEF Delivering
<1>1. CASE StartTyping \/ RefuseToType
  <2>1. PICK step \in {"typing", "failing"} :
          /\ GoTo(step)
          /\ children' = IF step = "typing" THEN children \cup {"wtype"} ELSE children
          /\ step = "typing" => ~pipeline.text.control
    BY <1>1 DEF StartTyping, RefuseToType
  <2>2. /\ IsTask' /\ SameTask /\ pipeline.step = "verified" /\ pipeline'.step = step
        /\ pipeline'.result = pipeline.result /\ pipeline'.fallback = pipeline.fallback
    BY <1>1, <2>1, TaskGoes DEF StartTyping, RefuseToType, At, PipelineTypeOK
  <2>3. UNCHANGED <<observed, focus, screen, clipboard, seen>>
    BY <1>1 DEF StartTyping, RefuseToType, desktopVars
  <2>4. PipelineTypeOK'
    BY <2>1, <2>2, <2>3 DEF PipelineTypeOK, SameTask, Steps, Programs
  <2>5. (ChildrenAreAwaited /\ SeenBeforeTyping)'
    BY <2>1, <2>2, <2>3 DEF ChildrenAreAwaited, SeenBeforeTyping, SameTask, At
  <2>6. (ResultIsTrue /\ NoticesAreTrue)'
    BY <2>1, <2>2, <2>3 DEF ResultIsTrue, NoticesAreTrue, SameTask
  <2> QED
    BY <2>4, <2>5, <2>6
<1>2. CASE WtypeTypes
  <2>1. /\ At("typing") /\ Len(screen) < Parts /\ screen' = Append(screen, focus)
        /\ UNCHANGED <<pipeline, children, observed, focus, clipboard, seen>>
    BY <1>2 DEF WtypeTypes, ChildrenAreAwaited
  <2>2. screen' \in Seq(Windows \cup {NoWindow}) /\ Len(screen') <= Parts
    BY <2>1, PipelineAssumption DEF PipelineTypeOK
  <2>3. PipelineTypeOK'
    BY <2>1, <2>2 DEF PipelineTypeOK, IsTask
  <2>4. (ChildrenAreAwaited /\ SeenBeforeTyping)'
    BY <2>1 DEF ChildrenAreAwaited, SeenBeforeTyping, At
  <2>5. (ResultIsTrue /\ NoticesAreTrue)'
    BY <2>1 DEF ResultIsTrue, NoticesAreTrue, At
  <2> QED
    BY <2>3, <2>4, <2>5
<1>3. CASE WtypeExits \/ WtypeTimesOut
  <2>1. /\ IsTask' /\ SameTask /\ pipeline.step = "typing"
        /\ pipeline'.step \in {"failing", "logging"} /\ pipeline'.fallback = pipeline.fallback
        /\ pipeline'.result \in {pipeline.result, "typed"}
        /\ pipeline'.step = "logging" => pipeline'.result = "typed" /\ Len(screen) = Parts
    <3>1. pipeline.step = "typing" /\ IsTask
      BY <1>3 DEF WtypeExits, WtypeTimesOut, At, PipelineTypeOK
    <3>2. \/ GoTo("failing")
          \/ Deliver("typed") /\ Len(screen) = Parts
      BY <1>3 DEF WtypeExits, WtypeTimesOut
    <3>3. CASE GoTo("failing")
      BY <3>1, <3>3, TaskGoes
    <3>4. CASE Deliver("typed") /\ Len(screen) = Parts
      BY <3>1, <3>4, TaskDelivers
    <3> QED
      BY <3>2, <3>3, <3>4
  <2>2. /\ children' = children \ {"wtype"}
        /\ UNCHANGED <<observed, focus, screen, clipboard, seen>>
    BY <1>3 DEF WtypeExits, WtypeTimesOut, StopChild, desktopVars
  <2>3. PipelineTypeOK'
    BY <2>1, <2>2 DEF PipelineTypeOK, SameTask, Steps, Programs, Results
  <2>4. (ChildrenAreAwaited /\ SeenBeforeTyping)'
    BY <2>1, <2>2 DEF ChildrenAreAwaited, SeenBeforeTyping, SameTask, At
  <2>5. (ResultIsTrue /\ NoticesAreTrue)'
    BY <2>1, <2>2 DEF ResultIsTrue, NoticesAreTrue, SameTask
  <2> QED
    BY <2>3, <2>4, <2>5
<1> QED
  BY <1>1, <1>2, <1>3

(* The delivery to the clipboard, or of nothing.                             *)
LEMMA Copying ==
  ASSUME Delivering, UNCHANGED target,
         \/ DeliverNothing \/ DeliverToClipboard \/ HandleTypingFailure
         \/ CopierServes \/ CopierExits \/ CopierTimesOut
  PROVE  Delivering'
<1> USE DEF Delivering
<1>1. CASE DeliverNothing
  <2>1. /\ IsTask' /\ SameTask /\ pipeline.step = "delivering" /\ pipeline'.step = "logging"
        /\ pipeline'.result = "nothing" /\ pipeline'.fallback = pipeline.fallback
    BY <1>1, TaskDelivers DEF DeliverNothing, At, PipelineTypeOK
  <2>2. UNCHANGED <<children, observed, focus, screen, clipboard, seen>>
    BY <1>1 DEF DeliverNothing, desktopVars
  <2>3. PipelineTypeOK'
    BY <2>1, <2>2 DEF PipelineTypeOK, SameTask, Steps, Results
  <2>4. (ChildrenAreAwaited /\ SeenBeforeTyping)'
    BY <2>1, <2>2 DEF ChildrenAreAwaited, SeenBeforeTyping, SameTask, At
  <2>5. (ResultIsTrue /\ NoticesAreTrue)'
    BY <2>1, <2>2 DEF ResultIsTrue, NoticesAreTrue, SeenBeforeTyping, SameTask
  <2> QED
    BY <2>3, <2>4, <2>5
<1>2. CASE DeliverToClipboard \/ HandleTypingFailure
  <2>1. /\ IsTask' /\ SameTask /\ pipeline.step \in {"delivering", "failing"}
        /\ pipeline'.fallback \in BOOLEAN
        /\ pipeline.step # "delivering" /\ pipeline'.step = "copying" => pipeline'.fallback
        /\ \/ /\ pipeline'.step = "copying" /\ pipeline'.result = pipeline.result
              /\ children' = children \cup {"wl-copy"}
           \/ /\ pipeline'.step = "logging" /\ pipeline'.result = "error"
              /\ children' = children
    <3>1. IsTask /\ pipeline.fallback \in BOOLEAN
      BY DEF PipelineTypeOK
    <3>2. CASE DeliverToClipboard
      BY <3>1, <3>2, TaskCopies DEF DeliverToClipboard, At
    <3>3. CASE HandleTypingFailure /\ StartCopying(TRUE)
      BY <3>1, <3>3, TaskCopies DEF HandleTypingFailure, At
    <3>4. CASE HandleTypingFailure /\ Deliver("error") /\ UNCHANGED children
      BY <3>1, <3>4, TaskDelivers DEF HandleTypingFailure, At
    <3> QED
      BY <1>2, <3>2, <3>3, <3>4 DEF HandleTypingFailure
  <2>2. UNCHANGED <<observed, focus, screen, clipboard, seen>>
    BY <1>2 DEF DeliverToClipboard, HandleTypingFailure, desktopVars
  <2>3. PipelineTypeOK'
    BY <2>1, <2>2 DEF PipelineTypeOK, SameTask, Steps, Results, Programs
  <2>4. (ChildrenAreAwaited /\ SeenBeforeTyping)'
    BY <2>1, <2>2 DEF ChildrenAreAwaited, SeenBeforeTyping, SameTask, At
  <2>5. pipeline.step = "delivering" => screen = <<>>
    BY DEF SeenBeforeTyping
  <2>6. (ResultIsTrue /\ NoticesAreTrue)'
    BY <2>1, <2>2, <2>5 DEF ResultIsTrue, NoticesAreTrue, SameTask
  <2> QED
    BY <2>3, <2>4, <2>6
<1>3. CASE CopierServes
  <2>1. /\ At("copying") /\ clipboard' = "transcript"
        /\ UNCHANGED <<pipeline, children, observed, focus, screen, seen>>
    BY <1>3 DEF CopierServes, ChildrenAreAwaited
  <2>2. PipelineTypeOK'
    BY <2>1 DEF PipelineTypeOK, IsTask
  <2>3. (ChildrenAreAwaited /\ SeenBeforeTyping)'
    BY <2>1 DEF ChildrenAreAwaited, SeenBeforeTyping, At
  <2>4. (ResultIsTrue /\ NoticesAreTrue)'
    BY <2>1 DEF ResultIsTrue, NoticesAreTrue, At
  <2> QED
    BY <2>2, <2>3, <2>4
<1>4. CASE CopierExits \/ CopierTimesOut
  <2>1. PICK result \in {"clipboard", "clipboard_fallback", "error"} :
          /\ Deliver(result)
          /\ result = "error" => clipboard' # "transcript"
          /\ result # "error" => clipboard' = "transcript"
          /\ result = "clipboard" => ~pipeline.fallback
          /\ result = "clipboard_fallback" => pipeline.fallback
    BY <1>4 DEF CopierExits, CopierTimesOut, StopChild, desktopVars
  <2>2. /\ IsTask' /\ SameTask /\ pipeline.step = "copying" /\ pipeline'.step = "logging"
        /\ pipeline'.result = result /\ pipeline'.fallback = pipeline.fallback
    BY <1>4, <2>1, TaskDelivers DEF CopierExits, CopierTimesOut, At, PipelineTypeOK
  <2>3. /\ children' = children \ {"wl-copy"} /\ clipboard' \in {clipboard, "empty"}
        /\ UNCHANGED <<observed, focus, screen, seen>>
    BY <1>4 DEF CopierExits, CopierTimesOut, StopChild, desktopVars
  <2>4. PipelineTypeOK'
    BY <2>2, <2>3 DEF PipelineTypeOK, SameTask, Steps, Results
  <2>5. (ChildrenAreAwaited /\ SeenBeforeTyping)'
    BY <2>2, <2>3 DEF ChildrenAreAwaited, SeenBeforeTyping, SameTask, At
  <2>6. (ResultIsTrue /\ NoticesAreTrue)'
    BY <2>1, <2>2, <2>3 DEF ResultIsTrue, NoticesAreTrue, SameTask
  <2> QED
    BY <2>4, <2>5, <2>6
<1> QED
  BY <1>1, <1>2, <1>3, <1>4

(* The report, the abort, and the user.                                      *)
LEMMA Ending ==
  ASSUME Delivering, UNCHANGED target,
         \/ Complete \/ DropTask
         \/ \E window \in Windows \cup {NoWindow} : FocusMoves(window)
  PROVE  Delivering'
<1> USE DEF Delivering
<1>1. CASE Complete
  <2>1. PICK unlogged \in BOOLEAN :
          pipeline' = [pipeline EXCEPT !.step = "done", !.unlogged = unlogged,
                         !.notices = IF pipeline.result = "failed" THEN {}
                                     ELSE PipelineNotices \cup
                                          (IF unlogged THEN {"debug_write_failed"} ELSE {})]
    BY <1>1 DEF Complete
  <2>2. /\ IsTask' /\ pipeline.step = "logging" /\ pipeline'.step = "done"
        /\ pipeline'.issue = pipeline.issue /\ pipeline'.target = pipeline.target
        /\ pipeline'.asked = pipeline.asked /\ pipeline'.text = pipeline.text
        /\ pipeline'.fallback = pipeline.fallback /\ pipeline'.result = pipeline.result
        /\ pipeline'.unlogged = unlogged
        /\ pipeline.result = "failed" => pipeline'.notices = {}
        /\ pipeline.result # "failed" =>
             pipeline'.notices = PipelineNotices \cup
                                 (IF unlogged THEN {"debug_write_failed"} ELSE {})
    <3> HIDE DEF PipelineNotices
    <3> QED
      BY <1>1, <2>1 DEF Complete, At, PipelineTypeOK, IsTask
  <2>3. UNCHANGED <<children, observed, focus, screen, clipboard, seen>>
    BY <1>1 DEF Complete, desktopVars
  <2>4. PipelineTypeOK'
    BY <2>2, <2>3 DEF PipelineTypeOK, Steps
  <2>5. (ChildrenAreAwaited /\ SeenBeforeTyping)'
    BY <2>2, <2>3 DEF ChildrenAreAwaited, SeenBeforeTyping, At
  <2>6. ResultIsTrue'
    BY <2>2, <2>3 DEF ResultIsTrue
  <2>7. NoticesAreTrue'
    BY <2>1, <2>2 DEF NoticesAreTrue, PipelineNotices, PipelineTypeOK, Issues
  <2> QED
    BY <2>4, <2>5, <2>6, <2>7
<1>2. CASE DropTask
  <2>1. /\ IsTask' /\ SameTask /\ pipeline'.step = "dropped"
        /\ pipeline'.result = pipeline.result /\ pipeline'.fallback = pipeline.fallback
        /\ pipeline.step # "dropped"
    BY <1>2, TaskGoes DEF DropTask, PipelineTypeOK
  <2>2. /\ children' = {} /\ observed' = None
        /\ clipboard' \in {clipboard, "transcript", "empty"}
        /\ UNCHANGED <<focus, screen, seen>>
    BY <1>2 DEF DropTask
  <2>3. PipelineTypeOK'
    BY <2>1, <2>2 DEF PipelineTypeOK, SameTask, Steps
  <2>4. (ChildrenAreAwaited /\ SeenBeforeTyping)'
    BY <2>1, <2>2 DEF ChildrenAreAwaited, SeenBeforeTyping, SameTask, At
  <2>5. (ResultIsTrue /\ NoticesAreTrue)'
    BY <2>1, <2>2 DEF ResultIsTrue, NoticesAreTrue, SameTask
  <2> QED
    BY <2>3, <2>4, <2>5
<1>3. CASE \E window \in Windows \cup {NoWindow} : FocusMoves(window)
  <2>1. /\ focus' \in Windows \cup {NoWindow}
        /\ UNCHANGED <<pipeline, children, observed, screen, clipboard, seen>>
    BY <1>3 DEF FocusMoves
  <2> QED
    BY <2>1 DEF PipelineTypeOK, IsTask, ChildrenAreAwaited, SeenBeforeTyping, ResultIsTrue,
                NoticesAreTrue, At
<1> QED
  BY <1>1, <1>2, <1>3

LEMMA PipelineSteps ==
  ASSUME Delivering, PipelineNext, UNCHANGED target
  PROVE  Delivering'
<1>1. CASE \/ \E script \in Scripts : Transcribed(script)
           \/ TranscriptionFails \/ RefinementDisabled \/ RefinementFails \/ ProviderAnswers
  BY <1>1, Transcribing
<1>2. CASE DeliverByTyping \/ HyprctlLooks \/ HyprctlExits \/ HyprctlFails
  BY <1>2, Verifying
<1>3. CASE StartTyping \/ RefuseToType \/ WtypeTypes \/ WtypeExits \/ WtypeTimesOut
  BY <1>3, Typing
<1>4. CASE \/ DeliverNothing \/ DeliverToClipboard \/ HandleTypingFailure
           \/ CopierServes \/ CopierExits \/ CopierTimesOut
  BY <1>4, Copying
<1>5. CASE \/ Complete \/ DropTask
           \/ \E window \in Windows \cup {NoWindow} : FocusMoves(window)
  BY <1>5, Ending
<1> QED
  BY <1>1, <1>2, <1>3, <1>4, <1>5 DEF PipelineNext

(* -------------------------------- sequences ------------------------------ *)

LEMMA Quotient ==
  ASSUME NEW n \in Nat, NEW d \in Nat \ {0}
  PROVE  /\ n \div d \in Nat /\ n % d \in 0 .. d - 1 /\ n % d \in Nat
         /\ n = (n \div d) * d + (n % d)
  BY SMT

LEMMA TimesGrows ==
  ASSUME NEW a \in Int, NEW b \in Int, NEW d \in Nat, a <= b
  PROVE  a * d <= b * d
  BY SMT

LEMMA QuotientIs ==
  ASSUME NEW q \in Nat, NEW rest \in Nat, NEW d \in Nat \ {0}, rest < d
  PROVE  (q * d + rest) \div d = q /\ (q * d + rest) % d = rest
  BY SMT

(* The k-th of the elements one stride apart.                                *)
LEMMA Strides ==
  ASSUME NEW n \in Nat, NEW d \in Nat \ {0}, NEW k \in 1 .. n \div d
  PROVE  (k - 1) * d + 1 \in 1 .. (n \div d) * d /\ (n \div d) * d <= n
<1> DEFINE q == n \div d
<1>1. q \in Nat /\ q * d <= n /\ q * d \in Nat
  BY Quotient
<1> HIDE DEF q
<1>2. k \in Nat /\ k >= 1 /\ k <= q
  BY <1>1 DEF q
<1>3. k * d <= q * d /\ 0 <= (k - 1) * d
  BY <1>1, <1>2, SMT
<1>4. (k - 1) * d = k * d - d /\ k * d \in Nat
  BY <1>2, SMT
<1> QED
  BY <1>1, <1>3, <1>4 DEF q

LEMMA StridesRise ==
  ASSUME NEW i \in Int, NEW j \in Int, NEW d \in Nat \ {0}, i < j
  PROVE  (i - 1) * d + 1 < (j - 1) * d + 1 /\ (i - 1) * d + d <= (j - 1) * d
<1>1. i - 1 + 1 <= j - 1
  OBVIOUS
<1>2. (i - 1 + 1) * d <= (j - 1) * d
  BY <1>1, TimesGrows
<1>3. (i - 1 + 1) * d = (i - 1) * d + d /\ (i - 1) * d \in Int /\ (j - 1) * d \in Int
  BY SMT
<1> QED
  BY <1>2, <1>3

LEMMA SubSeqIs ==
  ASSUME NEW S, NEW s \in Seq(S), NEW a \in Nat, NEW b \in Nat, 1 <= a, a <= b + 1, b <= Len(s)
  PROVE  /\ SubSeq(s, a, b) \in Seq(S) /\ Len(SubSeq(s, a, b)) = b - a + 1
         /\ \A k \in 1 .. b - a + 1 : SubSeq(s, a, b)[k] = s[a + k - 1]
  OBVIOUS

LEMMA OneOf ==
  ASSUME NEW S, NEW s \in Seq(S), NEW n \in 1 .. Len(s)
  PROVE  SubSeq(s, n, n) = <<s[n]>>
<1> DEFINE one == SubSeq(s, n, n)
<1>1. one \in Seq(S) /\ Len(one) = 1 /\ one[1] = s[n]
  BY SubSeqIs
<1> HIDE DEF one
<1>2. one = <<one[1]>>
  BY <1>1
<1> QED
  BY <1>1, <1>2 DEF one

LEMMA Prefixed ==
  ASSUME NEW S, NEW x \in S, NEW t \in Seq(S)
  PROVE  /\ <<x>> \o t \in Seq(S) /\ Len(<<x>> \o t) = Len(t) + 1
         /\ (<<x>> \o t)[1] = x /\ \A k \in 1 .. Len(t) : (<<x>> \o t)[k + 1] = t[k]
  OBVIOUS

LEMMA Joined ==
  ASSUME NEW S, NEW s \in Seq(S), NEW t \in Seq(S)
  PROVE  /\ s \o t \in Seq(S) /\ Len(s \o t) = Len(s) + Len(t)
         /\ \A k \in 1 .. Len(s) : (s \o t)[k] = s[k]
         /\ \A k \in 1 .. Len(t) : (s \o t)[Len(s) + k] = t[k]
  OBVIOUS

LEMMA JoinsAlike ==
  ASSUME NEW s \in Seq(Nat), NEW t \in Seq(Nat), NEW u \in Seq(Nat)
  PROVE  s \o (t \o u) = (s \o t) \o u
  BY SMTT(20)

LEMMA DropIs ==
  ASSUME NEW S, NEW s \in Seq(S), NEW n \in 0 .. Len(s)
  PROVE  /\ Drop(s, n) \in Seq(S) /\ Len(Drop(s, n)) = Len(s) - n
         /\ \A k \in 1 .. Len(s) - n : Drop(s, n)[k] = s[n + k]
  BY DEF Drop

LEMMA DropsOne ==
  ASSUME NEW S, NEW s \in Seq(S), NEW t \in Seq(S), Len(s) = 1
  PROVE  Drop(s \o t, 1) = t
<1> DEFINE d == Drop(s \o t, 1)
<1>1. /\ s \o t \in Seq(S) /\ Len(s \o t) = 1 + Len(t)
      /\ \A k \in 1 .. Len(t) : (s \o t)[1 + k] = t[k]
  BY Joined
<1>2. 1 \in 0 .. Len(s \o t)
  BY <1>1
<1>3. /\ d \in Seq(S) /\ Len(d) = Len(t)
      /\ \A k \in 1 .. Len(t) : d[k] = t[k]
  <2>1. Len(s \o t) - 1 = Len(t) /\ 1 .. Len(s \o t) - 1 = 1 .. Len(t)
    BY <1>1
  <2>2. /\ d \in Seq(S) /\ Len(d) = Len(s \o t) - 1
        /\ \A k \in 1 .. Len(s \o t) - 1 : d[k] = (s \o t)[1 + k]
    <3>1. PICK st \in Seq(S) : st = s \o t
      BY <1>1
    <3>2. 1 \in 0 .. Len(st)
      BY <3>1, <1>2
    <3>3. /\ Drop(st, 1) \in Seq(S) /\ Len(Drop(st, 1)) = Len(st) - 1
          /\ \A k \in 1 .. Len(st) - 1 : Drop(st, 1)[k] = st[1 + k]
      BY <3>2, DropIs
    <3> QED
      BY <3>1, <3>3, Zenon
  <2> QED
    BY <1>1, <2>1, <2>2
<1> HIDE DEF d
<1>4. d = t
  BY <1>3
<1> QED
  BY <1>4 DEF d

LEMMA DropsToOne ==
  ASSUME NEW S, NEW s \in Seq(S), NEW n \in Nat, Len(s) = n + 1
  PROVE  Drop(s, n) = <<s[n + 1]>>
<1>1. n + 1 \in 1 .. Len(s)
  OBVIOUS
<1> QED
  BY <1>1, OneOf DEF Drop

LEMMA RisesOn ==
  ASSUME NEW s \in Seq(Nat), NEW t \in Seq(Nat), Rising(s), Rising(t),
         \A i \in DOMAIN s, j \in DOMAIN t : s[i] < t[j]
  PROVE  Rising(s \o t)
  BY SMTT(20) DEF Rising

(* What the resampler makes of its frames: every d-th, and a rest.            *)
Thinned(all, d) == [k \in 1 .. Len(all) \div d |-> all[(k - 1) * d + 1]]
Rest(all, d) == Drop(all, (Len(all) \div d) * d)

LEMMA Thinning ==
  ASSUME NEW d \in Nat \ {0}, NEW all \in Seq(Frames), Rising(all)
  PROVE  /\ Thinned(all, d) \in Seq(Frames) /\ Len(Thinned(all, d)) = Len(all) \div d
         /\ Rising(Thinned(all, d))
         /\ \A k \in DOMAIN Thinned(all, d) : Thinned(all, d)[k] = all[(k - 1) * d + 1]
         /\ \A k \in DOMAIN Thinned(all, d) : (k - 1) * d + 1 \in DOMAIN all
         /\ Rest(all, d) \in Seq(Frames) /\ Len(Rest(all, d)) < d
         /\ Len(all) = (Len(all) \div d) * d + Len(Rest(all, d))
         /\ \A j \in DOMAIN Rest(all, d) : Rest(all, d)[j] = all[(Len(all) \div d) * d + j]
         /\ \A j \in DOMAIN Rest(all, d) : (Len(all) \div d) * d + j \in DOMAIN all
         /\ Rising(Rest(all, d))
         /\ \A k \in DOMAIN Thinned(all, d), j \in DOMAIN Rest(all, d) :
              Thinned(all, d)[k] < Rest(all, d)[j]
<1> DEFINE n == Len(all)
           q == n \div d
           thin == Thinned(all, d)
           rest == Rest(all, d)
<1>1. n \in Nat /\ q \in Nat /\ q * d \in Nat /\ q * d <= n /\ n < q * d + d
  <2>1. n \in Nat
    OBVIOUS
  <2>2. q \in Nat /\ n = q * d + (n % d) /\ n % d \in 0 .. d - 1
    BY <2>1, Quotient
  <2> HIDE DEF q, n
  <2>3. q * d \in Nat
    BY <2>2, SMT
  <2> QED
    BY <2>1, <2>2, <2>3
<1>2. \A k \in 1 .. q : (k - 1) * d + 1 \in 1 .. q * d
  BY <1>1, Strides
<1>3. /\ thin = [k \in 1 .. q |-> all[(k - 1) * d + 1]]
      /\ rest = Drop(all, q * d)
  BY DEF Thinned, Rest
<1> HIDE DEF q, thin, rest
<1>4. /\ thin \in Seq(Frames) /\ Len(thin) = q /\ DOMAIN thin = 1 .. q
      /\ \A k \in 1 .. q : thin[k] = all[(k - 1) * d + 1] /\ (k - 1) * d + 1 \in DOMAIN all
  <2>1. ASSUME NEW k \in 1 .. q
        PROVE  (k - 1) * d + 1 \in DOMAIN all /\ all[(k - 1) * d + 1] \in Frames
    <3>1. (k - 1) * d + 1 \in 1 .. n
      BY <1>1, <1>2
    <3> QED
      BY <3>1
  <2>2. thin \in [1 .. q -> Frames]
    BY <2>1, <1>3
  <2>3. thin \in Seq(Frames) /\ Len(thin) = q /\ DOMAIN thin = 1 .. q
    BY <2>2, <1>1
  <2> QED
    BY <2>1, <2>3, <1>3
<1>5. /\ rest \in Seq(Frames) /\ Len(rest) = n - q * d
      /\ \A j \in 1 .. n - q * d : rest[j] = all[q * d + j] /\ q * d + j \in DOMAIN all
  <2>1. q * d \in 0 .. Len(all)
    BY <1>1
  <2>2. /\ rest \in Seq(Frames) /\ Len(rest) = n - q * d
        /\ \A j \in 1 .. n - q * d : rest[j] = all[q * d + j]
    BY <2>1, <1>3, DropIs
  <2> QED
    BY <1>1, <2>2
<1>6. Rising(thin)
  <2> SUFFICES ASSUME NEW i \in 1 .. q, NEW j \in 1 .. q, i < j
               PROVE  thin[i] < thin[j]
    BY <1>4 DEF Rising
  <2>1. (i - 1) * d + 1 < (j - 1) * d + 1
    BY <1>1, StridesRise
  <2> QED
    BY <2>1, <1>4 DEF Rising
<1>7. Rising(rest)
  <2> SUFFICES ASSUME NEW i \in 1 .. n - q * d, NEW j \in 1 .. n - q * d, i < j
               PROVE  rest[i] < rest[j]
    <3>1. DOMAIN rest = 1 .. n - q * d
      BY <1>1, <1>5
    <3> QED
      BY <3>1 DEF Rising
  <2>1. q * d + i < q * d + j
    BY <1>1
  <2> QED
    BY <2>1, <1>5 DEF Rising
<1>8. ASSUME NEW k \in 1 .. q, NEW j \in 1 .. n - q * d
      PROVE  thin[k] < rest[j]
  <2>1. (k - 1) * d + 1 \in 1 .. q * d
    BY <1>2
  <2>2. (k - 1) * d + 1 < q * d + j /\ (k - 1) * d + 1 \in DOMAIN all /\ q * d + j \in DOMAIN all
    BY <2>1, <1>1, <1>4, <1>5
  <2> QED
    BY <2>2, <1>4, <1>5 DEF Rising
<1>9. DOMAIN rest = 1 .. n - q * d
  BY <1>1, <1>5
<1>10. Len(rest) < d /\ Len(all) = q * d + Len(rest)
  BY <1>1, <1>5
<1> QED
  BY <1>4, <1>5, <1>6, <1>7, <1>8, <1>9, <1>10 DEF q, thin, rest

(* ------------------------------- resampling ------------------------------ *)

LEMMA BlockFacts ==
  ASSUME NEW b \in Block
  PROVE  /\ b \in Seq(Frames) /\ Len(b) \in Nat \ {0} /\ b[1] \in Frames
         /\ End(b) = b[1] + Len(b) - 1 /\ End(b) \in Frames
         /\ \A j \in DOMAIN b : b[j] = b[1] + j - 1 /\ b[1] <= b[j] /\ b[j] <= End(b)
         /\ Rising(b)
<1>1. b \in Seq(Frames) /\ b # <<>> /\ \A j \in DOMAIN b : b[j] = b[1] + j - 1
  BY DEF Block
<1>2. Len(b) \in Nat \ {0} /\ DOMAIN b = 1 .. Len(b)
  BY <1>1
<1>3. b[1] \in Frames
  BY <1>1, <1>2
<1>4. End(b) = b[1] + Len(b) - 1 /\ End(b) \in Frames
  BY <1>1, <1>2, <1>3 DEF End
<1>5. \A j \in DOMAIN b : b[1] <= b[j] /\ b[j] <= End(b)
  BY <1>1, <1>2, <1>3, <1>4 DEF Frames
<1>6. Rising(b)
  BY <1>1, <1>2, <1>3 DEF Rising, Frames
<1> QED
  BY <1>1, <1>2, <1>3, <1>4, <1>5, <1>6

(* The frames the resampler has: what is pending, and the new block.         *)
LEMMA Gathering ==
  ASSUME ratio \in Nat \ {0}, samples \in Seq(Nat), NEW last \in Nat, Resampling(last),
         NEW block \in Block, Links(last, block[1])
  PROVE  LET all == resampler.pending \o block
         IN /\ all \in Seq(Frames) /\ Len(all) = Len(resampler.pending) + Len(block)
            /\ Rising(all)
            /\ \A j \in DOMAIN all : all[j] <= End(block)
            /\ \A k \in DOMAIN samples : \A j \in DOMAIN all : samples[k] < all[j]
            /\ ratio > 1 /\ resampler.trim = 0 => \A j \in DOMAIN all : resampler.line[1] < all[j]
            /\ issue = "none" => \A j \in DOMAIN all : all[j] = Decimated * ratio + j
<1> DEFINE pending == resampler.pending
           all == pending \o block
<1>1. /\ block \in Seq(Frames) /\ Len(block) \in Nat \ {0} /\ block[1] \in Frames
      /\ \A j \in DOMAIN block : block[j] = block[1] + j - 1 /\ block[1] <= block[j]
                                 /\ block[j] <= End(block) /\ block[j] \in Frames
      /\ Rising(block)
  BY BlockFacts
<1>2. last < block[1] /\ (issue = "none" => block[1] = last + 1)
  BY DEF Links
<1>3. /\ pending \in Seq(Frames) /\ Rising(pending) /\ Len(pending) \in Nat
      /\ \A j \in DOMAIN pending : pending[j] <= last /\ pending[j] \in Frames
  BY DEF Resampling
<1> HIDE DEF pending
<1>4. /\ all \in Seq(Frames) /\ Len(all) = Len(pending) + Len(block)
      /\ \A j \in DOMAIN pending : all[j] = pending[j]
      /\ \A j \in DOMAIN all : j \in DOMAIN pending
           \/ (j - Len(pending) \in DOMAIN block /\ all[j] = block[j - Len(pending)])
  BY <1>1, <1>3
<1>5. Rising(all)
  <2>1. pending \in Seq(Nat) /\ block \in Seq(Nat)
    BY <1>1, <1>3 DEF Frames
  <2>2. \A i \in DOMAIN pending, j \in DOMAIN block : pending[i] < block[j]
    BY SMTT(20), <1>1, <1>2, <1>3 DEF Frames
  <2> QED
    BY <2>1, <2>2, <1>1, <1>3, RisesOn
<1> HIDE DEF all
<1>6. ASSUME NEW j \in DOMAIN all
      PROVE  all[j] <= End(block)
  <2>1. last < block[1] /\ block[1] <= End(block) /\ End(block) \in Nat
    BY <1>1, <1>2, BlockFacts DEF Frames
  <2>2. CASE j \in DOMAIN pending
    <3>1. all[j] = pending[j] /\ pending[j] <= last /\ pending[j] \in Nat
      BY <2>2, <1>3, <1>4 DEF Frames
    <3>2. block[1] \in Nat
      BY <1>1 DEF Frames
    <3> QED
      BY <2>1, <3>1, <3>2
  <2>3. CASE j - Len(pending) \in DOMAIN block /\ all[j] = block[j - Len(pending)]
    BY <2>3, <1>1
  <2> QED
    BY <2>2, <2>3, <1>4
<1>7. ASSUME NEW k \in DOMAIN samples, NEW j \in DOMAIN all
      PROVE  samples[k] < all[j]
  <2>1. samples[k] \in Nat /\ samples[k] <= last
    BY DEF Resampling
  <2>2. CASE j \in DOMAIN pending
    <3>1. ratio > 1
      BY <2>2, <1>3 DEF Resampling, pending
    <3>2. resampler.trim = 0
      BY <3>1 DEF Resampling
    <3>3. samples[k] < resampler.line[1] /\ resampler.line[1] < pending[j]
          /\ resampler.line[1] \in Nat
      BY <2>2, <3>1, <3>2 DEF Resampling, pending, Frames
    <3>4. all[j] = pending[j] /\ pending[j] \in Nat
      BY <2>2, <1>3, <1>4 DEF Frames
    <3> QED
      BY <2>1, <3>3, <3>4
  <2>3. CASE j - Len(pending) \in DOMAIN block /\ all[j] = block[j - Len(pending)]
    BY SMTT(20), <2>1, <2>3, <1>1, <1>2 DEF Frames
  <2> QED
    BY <2>2, <2>3, <1>4
<1>8. ASSUME ratio > 1, resampler.trim = 0, NEW j \in DOMAIN all
      PROVE  resampler.line[1] < all[j]
  <2>1. resampler.line[1] \in Frames /\ resampler.line[1] <= last
    BY <1>8 DEF Resampling
  <2>2. CASE j \in DOMAIN pending
    BY <1>8, <2>2, <1>4 DEF Resampling, pending
  <2>3. CASE j - Len(pending) \in DOMAIN block /\ all[j] = block[j - Len(pending)]
    <3>1. block[1] <= all[j] /\ all[j] \in Nat /\ block[1] \in Nat
      BY <2>3, <1>1 DEF Frames
    <3> QED
      BY <2>1, <3>1, <1>2 DEF Frames
  <2> QED
    BY <2>2, <2>3, <1>4
<1>9. ASSUME issue = "none", NEW j \in DOMAIN all
      PROVE  all[j] = Decimated * ratio + j
  <2>1. last = Decimated * ratio + Len(pending)
    BY <1>9 DEF Resampling, pending
  <2>2. CASE j \in DOMAIN pending
    BY <1>9, <2>2, <1>4 DEF Resampling, pending
  <2>3. CASE j - Len(pending) \in DOMAIN block /\ all[j] = block[j - Len(pending)]
    <3>1. all[j] = last + 1 + (j - Len(pending)) - 1
      BY <1>9, <2>3, <1>1, <1>2
    <3>2. Decimated * ratio \in Int /\ j \in Int
      <4>1. Decimated \in Int
        BY DEF Decimated, Resampling
      <4> QED
        BY <4>1, <1>4
    <3> QED
      BY <2>1, <3>1, <3>2, <1>3
  <2> QED
    BY <2>2, <2>3, <1>4
<1> QED
  BY <1>3, <1>4, <1>5, <1>6, <1>7, <1>8, <1>9 DEF all, pending

(* All the samples so far: those delivered, and the one in the delay line.    *)
Delayed == IF ratio > 1 /\ resampler.trim = 0 THEN resampler.line ELSE <<>>
AllSamples == samples \o Delayed

LEMMA SamplesSoFar ==
  ASSUME ratio \in Nat \ {0}, samples \in Seq(Nat), SamplesInOrder, NEW last \in Nat,
         Resampling(last)
  PROVE  /\ AllSamples \in Seq(Frames) /\ Rising(AllSamples)
         /\ Len(AllSamples) = Decimated /\ Decimated \in Nat
         /\ Delayed \in Seq(Frames) /\ Len(Delayed) \in {0, 1}
         /\ \A k \in DOMAIN AllSamples : AllSamples[k] <= last
         /\ issue = "none" => Whole(AllSamples)
<1>1. /\ samples \in Seq(Frames) /\ Rising(samples) /\ (issue = "none" => Whole(samples))
      /\ Len(samples) \in Nat
  BY DEF SamplesInOrder
<1>2. \A k \in DOMAIN samples : samples[k] <= last
  BY DEF Resampling
<1>3. CASE ratio > 1 /\ resampler.trim = 0
  <2> DEFINE l == resampler.line[1]
  <2>1. /\ l \in Frames /\ l <= last /\ \A k \in DOMAIN samples : samples[k] < l
        /\ issue = "none" => l = FrameOf(Decimated)
    BY <1>3 DEF Resampling
  <2>2. resampler.line = <<l>>
    BY <1>3 DEF Resampling
  <2> HIDE DEF l
  <2>3. Delayed = <<l>> /\ AllSamples = Append(samples, l)
    BY <1>1, <1>3, <2>1, <2>2 DEF Delayed, AllSamples
  <2>4. Decimated = Len(samples) + 1
    BY <1>1, <1>3 DEF Decimated
  <2>5. /\ AllSamples \in Seq(Frames) /\ Len(AllSamples) = Len(samples) + 1
        /\ \A k \in DOMAIN AllSamples :
             (k \in DOMAIN samples /\ AllSamples[k] = samples[k])
               \/ (k = Len(samples) + 1 /\ AllSamples[k] = l)
    BY <1>1, <2>1, <2>3
  <2>6. Rising(AllSamples)
    BY <1>1, <2>1, <2>5 DEF Rising
  <2>7. issue = "none" => Whole(AllSamples)
    BY <1>1, <2>1, <2>4, <2>5 DEF Whole
  <2> QED
    BY <1>1, <1>2, <2>1, <2>3, <2>4, <2>5, <2>6, <2>7
<1>4. CASE ~(ratio > 1 /\ resampler.trim = 0)
  <2>1. Delayed = <<>> /\ AllSamples = samples
    BY <1>1, <1>4 DEF Delayed, AllSamples
  <2>2. Decimated = Len(samples)
    <3>1. CASE ratio = 1
      BY <3>1 DEF Decimated
    <3>2. CASE ratio # 1
      <4>1. resampler.trim = 1
        BY <1>4, <3>2 DEF Resampling
      <4> QED
        BY <3>2, <4>1, <1>1 DEF Decimated
    <3> QED
      BY <3>1, <3>2
  <2> QED
    BY <1>1, <1>2, <2>1, <2>2
<1> QED
  BY <1>3, <1>4

(* One block more: the samples so far, and every ratio-th of the frames.      *)
LEMMA PushedSamples ==
  ASSUME ratio \in Nat \ {0}, samples \in Seq(Nat), SamplesInOrder, NEW last \in Nat,
         Resampling(last), NEW block \in Block, Links(last, block[1])
  PROVE  LET all == resampler.pending \o block
             full == AllSamples \o Thinned(all, ratio)
             rest == Rest(all, ratio)
         IN /\ Thinned(all, ratio) \in Seq(Frames)
            /\ Len(Thinned(all, ratio)) = Len(all) \div ratio
            /\ full \in Seq(Frames) /\ Rising(full)
            /\ Len(full) = Decimated + Len(all) \div ratio
            /\ \A k \in DOMAIN full : full[k] <= End(block)
            /\ issue = "none" => Whole(full)
            /\ rest \in Seq(Frames) /\ Rising(rest) /\ Len(rest) < ratio
            /\ \A j \in DOMAIN rest : rest[j] <= End(block)
            /\ \A k \in DOMAIN full, j \in DOMAIN rest : full[k] < rest[j]
            /\ resampler.in + Len(block) = Len(full) * ratio + Len(rest)
            /\ issue = "none" => /\ End(block) = resampler.in + Len(block)
                                 /\ \A j \in DOMAIN rest : rest[j] = Len(full) * ratio + j
<1> DEFINE all == resampler.pending \o block
           thin == Thinned(all, ratio)
           rest == Rest(all, ratio)
           q == Len(all) \div ratio
           full == AllSamples \o thin
<1>1. /\ all \in Seq(Frames) /\ Len(all) = Len(resampler.pending) + Len(block)
      /\ Rising(all)
      /\ \A j \in DOMAIN all : all[j] <= End(block)
      /\ \A k \in DOMAIN samples : \A j \in DOMAIN all : samples[k] < all[j]
      /\ ratio > 1 /\ resampler.trim = 0 => \A j \in DOMAIN all : resampler.line[1] < all[j]
      /\ issue = "none" => \A j \in DOMAIN all : all[j] = Decimated * ratio + j
  BY Gathering
<1> HIDE DEF all
<1>2. /\ thin \in Seq(Frames) /\ Len(thin) = q
      /\ Rising(thin)
      /\ \A k \in DOMAIN thin : thin[k] = all[(k - 1) * ratio + 1]
      /\ \A k \in DOMAIN thin : (k - 1) * ratio + 1 \in DOMAIN all
      /\ rest \in Seq(Frames) /\ Len(rest) < ratio
      /\ Len(all) = q * ratio + Len(rest)
      /\ \A j \in DOMAIN rest : rest[j] = all[q * ratio + j]
      /\ \A j \in DOMAIN rest : q * ratio + j \in DOMAIN all
      /\ Rising(rest)
      /\ \A k \in DOMAIN thin, j \in DOMAIN rest : thin[k] < rest[j]
  BY <1>1, Thinning
<1>3. q \in Nat
  <2>1. Len(all) \in Nat
    BY <1>1
  <2> QED
    BY <2>1, Quotient
<1> HIDE DEF q, thin, rest
<1>4. /\ AllSamples \in Seq(Frames) /\ Rising(AllSamples)
      /\ Len(AllSamples) = Decimated /\ Decimated \in Nat
      /\ \A k \in DOMAIN AllSamples : AllSamples[k] <= last
      /\ issue = "none" => Whole(AllSamples)
  BY SamplesSoFar
<1>5. ASSUME NEW k \in DOMAIN AllSamples, NEW j \in DOMAIN all
      PROVE  AllSamples[k] < all[j]
  <2>1. CASE ratio > 1 /\ resampler.trim = 0
    <3>1. /\ Len(resampler.line) = 1 /\ resampler.line \in Seq(Nat)
          /\ AllSamples = samples \o resampler.line
      BY <2>1 DEF AllSamples, Delayed, Resampling
    <3>2. \/ k \in DOMAIN samples /\ AllSamples[k] = samples[k]
          \/ AllSamples[k] = resampler.line[1]
      BY <3>1
    <3> QED
      BY <2>1, <3>2, <1>1
  <2>2. CASE ~(ratio > 1 /\ resampler.trim = 0)
    <3>1. AllSamples = samples
      BY <2>2 DEF AllSamples, Delayed
    <3> QED
      BY <3>1, <1>1
  <2> QED
    BY <2>1, <2>2
<1>6. /\ full \in Seq(Frames) /\ Len(full) = Decimated + q
      /\ \A k \in DOMAIN full :
           (k \in DOMAIN AllSamples /\ full[k] = AllSamples[k])
             \/ (k - Decimated \in DOMAIN thin /\ full[k] = thin[k - Decimated])
  <2>0. /\ AllSamples \in Seq(Frames) /\ Len(AllSamples) = Decimated /\ Decimated \in Nat
        /\ thin \in Seq(Frames) /\ Len(thin) = q
    BY <1>2, <1>4
  <2>1. full \in Seq(Frames) /\ Len(full) = Decimated + q
    BY <2>0, <1>3
  <2>2. /\ DOMAIN AllSamples = 1 .. Decimated /\ DOMAIN thin = 1 .. q
        /\ DOMAIN full = 1 .. Decimated + q
    BY <2>0, <2>1, <1>3
  <2>3. /\ \A k \in 1 .. Decimated : full[k] = AllSamples[k]
        /\ \A k \in Decimated + 1 .. Decimated + q : full[k] = thin[k - Decimated]
    BY <2>0, <1>3
  <2> HIDE DEF full
  <2> QED
    BY <2>1, <2>2, <2>3, <1>3, <1>4
<1>7. Rising(full)
  <2>0. AllSamples \in Seq(Frames) /\ thin \in Seq(Frames)
    BY <1>2, <1>4
  <2>1. AllSamples \in Seq(Nat) /\ thin \in Seq(Nat)
    BY <2>0 DEF Frames
  <2>2. \A i \in DOMAIN AllSamples, j \in DOMAIN thin : AllSamples[i] < thin[j]
    BY <1>2, <1>5
  <2> QED
    BY <2>1, <2>2, <1>2, <1>4, RisesOn
<1> HIDE DEF full
<1>8. \A j \in DOMAIN rest : rest[j] <= End(block)
  BY <1>1, <1>2
<1>9. ASSUME NEW k \in DOMAIN full
      PROVE  full[k] <= End(block) /\ \A j \in DOMAIN rest : full[k] < rest[j]
  <2>1. CASE k \in DOMAIN AllSamples /\ full[k] = AllSamples[k]
    <3>1. AllSamples[k] <= End(block)
      <4>1. AllSamples[k] <= last /\ AllSamples[k] \in Nat
        BY <2>1, <1>4 DEF Frames
      <4>2. last < block[1] /\ block[1] <= End(block) /\ block[1] \in Nat /\ End(block) \in Nat
        BY BlockFacts DEF Links, Frames
      <4> QED
        BY <4>1, <4>2
    <3> QED
      BY <2>1, <3>1, <1>2, <1>5
  <2>2. CASE k - Decimated \in DOMAIN thin /\ full[k] = thin[k - Decimated]
    BY <2>2, <1>1, <1>2
  <2> QED
    BY <2>1, <2>2, <1>6
<1>10. resampler.in + Len(block) = Len(full) * ratio + Len(rest)
  <2>1. resampler.in = Decimated * ratio + Len(resampler.pending)
    BY DEF Resampling
  <2>2. resampler.in + Len(block) = Decimated * ratio + Len(all)
    <3>1. Len(block) \in Nat /\ Len(resampler.pending) \in Nat /\ Decimated * ratio \in Nat
      <4>1. Decimated * ratio \in Nat
        BY <1>4, SMT
      <4> QED
        BY <4>1, BlockFacts DEF Resampling
    <3> QED
      BY <2>1, <3>1, <1>1
  <2>3. Len(full) * ratio = Decimated * ratio + q * ratio
    BY <1>3, <1>4, <1>6, SMT
  <2>4. Decimated * ratio \in Nat /\ q * ratio \in Nat /\ Len(rest) \in Nat
    BY <1>2, <1>3, <1>4, SMT
  <2>5. Len(all) = q * ratio + Len(rest)
    BY <1>2
  <2> QED
    BY SMTT(20), <2>2, <2>3, <2>4, <2>5
<1>11. ASSUME issue = "none"
       PROVE  /\ End(block) = resampler.in + Len(block)
              /\ \A j \in DOMAIN rest : rest[j] = Len(full) * ratio + j
              /\ Whole(full)
  <2>1. last = resampler.in /\ block[1] = last + 1
    BY <1>11 DEF Resampling, Links
  <2>2. End(block) = resampler.in + Len(block)
    BY <2>1, BlockFacts DEF Frames
  <2>3. ASSUME NEW j \in DOMAIN rest
        PROVE  rest[j] = Len(full) * ratio + j
    <3>1. rest[j] = Decimated * ratio + (q * ratio + j)
      BY <1>1, <1>2, <1>11
    <3>2. Len(full) * ratio = Decimated * ratio + q * ratio
      BY <1>3, <1>4, <1>6, SMT
    <3>3. Decimated * ratio \in Nat /\ q * ratio \in Nat /\ j \in Nat
      BY <1>2, <1>3, <1>4, SMT
    <3> QED
      BY <3>1, <3>2, <3>3
  <2>4. ASSUME NEW k \in DOMAIN full
        PROVE  full[k] = FrameOf(k)
    <3>1. CASE k \in DOMAIN AllSamples /\ full[k] = AllSamples[k]
      BY <3>1, <1>4, <1>11 DEF Whole
    <3>2. CASE k - Decimated \in DOMAIN thin /\ full[k] = thin[k - Decimated]
      <4>1. full[k] = Decimated * ratio + ((k - Decimated - 1) * ratio + 1)
        BY <3>2, <1>1, <1>2, <1>11
      <4>2. k \in Int /\ Decimated \in Int /\ ratio \in Int
        BY <1>4, <1>6
      <4>3. (k - 1) * ratio = Decimated * ratio + (k - Decimated - 1) * ratio
        BY <4>2, SMT
      <4>4. Decimated * ratio \in Int /\ (k - Decimated - 1) * ratio \in Int
        BY <4>2, SMT
      <4> QED
        BY <4>1, <4>3, <4>4 DEF FrameOf
    <3> QED
      BY <3>1, <3>2, <1>6
  <2> QED
    BY <2>2, <2>3, <2>4 DEF Whole
<1> QED
  BY <1>2, <1>6, <1>7, <1>8, <1>9, <1>10, <1>11 DEF full, rest, thin, q, all

(* What is put out, and what is kept of it.                                  *)
Full(block) == AllSamples \o Thinned(resampler.pending \o block, ratio)
Kept(block) ==
  IF ratio = 1 THEN Len(Full(block)) ELSE IF Len(Full(block)) = 0 THEN 0 ELSE Len(Full(block)) - 1

LEMMA PushedIs ==
  ASSUME ratio \in Nat \ {0}, samples \in Seq(Nat), SamplesInOrder, NEW last \in Nat,
         Resampling(last), NEW block \in Block, Links(last, block[1])
  PROVE  LET output == Pushed(ratio, block).output
             next == Pushed(ratio, block).next
         IN /\ output \in Seq(Nat) /\ Len(samples) + Len(output) = Kept(block)
            /\ \A k \in 1 .. Kept(block) : (samples \o output)[k] = Full(block)[k]
            /\ next = [pending |-> Rest(resampler.pending \o block, ratio), line |-> next.line,
                       trim |-> next.trim, in |-> resampler.in + Len(block),
                       out |-> Kept(block)]
            /\ next.line \in Seq(Nat)
            /\ ratio = 1 => next.trim = 0 /\ next.line = <<>>
            /\ ratio > 1 /\ Len(Full(block)) = 0 => next.trim = 1 /\ Len(next.line) = 1
            /\ ratio > 1 /\ Len(Full(block)) > 0 =>
                 next.trim = 0 /\ next.line = <<Full(block)[Len(Full(block))]>>
<1> DEFINE all == resampler.pending \o block
           thin == Thinned(all, ratio)
           rest == Rest(all, ratio)
           q == Len(all) \div ratio
           line == resampler.line \o thin
           trim == Least(resampler.trim, q)
           output == Pushed(ratio, block).output
           next == Pushed(ratio, block).next
           full == Full(block)
<1>1. /\ output = SubSeq(line, trim + 1, q)
      /\ next = [pending |-> rest, line |-> Drop(line, q), trim |-> resampler.trim - trim,
                 in |-> resampler.in + Len(block), out |-> resampler.out + q - trim]
  BY DEF Pushed, Thinned, Rest
<1>2. thin \in Seq(Frames) /\ Len(thin) = q
  BY PushedSamples
<1>4. full = AllSamples \o thin
  BY DEF Full
<1>5. /\ resampler.out = Len(samples) /\ samples \in Seq(Nat) /\ Len(samples) \in Nat
      /\ resampler.line \in Seq(Nat)
  BY DEF Resampling
<1> HIDE DEF all, thin, rest, q, output, next, full
<1>3. q \in Nat /\ thin \in Seq(Nat)
  BY <1>2 DEF Frames
<1>6. CASE ratio = 1
  <2>1. resampler.trim = 0 /\ resampler.line = <<>> /\ AllSamples = samples
    BY <1>5, <1>6 DEF Resampling, AllSamples, Delayed
  <2>2. trim = 0 /\ line = thin /\ full = samples \o thin
    BY <2>1, <1>2, <1>3, <1>4 DEF Least
  <2>3. output = thin /\ Drop(line, q) = <<>>
    BY <2>2, <1>1, <1>2, <1>3 DEF Drop
  <2>4. Kept(block) = Len(samples) + q
    <3>1. Len(full) = Len(samples) + q
      <4>1. full = samples \o thin /\ Len(thin) = q
        BY <2>2, <1>2
      <4> QED
        BY <4>1, <1>3, Joined
    <3> QED
      BY <3>1, <1>6 DEF Kept, full
  <2>5. /\ output \in Seq(Nat) /\ Len(samples) + Len(output) = Kept(block)
        /\ \A k \in 1 .. Kept(block) : (samples \o output)[k] = full[k]
    BY <2>2, <2>3, <2>4, <1>2 DEF Frames
  <2>6. /\ next = [pending |-> rest, line |-> next.line, trim |-> next.trim,
                   in |-> resampler.in + Len(block), out |-> Kept(block)]
        /\ next.trim = 0 /\ next.line = <<>>
    BY <2>1, <2>2, <2>3, <2>4, <1>1, <1>3, <1>5
  <2> QED
    BY <2>5, <2>6, <1>6 DEF output, next, full, rest, all
<1>7. CASE ratio > 1 /\ resampler.trim = 0
  <2> DEFINE l == resampler.line[1]
  <2>1. resampler.line = <<l>> /\ l \in Nat /\ AllSamples = Append(samples, l)
    <3>1. Len(resampler.line) = 1
      BY <1>7 DEF Resampling
    <3>2. resampler.line = <<l>> /\ l \in Nat
      BY <3>1, <1>5
    <3> HIDE DEF l
    <3>3. AllSamples = samples \o <<l>>
      BY <3>2, <1>7 DEF AllSamples, Delayed
    <3> QED
      BY <3>2, <3>3, <1>5
  <2> HIDE DEF l
  <2>2. trim = 0 /\ line = <<l>> \o thin /\ full = Append(samples, l) \o thin
    BY <2>1, <1>3, <1>4, <1>7 DEF Least
  <2>3. thin \in Seq(Nat)
    BY <1>3
  <2>4. /\ output \in Seq(Nat) /\ Len(output) = q
        /\ \A k \in 1 .. q : output[k] = IF k = 1 THEN l ELSE thin[k - 1]
    <3>1. /\ line \in Seq(Nat) /\ Len(line) = q + 1 /\ line[1] = l
          /\ \A k \in 1 .. q : line[k + 1] = thin[k]
      <4>1. Len(thin) = q /\ line = <<l>> \o thin
        BY <2>2, <1>2
      <4> HIDE DEF line
      <4> QED
        BY <2>1, <2>3, <4>1, Prefixed
    <3>2. output = SubSeq(line, 1, q)
      BY <2>2, <1>1
    <3> HIDE DEF line, trim
    <3>3. /\ output \in Seq(Nat) /\ Len(output) = q
          /\ \A k \in 1 .. q : output[k] = line[k]
      <4>1. 1 <= q + 1 /\ q <= Len(line) /\ q - 1 + 1 = q
        BY <3>1, <1>3
      <4>2. /\ SubSeq(line, 1, q) \in Seq(Nat) /\ Len(SubSeq(line, 1, q)) = q - 1 + 1
            /\ \A k \in 1 .. q - 1 + 1 : SubSeq(line, 1, q)[k] = line[1 + k - 1]
        <5>1. line \in Seq(Nat) /\ 1 \in Nat /\ 1 <= 1
          BY <3>1
        <5> QED
          BY <5>1, <4>1, <1>3, SubSeqIs
      <4>3. \A k \in 1 .. q : 1 + k - 1 = k
        OBVIOUS
      <4> QED
        BY <3>2, <4>1, <4>2, <4>3
    <3>4. ASSUME NEW k \in 1 .. q, k # 1
          PROVE  line[k] = thin[k - 1]
      <4>1. k - 1 \in 1 .. q /\ (k - 1) + 1 = k
        BY <3>4, <1>3
      <4> QED
        BY <4>1, <3>1
    <3> QED
      BY <3>1, <3>3, <3>4
  <2>5. /\ full \in Seq(Nat) /\ Len(full) = Len(samples) + 1 + q
        /\ \A k \in 1 .. Len(samples) : full[k] = samples[k]
        /\ full[Len(samples) + 1] = l
        /\ \A k \in 1 .. q : full[Len(samples) + 1 + k] = thin[k]
    <3> DEFINE head == Append(samples, l)
    <3>1. /\ head \in Seq(Nat) /\ Len(head) = Len(samples) + 1 /\ head[Len(samples) + 1] = l
          /\ \A k \in 1 .. Len(samples) : head[k] = samples[k]
      BY <2>1, <1>5
    <3> HIDE DEF head
    <3>2. full = head \o thin
      BY <2>2 DEF head
    <3>3. /\ full \in Seq(Nat) /\ Len(full) = Len(head) + q
          /\ \A k \in 1 .. Len(head) : full[k] = head[k]
          /\ \A k \in 1 .. q : full[Len(head) + k] = thin[k]
      <4>1. Len(thin) = q
        BY <1>2
      <4> QED
        <5>1. head \in Seq(Nat)
          BY <3>1
        <5>2. /\ full \in Seq(Nat) /\ Len(full) = Len(head) + Len(thin)
              /\ \A k \in 1 .. Len(head) : full[k] = head[k]
              /\ \A k \in 1 .. Len(thin) : full[Len(head) + k] = thin[k]
          BY <5>1, <3>2, <2>3, Joined
        <5> QED
          BY <5>2, <4>1
    <3>4. \A k \in 1 .. q : full[Len(samples) + 1 + k] = thin[k]
      BY <3>1, <3>3
    <3>5. \A k \in 1 .. Len(samples) + 1 : full[k] = head[k]
      BY <3>1, <3>3
    <3>6. Len(samples) + 1 \in 1 .. Len(samples) + 1
      BY <1>5
    <3>7. \A k \in 1 .. Len(samples) : k \in 1 .. Len(samples) + 1
      BY <1>5
    <3> QED
      BY <3>1, <3>3, <3>4, <3>5, <3>6, <3>7
  <2>6. Kept(block) = Len(samples) + q
    BY <2>5, <1>3, <1>5, <1>7 DEF Kept, full
  <2>7. ASSUME NEW k \in 1 .. Kept(block)
        PROVE  (samples \o output)[k] = full[k]
    <3>1. CASE k <= Len(samples)
      BY <3>1, <2>4, <2>5, <2>6, <1>3, <1>5
    <3>2. CASE k = Len(samples) + 1
      BY <3>2, <2>4, <2>5, <2>6, <1>3, <1>5
    <3>3. CASE k > Len(samples) + 1
      <4>1. (samples \o output)[k] = thin[k - Len(samples) - 1]
        <5>1. PICK j \in 1 .. q : Len(samples) + j = k /\ j # 1 /\ j - 1 = k - Len(samples) - 1
          <6>1. k - Len(samples) \in 1 .. q
            BY <3>3, <2>6, <1>3, <1>5
          <6> QED
            BY <6>1, <3>3, <1>5
        <5>2. (samples \o output)[Len(samples) + j] = output[j]
          BY <2>4, <1>5, Joined
        <5>3. output[j] = thin[j - 1]
          BY <5>1, <2>4
        <5> QED
          BY <5>1, <5>2, <5>3
      <4>2. k - Len(samples) - 1 \in 1 .. q /\ Len(samples) + 1 + (k - Len(samples) - 1) = k
        BY <3>3, <2>6, <1>3, <1>5
      <4> QED
        BY <4>1, <4>2, <2>5
    <3>4. k \in Nat
      BY <2>6, <1>3, <1>5
    <3>5. k <= Len(samples) \/ k = Len(samples) + 1 \/ k > Len(samples) + 1
      BY <3>4, <1>5
    <3> QED
      BY <3>1, <3>2, <3>3, <3>5
  <2>8. Drop(line, q) = <<full[Len(full)]>>
    <3>1. /\ line \in Seq(Nat) /\ Len(line) = q + 1
          /\ line[q + 1] = IF q = 0 THEN l ELSE thin[q]
      <4>1. Len(thin) = q /\ line = <<l>> \o thin
        BY <2>2, <1>2
      <4> HIDE DEF line
      <4> QED
        BY <2>1, <2>3, <4>1, <1>3, Prefixed
    <3> HIDE DEF line
    <3>2. Drop(line, q) = <<line[q + 1]>>
      BY <3>1, <1>3, DropsToOne
    <3>3. full[Len(full)] = IF q = 0 THEN l ELSE thin[q]
      BY <2>5, <1>3, <1>5
    <3> QED
      BY <3>1, <3>2, <3>3
  <2>9. /\ next = [pending |-> rest, line |-> next.line, trim |-> next.trim,
                   in |-> resampler.in + Len(block), out |-> Kept(block)]
        /\ next.trim = 0 /\ next.line = <<full[Len(full)]>>
    <3>1. resampler.trim - trim = 0 /\ resampler.out + q - trim = Kept(block)
      BY <2>2, <2>6, <1>3, <1>5, <1>7
    <3> HIDE DEF trim, line
    <3> QED
      BY <3>1, <2>8, <1>1
  <2>10. full[Len(full)] \in Nat /\ Len(full) > 0
    BY SMTT(20), <2>5, <1>3, <1>5
  <2> QED
    <3>1. output \in Seq(Nat) /\ Len(samples) + Len(output) = Kept(block)
      BY <2>4, <2>6
    <3>2. next.line \in Seq(Nat) /\ ratio # 1 /\ Len(full) # 0
      BY <2>9, <2>10, <1>7
    <3> QED
      BY <3>1, <3>2, <2>7, <2>9 DEF output, next, full, rest, all
<1>8. CASE ratio > 1 /\ resampler.trim = 1
  <2> DEFINE l == resampler.line[1]
  <2>1. resampler.line = <<l>> /\ l \in Nat /\ samples = <<>> /\ AllSamples = <<>>
    BY <1>5, <1>8 DEF Resampling, AllSamples, Delayed
  <2> HIDE DEF l
  <2>2. line = <<l>> \o thin /\ full = thin /\ thin \in Seq(Nat) /\ Len(full) = q
    BY <2>1, <1>2, <1>4 DEF Frames
  <2>3. Kept(block) = IF q = 0 THEN 0 ELSE q - 1
    BY <2>2, <1>3, <1>8 DEF Kept, full
  <2>4. CASE q = 0
    <3>1. trim = 0 /\ output = <<>> /\ Drop(line, q) = line /\ line = <<l>>
      BY <2>1, <2>2, <2>4, <1>1, <1>2, <1>8 DEF Least, Drop
    <3>2. /\ next = [pending |-> rest, line |-> next.line, trim |-> next.trim,
                     in |-> resampler.in + Len(block), out |-> Kept(block)]
          /\ next.trim = 1 /\ next.line = <<l>>
      <4>1. resampler.trim - trim = 1 /\ resampler.out + q - trim = Kept(block)
        BY <3>1, <2>1, <2>3, <2>4, <1>5, <1>8
      <4>2. Drop(line, q) = <<l>>
        BY <3>1
      <4> HIDE DEF trim, line
      <4> QED
        BY <4>1, <4>2, <1>1
    <3> QED
      BY <3>1, <3>2, <2>1, <2>2, <2>3, <2>4, <1>8 DEF output, next, full, rest, all
  <2>5. CASE q > 0
    <3>1. trim = 1
      BY <2>5, <1>3, <1>8 DEF Least
    <3>2. /\ output \in Seq(Nat) /\ Len(output) = q - 1
          /\ \A k \in 1 .. q - 1 : output[k] = thin[k]
      <4>1. /\ line \in Seq(Nat) /\ Len(line) = q + 1
            /\ \A k \in 1 .. q : line[k + 1] = thin[k]
        BY <2>1, <2>2, <1>2, Prefixed
      <4>2. output = SubSeq(line, 2, q)
        BY <3>1, <1>1
      <4> HIDE DEF line, trim
      <4>3. /\ output \in Seq(Nat) /\ Len(output) = q - 1
            /\ \A k \in 1 .. q - 1 : output[k] = line[2 + k - 1]
        <5>1. 2 <= q + 1 /\ q <= Len(line) /\ q - 2 + 1 = q - 1
          BY <4>1, <2>5, <1>3
        <5>2. q \in Nat /\ line \in Seq(Nat)
          BY <4>1, <1>3
        <5>3. /\ SubSeq(line, 2, q) \in Seq(Nat) /\ Len(SubSeq(line, 2, q)) = q - 2 + 1
              /\ \A k \in 1 .. q - 2 + 1 : SubSeq(line, 2, q)[k] = line[2 + k - 1]
          BY <5>1, <5>2, SubSeqIs
        <5> QED
          BY <4>2, <5>1, <5>3
      <4>4. ASSUME NEW k \in 1 .. q - 1
            PROVE  output[k] = thin[k]
        <5>1. k \in 1 .. q /\ 2 + k - 1 = k + 1
          BY <1>3
        <5> QED
          BY <4>1, <4>3, <5>1
      <4> QED
        BY <4>3, <4>4
    <3>3. /\ samples \o output = output
      BY <3>2, <2>1
    <3>4. Drop(line, q) = <<full[Len(full)]>>
      <4>1. Len(thin) = q /\ line = <<l>> \o thin
        BY <2>2, <1>2
      <4> HIDE DEF line
      <4>2. line \in Seq(Nat) /\ Len(line) = q + 1 /\ line[q + 1] = thin[q]
        BY <2>1, <2>2, <2>5, <4>1, <1>3, Prefixed
      <4>3. Drop(line, q) = <<line[q + 1]>>
        BY <4>2, <1>3, DropsToOne
      <4> QED
        BY <4>2, <4>3, <2>2
    <3>5. /\ next = [pending |-> rest, line |-> next.line, trim |-> next.trim,
                     in |-> resampler.in + Len(block), out |-> Kept(block)]
          /\ next.trim = 0 /\ next.line = <<full[Len(full)]>>
      <4>1. resampler.trim - trim = 0 /\ resampler.out + q - trim = Kept(block)
        BY <3>1, <2>1, <2>3, <2>5, <1>3, <1>5, <1>8
      <4> HIDE DEF trim, line
      <4> QED
        BY <3>4, <4>1, <1>1
    <3>6. full[Len(full)] \in Nat /\ Len(full) > 0
      BY <2>2, <2>5, <1>2, <1>3
    <3> QED
      BY <3>2, <3>3, <3>5, <3>6, <2>1, <2>2, <2>3, <2>5, <1>8
         DEF output, next, full, rest, all
  <2> QED
    BY SMTT(20), <2>4, <2>5, <1>3
<1> QED
  <2>1. ratio > 1 => resampler.trim \in {0, 1}
    BY DEF Resampling
  <2> QED
    BY <2>1, <1>6, <1>7, <1>8

LEMMA Pushing ==
  ASSUME ratio \in Nat \ {0}, samples \in Seq(Nat), SamplesInOrder, NEW last \in Nat,
         Resampling(last), NEW block \in Block, Links(last, block[1])
  PROVE  LET output == Pushed(ratio, block).output
         IN /\ output \in Seq(Nat)
            /\ \A k \in DOMAIN (samples \o output) : (samples \o output)[k] \in Frames
            /\ Rising(samples \o output)
            /\ issue = "none" => /\ Whole(samples \o output)
                                 /\ Len(samples \o output) * ratio <= End(block)
            /\ /\ samples' = samples \o output
               /\ resampler' = Pushed(ratio, block).next
               /\ UNCHANGED <<ratio, issue>>
               => Resampling(End(block))'
<1> DEFINE all == resampler.pending \o block
           output == Pushed(ratio, block).output
           next == Pushed(ratio, block).next
           full == Full(block)
           rest == Rest(all, ratio)
           kept == Kept(block)
           longer == samples \o output
<1>1. /\ full \in Seq(Frames) /\ Rising(full)
      /\ \A k \in DOMAIN full : full[k] <= End(block)
      /\ issue = "none" => Whole(full)
      /\ rest \in Seq(Frames) /\ Rising(rest) /\ Len(rest) < ratio
      /\ \A j \in DOMAIN rest : rest[j] <= End(block)
      /\ \A k \in DOMAIN full, j \in DOMAIN rest : full[k] < rest[j]
      /\ resampler.in + Len(block) = Len(full) * ratio + Len(rest)
      /\ issue = "none" => /\ End(block) = resampler.in + Len(block)
                           /\ \A j \in DOMAIN rest : rest[j] = Len(full) * ratio + j
  BY PushedSamples DEF Full
<1>2. /\ output \in Seq(Nat) /\ Len(samples) + Len(output) = kept
      /\ \A k \in 1 .. kept : longer[k] = full[k]
      /\ next = [pending |-> rest, line |-> next.line,
                 trim |-> next.trim, in |-> resampler.in + Len(block), out |-> kept]
      /\ next.line \in Seq(Nat)
      /\ ratio = 1 => next.trim = 0 /\ next.line = <<>>
      /\ ratio > 1 /\ Len(full) = 0 => next.trim = 1 /\ Len(next.line) = 1
      /\ ratio > 1 /\ Len(full) > 0 => next.trim = 0 /\ next.line = <<full[Len(full)]>>
  BY PushedIs
<1>3. /\ Len(full) \in Nat /\ kept \in 0 .. Len(full)
      /\ ratio = 1 => kept = Len(full)
      /\ ratio > 1 /\ Len(full) = 0 => kept = 0
      /\ ratio > 1 /\ Len(full) > 0 => kept = Len(full) - 1
  <2>1. Len(full) \in Nat
    BY <1>1
  <2> QED
    BY <2>1 DEF Kept
<1> HIDE DEF all, output, next, full, rest, kept
<1>4. longer \in Seq(Nat) /\ Len(longer) = kept
  BY <1>2, Joined
<1> HIDE DEF longer
<1>5. DOMAIN longer = 1 .. kept /\ DOMAIN full = 1 .. Len(full)
      /\ \A k \in 1 .. kept : k \in DOMAIN full /\ longer[k] = full[k]
  BY <1>1, <1>2, <1>3, <1>4
<1>6. \A k \in DOMAIN longer : longer[k] \in Frames /\ longer[k] <= End(block)
  BY <1>1, <1>5
<1>7. Rising(longer)
  BY <1>1, <1>5 DEF Rising
<1>8. ASSUME issue = "none"
      PROVE  Whole(longer) /\ Len(longer) * ratio <= End(block)
  <2>1. Whole(longer)
    BY <1>1, <1>5, <1>8 DEF Whole
  <2>2. kept * ratio <= Len(full) * ratio
    BY <1>3, TimesGrows
  <2>3. kept * ratio \in Nat /\ Len(full) * ratio \in Nat
    BY <1>3, SMT
  <2>4. Len(rest) \in Nat /\ End(block) = Len(full) * ratio + Len(rest)
    BY <1>1, <1>8
  <2> QED
    BY <2>1, <2>2, <2>3, <2>4, <1>4
<1>9. ASSUME samples' = longer, resampler' = next, UNCHANGED <<ratio, issue>>
      PROVE  Resampling(End(block))'
  <2>1. /\ resampler'.pending = rest /\ resampler'.line = next.line
        /\ resampler'.trim = next.trim /\ resampler'.in = resampler.in + Len(block)
        /\ resampler'.out = kept
        /\ resampler' = [pending |-> resampler'.pending, line |-> resampler'.line,
                         trim |-> resampler'.trim, in |-> resampler'.in, out |-> resampler'.out]
    BY <1>2, <1>9
  <2>2. Decimated' = Len(full)
    BY <2>1, <1>2, <1>3, <1>4, <1>9 DEF Decimated
  <2>3. End(block) \in Nat
    BY BlockFacts DEF Frames
  <2>4. /\ resampler'.pending \in Seq(Frames) /\ resampler'.line \in Seq(Nat)
        /\ Len(resampler'.pending) < ratio'
        /\ resampler'.in = Decimated' * ratio' + Len(resampler'.pending)
        /\ resampler'.out = Len(samples')
    BY <2>1, <2>2, <1>1, <1>2, <1>4, <1>9
  <2>5. CASE ratio = 1 \/ Len(full) = 0
    <3>1. IF ratio' = 1 THEN resampler'.trim = 0 /\ resampler'.line = <<>>
          ELSE resampler'.trim = 1 /\ Len(resampler'.line) = 1 /\ samples' = <<>>
      BY <2>1, <2>5, <1>2, <1>3, <1>4, <1>9
    <3>2. ~(ratio' > 1 /\ resampler'.trim = 0)
      BY <3>1, <1>9
    <3>3. /\ Rising(resampler'.pending)
          /\ \A j \in DOMAIN resampler'.pending : resampler'.pending[j] <= End(block)
          /\ \A k \in DOMAIN samples' : samples'[k] <= End(block)
          /\ issue' = "none" =>
               /\ End(block) = resampler'.in
               /\ \A j \in DOMAIN resampler'.pending :
                    resampler'.pending[j] = Decimated' * ratio' + j
      BY <2>1, <2>2, <1>1, <1>6, <1>9
    <3> QED
      BY <2>1, <2>4, <3>1, <3>2, <3>3 DEF Resampling, Rising
  <2>6. CASE ratio > 1 /\ Len(full) > 0
    <3> DEFINE l == full[Len(full)]
    <3>1. /\ resampler'.trim = 0 /\ resampler'.line = <<l>> /\ Len(samples') = Len(full) - 1
      BY <2>1, <2>6, <1>2, <1>3, <1>4, <1>9
    <3>2. /\ l \in Frames /\ l <= End(block)
          /\ \A k \in DOMAIN samples' : samples'[k] < l
          /\ \A j \in DOMAIN rest : l < rest[j]
          /\ issue = "none" => l = FrameOf(Len(full))
      <4>1. Len(full) \in DOMAIN full
        BY <2>6, <1>3, <1>5
      <4>2. ASSUME NEW k \in DOMAIN samples'
            PROVE  samples'[k] < l
        <5>1. k \in 1 .. kept /\ samples'[k] = full[k] /\ k < Len(full) /\ k \in DOMAIN full
          BY <4>2, <2>6, <1>3, <1>5, <1>9
        <5> QED
          BY <4>1, <5>1, <1>1 DEF Rising
      <4> QED
        BY <4>1, <4>2, <1>1 DEF Whole
    <3> HIDE DEF l
    <3>3. /\ Rising(resampler'.pending)
          /\ \A j \in DOMAIN resampler'.pending : resampler'.pending[j] <= End(block)
          /\ \A k \in DOMAIN samples' : samples'[k] <= End(block)
      BY <2>1, <1>1, <1>6, <1>9
    <3>4. issue' = "none" =>
               /\ End(block) = resampler'.in
               /\ \A j \in DOMAIN resampler'.pending :
                    resampler'.pending[j] = Decimated' * ratio' + j
               /\ l = FrameOf(Decimated)'
      BY <2>1, <2>2, <3>2, <1>1, <1>9 DEF FrameOf
    <3>5. /\ resampler'.line[1] = l /\ Len(resampler'.line) = 1 /\ resampler'.trim \in {0, 1}
          /\ resampler'.trim # 1 /\ ratio' # 1
      BY <3>1, <2>6, <1>9
    <3> QED
      BY <2>1, <2>4, <3>2, <3>3, <3>4, <3>5 DEF Resampling, Rising
  <2> QED
    BY <2>5, <2>6, <1>3
<1> QED
  BY <1>2, <1>6, <1>7, <1>8, <1>9 DEF output, next, longer

(* At the end there is a sample for every frame, the last one for what is left *)
(* of a chunk, and no padding.                                                *)
LEMMA Flushing ==
  ASSUME ratio \in Nat \ {0}, samples \in Seq(Nat), SamplesInOrder, NEW last \in Nat,
         Resampling(last)
  PROVE  LET output == Flushed(ratio)
         IN /\ output \in Seq(Nat)
            /\ \A k \in DOMAIN (samples \o output) : (samples \o output)[k] \in Frames
            /\ Rising(samples \o output)
            /\ issue = "none" => Whole(samples \o output)
            /\ (Len(samples \o output) - 1) * ratio < resampler.in
            /\ resampler.in <= Len(samples \o output) * ratio
<1> DEFINE pending == resampler.pending
           n == Decimated
           final == IF pending = <<>> THEN <<>> ELSE <<pending[1]>>
           full == AllSamples \o final
           output == Flushed(ratio)
           longer == samples \o output
           size == IF pending = <<>> THEN n ELSE n + 1
           rest == Drop(resampler.line \o final, resampler.trim)
<1>1. /\ AllSamples \in Seq(Frames) /\ Rising(AllSamples)
      /\ Len(AllSamples) = n /\ n \in Nat
      /\ \A k \in DOMAIN AllSamples : AllSamples[k] <= last
      /\ issue = "none" => Whole(AllSamples)
  BY SamplesSoFar
<1>2. /\ pending \in Seq(Frames) /\ Len(pending) \in Nat /\ Len(pending) < ratio
      /\ resampler.in = n * ratio + Len(pending) /\ resampler.out = Len(samples)
      /\ Len(samples) \in Nat
  BY DEF Resampling
<1>3. resampler.in \in Nat /\ n * ratio \in Nat
  <2>1. n * ratio \in Nat
    <3>1. n \in Nat
      BY <1>1
    <3> HIDE DEF n
    <3> QED
      BY <3>1, SMT
  <2> QED
    BY <2>1, <1>2
<1> HIDE DEF n, pending
<1>4. (resampler.in + ratio - 1) \div ratio = size
  <2>1. CASE pending = <<>>
    <3>1. resampler.in + ratio - 1 = n * ratio + (ratio - 1) /\ ratio - 1 \in Nat
      BY <2>1, <1>2, <1>3
    <3> QED
      BY <2>1, <3>1, <1>1, QuotientIs
  <2>2. CASE pending # <<>>
    <3>1. Len(pending) - 1 \in Nat /\ Len(pending) - 1 < ratio
      BY <2>2, <1>2
    <3>2. (n + 1) * ratio = n * ratio + ratio
      BY <1>1, SMT
    <3>3. resampler.in + ratio - 1 = (n + 1) * ratio + (Len(pending) - 1)
      BY <3>1, <3>2, <1>2, <1>3
    <3>4. n + 1 \in Nat
      BY <1>1
    <3>5. ((n + 1) * ratio + (Len(pending) - 1)) \div ratio = n + 1
      BY <3>1, <3>4, QuotientIs
    <3> QED
      BY <2>2, <3>3, <3>5
  <2> QED
    BY <2>1, <2>2
<1>5. /\ final \in Seq(Frames) /\ Len(final) = size - n /\ Len(final) \in {0, 1}
      /\ pending # <<>> => Len(final) = 1 /\ final[1] = pending[1] /\ pending[1] \in Frames
  <2>1. CASE pending = <<>>
    BY <2>1, <1>1
  <2>2. CASE pending # <<>>
    <3>1. pending[1] \in Frames
      BY <2>2, <1>2
    <3> QED
      BY <2>2, <3>1, <1>1
  <2> QED
    BY <2>1, <2>2
<1>6. /\ full \in Seq(Frames) /\ Len(full) = size
      /\ \A k \in 1 .. n : full[k] = AllSamples[k]
      /\ pending # <<>> => full[n + 1] = pending[1]
  <2>1. /\ full \in Seq(Frames) /\ Len(full) = n + Len(final)
        /\ \A k \in 1 .. n : full[k] = AllSamples[k]
        /\ \A k \in 1 .. Len(final) : full[n + k] = final[k]
    <3> HIDE DEF final
    <3>1. /\ full \in Seq(Frames) /\ Len(full) = Len(AllSamples) + Len(final)
          /\ \A k \in 1 .. Len(AllSamples) : full[k] = AllSamples[k]
          /\ \A k \in 1 .. Len(final) : full[Len(AllSamples) + k] = final[k]
      BY <1>1, <1>5, Joined
    <3> QED
      BY <3>1, <1>1
  <2> HIDE DEF full, final
  <2> QED
    BY <2>1, <1>1, <1>5
<1> HIDE DEF full, final
<1>7. ASSUME pending # <<>>
      PROVE  /\ \A k \in 1 .. n : AllSamples[k] < pending[1]
             /\ issue = "none" => pending[1] = FrameOf(n + 1)
  <2>1. 1 \in DOMAIN pending /\ pending[1] \in Frames
    BY <1>2, <1>7
  <2>2. ratio > 1
    BY <1>2, <1>7
  <2>3. ASSUME NEW k \in 1 .. n
        PROVE  AllSamples[k] < pending[1]
    <3>1. resampler.trim = 0
      <4>1. CASE resampler.trim = 1
        <5>1. samples = <<>>
          BY <2>2, <4>1 DEF Resampling
        <5> QED
          BY <2>2, <2>3, <4>1, <5>1 DEF n, Decimated
      <4> QED
        BY <2>2, <4>1 DEF Resampling
    <3>2. AllSamples = samples \o resampler.line /\ resampler.line \in Seq(Nat)
          /\ Len(resampler.line) = 1
      BY <2>2, <3>1 DEF AllSamples, Delayed, Resampling
    <3>3. /\ \A i \in DOMAIN samples : samples[i] < resampler.line[1]
          /\ resampler.line[1] < pending[1] /\ resampler.line[1] \in Nat
      BY <2>1, <2>2, <3>1 DEF Resampling, pending, Frames
    <3>4. \/ k \in DOMAIN samples /\ AllSamples[k] = samples[k] /\ samples[k] \in Nat
          \/ AllSamples[k] = resampler.line[1]
      BY SMTT(20), <2>3, <3>2, <1>1
    <3> QED
      BY <2>1, <3>3, <3>4 DEF Frames
  <2>4. ASSUME issue = "none"
        PROVE  pending[1] = FrameOf(n + 1)
    <3>1. pending[1] = n * ratio + 1
      BY <2>1, <2>4 DEF Resampling, pending, n
    <3> QED
      BY <3>1, <1>1 DEF FrameOf
  <2> QED
    BY <2>3, <2>4
<1>8. /\ \A k \in DOMAIN full : full[k] \in Frames
      /\ Rising(full) /\ (issue = "none" => Whole(full))
  <2>1. CASE pending = <<>>
    <3>1. DOMAIN full = 1 .. n /\ DOMAIN AllSamples = 1 .. n
      BY <2>1, <1>1, <1>6
    <3> QED
      BY <3>1, <1>1, <1>6 DEF Rising, Whole
  <2>2. CASE pending # <<>>
    <3>1. DOMAIN full = 1 .. n + 1 /\ DOMAIN AllSamples = 1 .. n
      BY <2>2, <1>1, <1>6
    <3>2. Rising(full)
      <4> SUFFICES ASSUME NEW i \in 1 .. n + 1, NEW j \in 1 .. n + 1, i < j
                   PROVE  full[i] < full[j]
        BY <3>1 DEF Rising
      <4>1. CASE j = n + 1
        BY <2>2, <4>1, <1>1, <1>6, <1>7
      <4>2. CASE j # n + 1
        <5>1. i \in 1 .. n /\ j \in 1 .. n
          BY <4>2, <1>1
        <5> QED
          BY <5>1, <3>1, <1>1, <1>6 DEF Rising
      <4> QED
        BY <4>1, <4>2
    <3>3. ASSUME issue = "none", NEW k \in 1 .. n + 1
          PROVE  full[k] = FrameOf(k)
      <4>1. CASE k = n + 1
        BY <2>2, <3>3, <4>1, <1>6, <1>7
      <4>2. CASE k # n + 1
        <5>1. k \in 1 .. n
          BY <4>2, <1>1
        <5> QED
          BY <5>1, <3>1, <3>3, <1>1, <1>6 DEF Whole
      <4> QED
        BY <4>1, <4>2
    <3>4. \A k \in DOMAIN full : full[k] \in Frames
      BY <1>6
    <3> QED
      BY <3>1, <3>2, <3>3, <3>4 DEF Whole
  <2> QED
    BY <2>1, <2>2
<1>9. longer = full /\ output \in Seq(Nat)
  <2>1. output = [k \in 1 .. size - Len(samples) |-> IF k <= Len(rest) THEN rest[k] ELSE 0]
    BY <1>2, <1>4 DEF Flushed, final, pending
  <2>2. full = AllSamples \o final
    BY DEF full
  <2>0. size \in Nat /\ Len(final) \in Nat
    BY <1>1, <1>5
  <2> HIDE DEF output, size, rest
  <2>3. ASSUME AllSamples = samples \o Delayed, Delayed \in Seq(Frames), rest = Delayed \o final
        PROVE  longer = full /\ output \in Seq(Nat)
    <3>1. rest \in Seq(Frames) /\ Len(rest) = Len(Delayed) + Len(final)
      BY <2>3, <1>5, Joined
    <3>2. Len(AllSamples) = Len(samples) + Len(Delayed)
      BY <2>3, Joined DEF Frames
    <3>3. Len(rest) = size - Len(samples)
      <4>1. Len(Delayed) \in Nat
        BY <2>3
      <4>2. /\ Len(AllSamples) = n /\ n \in Nat /\ Len(samples) \in Nat
            /\ Len(final) = size - n
        BY <1>1, <1>2, <1>5 DEF size
      <4> QED
        BY <4>1, <4>2, <3>1, <3>2, <2>0
    <3>4. output = rest
      BY <2>1, <3>1, <3>3
    <3>5. samples \o (Delayed \o final) = (samples \o Delayed) \o final
      <4>1. samples \in Seq(Nat) /\ Delayed \in Seq(Nat) /\ final \in Seq(Nat)
        BY <2>3, <1>5 DEF Frames
      <4> QED
        BY <4>1, JoinsAlike
    <3> QED
      BY <2>2, <2>3, <3>1, <3>4, <3>5 DEF Frames
  <2>4. AllSamples = samples \o Delayed /\ Delayed \in Seq(Frames)
    BY SamplesSoFar DEF AllSamples
  <2>5. rest = Delayed \o final
    <3>1. resampler.line \in Seq(Nat) /\ final \in Seq(Nat)
      BY <1>5 DEF Resampling, Frames
    <3>2. CASE ratio > 1 /\ resampler.trim = 1
      <4>1. Len(resampler.line) = 1 /\ Delayed = <<>>
        BY <3>2 DEF Resampling, Delayed
      <4>2. Drop(resampler.line \o final, 1) = final
        BY <3>1, <4>1, <1>5, DropsOne
      <4> QED
        BY <3>1, <3>2, <4>1, <4>2 DEF rest
    <3>3. CASE ~(ratio > 1 /\ resampler.trim = 1)
      <4>1. resampler.trim = 0 /\ Delayed = resampler.line
        BY <3>1, <3>3 DEF Resampling, Delayed
      <4>2. Drop(resampler.line \o final, 0) = resampler.line \o final
        BY <3>1, Joined DEF Drop
      <4> QED
        BY <4>1, <4>2 DEF rest
    <3> QED
      BY <3>2, <3>3
  <2> QED
    BY <2>3, <2>4, <2>5
<1>10. (Len(full) - 1) * ratio < resampler.in /\ resampler.in <= Len(full) * ratio
  <2>1. /\ (n - 1) * ratio = n * ratio - ratio /\ (n + 1) * ratio = n * ratio + ratio
        /\ (n + 1 - 1) * ratio = n * ratio
    <3>1. n \in Nat
      BY <1>1
    <3> QED
      BY <3>1, SMT
  <2>2. CASE pending = <<>>
    <3>1. Len(pending) = 0 /\ Len(full) = n
      BY <2>2, <1>6
    <3> QED
      BY <2>1, <3>1, <1>2, <1>3
  <2>3. CASE pending # <<>>
    <3>1. Len(pending) > 0 /\ Len(full) = n + 1
      BY <2>3, <1>2, <1>6
    <3> QED
      BY <2>1, <3>1, <1>2, <1>3
  <2> QED
    BY <2>2, <2>3
<1> QED
  BY <1>8, <1>9, <1>10

(* ----------------------------- the callback ------------------------------ *)

LEMMA EndsInTime ==
  ASSUME CaptureTypeOK, NEW last \in Nat, InOrder(last)
  PROVE  /\ HeldEnd(last) \in 0 .. captured
         /\ \A k \in 1 .. Len(filled) + 1 : EndBefore(last, k) \in 0 .. captured
<1>1. captured \in Nat /\ Len(filled) \in Nat
  BY CaptureAssumption DEF CaptureTypeOK
<1>2. HeldEnd(last) \in 0 .. captured
  <2>1. CASE HoldsBlock
    <3>1. held \in Block
      BY <2>1 DEF CaptureTypeOK, PoolBlock, HoldsBlock
    <3> QED
      BY <2>1, <3>1, <1>1, BlockFacts DEF HeldEnd, InOrder, Frames
  <2>2. CASE ~HoldsBlock
    BY <2>2 DEF HeldEnd, InOrder
  <2> QED
    BY <2>1, <2>2
<1>3. ASSUME NEW k \in 1 .. Len(filled) + 1, k # 1
      PROVE  EndBefore(last, k) \in 0 .. captured
  <2>1. k - 1 \in DOMAIN filled /\ filled[k - 1] \in Block
    BY <1>1, <1>3 DEF CaptureTypeOK, PoolBlock
  <2>2. End(filled[k - 1]) <= captured
    BY <2>1 DEF InOrder
  <2> QED
    BY <2>1, <2>2, <1>1, <1>3, BlockFacts DEF EndBefore, Frames
<1> QED
  BY <1>2, <1>3 DEF EndBefore

(* Nothing but the block in the worker's hands changes, or the issue.         *)
LEMMA OrderKept ==
  ASSUME NEW last \in Nat, NEW next \in Nat, InOrder(last), CaptureTypeOK,
         UNCHANGED <<filled, input, captured>>, issue' = "none" => issue = "none",
         \/ held' = held /\ next = last
         \/ ~HoldsBlock' /\ next = HeldEnd(last)
  PROVE  InOrder(next)'
<1>1. next \in 0 .. captured
  BY EndsInTime DEF InOrder
<1>2. HeldEnd(next)' = HeldEnd(last)
  BY DEF HeldEnd, HoldsBlock
<1>3. \A k : EndBefore(next, k)' = EndBefore(last, k)
  BY <1>2 DEF EndBefore
<1>4. \A a, b : Links(a, b) => Links(a, b)'
  BY DEF Links
<1>5. HoldsBlock' => HoldsBlock /\ held' = held /\ next = last
  BY DEF HoldsBlock
<1> QED
  BY <1>1, <1>3, <1>4, <1>5 DEF InOrder

LEMMA Starting ==
  ASSUME CaptureTypeOK, NEW last \in Nat, InOrder(last), NEW count \in InputFrames,
         CallbackStarts(count)
  PROVE  /\ captured' \in 0 .. MaxFrames /\ input' \in Block \cup {<<>>} /\ InOrder(last)'
<1>1. /\ input = <<>> /\ captured + count <= MaxFrames /\ captured' = captured + count
      /\ input' = [k \in 1 .. count |-> captured + k]
      /\ UNCHANGED <<filled, held, issue>>
  BY DEF CallbackStarts, workerVars
<1>2. count \in Nat /\ captured \in Nat /\ MaxFrames \in Nat
  BY CaptureAssumption DEF CaptureTypeOK
<1>3. captured' \in 0 .. MaxFrames
  BY <1>1, <1>2
<1>4. /\ input' \in Seq(Frames) /\ Len(input') = count
      /\ \A k \in 1 .. count : input'[k] = captured + k
  BY <1>1, <1>2 DEF Frames
<1>5. EndBefore(last, Len(filled) + 1) \in 0 .. captured
  <2>1. Len(filled) + 1 \in 1 .. Len(filled) + 1
    BY DEF CaptureTypeOK
  <2> QED
    BY <2>1, EndsInTime
<1>6. \A k : EndBefore(last, k)' = EndBefore(last, k)
  BY <1>1 DEF EndBefore, HeldEnd, HoldsBlock
<1>7. \A a, b : Links(a, b)' <=> Links(a, b)
  BY <1>1 DEF Links
<1>8. /\ last \in 0 .. captured'
      /\ HoldsBlock' => Links(last, held'[1]) /\ End(held') <= captured'
      /\ \A k \in DOMAIN filled' :
           Links(EndBefore(last, k)', filled'[k][1]) /\ End(filled'[k]) <= captured'
  <2>1. HoldsBlock => End(held) \in Nat
    BY BlockFacts DEF HoldsBlock, CaptureTypeOK, PoolBlock, Frames
  <2>2. \A k \in DOMAIN filled : End(filled[k]) \in Nat
    BY BlockFacts DEF CaptureTypeOK, PoolBlock, Frames
  <2> QED
    BY <2>1, <2>2, <1>1, <1>2, <1>6 DEF InOrder, HoldsBlock
<1>9. CASE count = 0
  <2>1. input' = <<>> /\ captured' = captured
    BY <1>1, <1>2, <1>4, <1>9
  <2> QED
    BY <2>1, <1>1, <1>3, <1>6, <1>7, <1>8 DEF InOrder
<1>10. CASE count # 0
  <2>1. input' # <<>> /\ input'[1] = captured + 1 /\ input'[count] = captured + count
        /\ End(input') = captured'
    BY <1>1, <1>2, <1>4, <1>10 DEF End
  <2>2. input' \in Block
    <3>1. \A j \in DOMAIN input' : input'[j] = input'[1] + j - 1
      BY <2>1, <1>2, <1>4
    <3> QED
      BY <2>1, <3>1, <1>4 DEF Block
  <2>3. Links(EndBefore(last, Len(filled) + 1), input'[1])
    BY <2>1, <1>1, <1>2, <1>5 DEF Links, InOrder
  <2> QED
    BY <2>1, <2>2, <2>3, <1>1, <1>3, <1>6, <1>7, <1>8 DEF InOrder
<1> QED
  BY <1>9, <1>10

(* A block taken in two.                                                     *)
LEMMA Splitting ==
  ASSUME NEW b \in Block, NEW n \in 1 .. Len(b)
  PROVE  /\ SubSeq(b, 1, n) \in Block /\ Len(SubSeq(b, 1, n)) = n
         /\ SubSeq(b, 1, n)[1] = b[1] /\ End(SubSeq(b, 1, n)) = b[1] + n - 1
         /\ Drop(b, n) \in Block \cup {<<>>}
         /\ Drop(b, n) = <<>> => End(SubSeq(b, 1, n)) = End(b)
         /\ Drop(b, n) # <<>> => Drop(b, n)[1] = b[1] + n /\ End(Drop(b, n)) = End(b)
<1> DEFINE front == SubSeq(b, 1, n)
           back == Drop(b, n)
<1>1. /\ b \in Seq(Frames) /\ Len(b) \in Nat \ {0} /\ b[1] \in Frames
      /\ End(b) = b[1] + Len(b) - 1
      /\ \A j \in 1 .. Len(b) : b[j] = b[1] + j - 1
  BY BlockFacts
<1>2. n \in Nat /\ 1 <= n /\ n <= Len(b) /\ n \in 0 .. Len(b)
  BY <1>1
<1>3. /\ front \in Seq(Frames) /\ Len(front) = n
      /\ \A k \in 1 .. n : front[k] = b[k]
  <2>1. /\ front \in Seq(Frames) /\ Len(front) = n - 1 + 1
        /\ \A k \in 1 .. n - 1 + 1 : front[k] = b[1 + k - 1]
    BY <1>1, <1>2, SubSeqIs
  <2> QED
    BY <2>1, <1>2
<1>4. /\ back \in Seq(Frames) /\ Len(back) = Len(b) - n
      /\ \A k \in 1 .. Len(b) - n : back[k] = b[n + k]
  BY <1>1, <1>2, DropIs
<1> HIDE DEF front, back
<1>5. front \in Block /\ front[1] = b[1] /\ End(front) = b[1] + n - 1
  <2>1. front # <<>> /\ front[1] = b[1] /\ front[n] = b[1] + n - 1
    BY <1>1, <1>2, <1>3
  <2>2. \A j \in DOMAIN front : front[j] = front[1] + j - 1
    BY SMTT(20), <2>1, <1>1, <1>2, <1>3
  <2> QED
    BY <2>1, <2>2, <1>3 DEF Block, End
<1>6. CASE n = Len(b)
  <2>1. back = <<>>
    BY <1>4, <1>6
  <2> QED
    BY <2>1, <1>1, <1>3, <1>5, <1>6 DEF front, back
<1>7. CASE n # Len(b)
  <2>1. 1 \in 1 .. Len(b) - n /\ Len(b) - n \in 1 .. Len(b) - n
    BY <1>1, <1>2, <1>7
  <2>0. back # <<>>
    BY <2>1, <1>4
  <2>2. back # <<>> /\ back[1] = b[1] + n /\ back[Len(b) - n] = b[1] + Len(b) - 1
    <3>1. back[1] = b[n + 1] /\ back[Len(b) - n] = b[n + (Len(b) - n)]
      BY <2>1, <1>4
    <3>2. /\ n + 1 \in 1 .. Len(b) /\ n + (Len(b) - n) = Len(b) /\ Len(b) \in 1 .. Len(b)
          /\ n + 1 - 1 = n
      BY <2>1, <1>1, <1>2, <1>7
    <3> HIDE DEF Frames
    <3>3. b[n + 1] = b[1] + (n + 1) - 1 /\ b[Len(b)] = b[1] + Len(b) - 1 /\ b[1] \in Int
      BY <3>2, <1>1 DEF Frames
    <3> QED
      BY <2>0, <3>1, <3>2, <3>3, <1>2
  <2>3. \A j \in DOMAIN back : back[j] = back[1] + j - 1
    <3> SUFFICES ASSUME NEW j \in 1 .. Len(b) - n
                 PROVE  back[j] = back[1] + j - 1
      BY <1>4
    <3>1. back[j] = b[n + j] /\ n + j \in 1 .. Len(b) /\ j \in Int
      BY <1>1, <1>2, <1>4
    <3>2. b[n + j] = b[1] + (n + j) - 1 /\ b[1] \in Int
      BY <3>1, <1>1 DEF Frames
    <3> QED
      BY <2>2, <3>1, <3>2, <1>2
  <2>4. back \in Block /\ End(back) = End(b)
    BY <2>2, <2>3, <1>1, <1>4 DEF Block, End
  <2> QED
    BY <2>2, <2>4, <1>3, <1>5 DEF front, back
<1> QED
  BY <1>6, <1>7

LEMMA Queueing ==
  ASSUME CaptureTypeOK, NEW last \in Nat, InOrder(last), CallbackQueues
  PROVE  /\ filled' \in Seq(PoolBlock) /\ Len(filled') = Len(filled) + 1
         /\ input' \in Block \cup {<<>>} /\ InOrder(last)'
<1> DEFINE count == IF Len(input) < BlockFrames THEN Len(input) ELSE BlockFrames
           front == SubSeq(input, 1, count)
<1>1. /\ input # <<>> /\ filled' = Append(filled, front) /\ input' = Drop(input, count)
      /\ UNCHANGED <<captured, held, issue>>
  BY DEF CallbackQueues, workerVars
<1>0. filled \in Seq(PoolBlock) /\ Len(filled) \in Nat
  BY DEF CaptureTypeOK
<1> PICK n \in Nat : n = Len(filled)
  BY <1>0
<1>2. input \in Block /\ filled \in Seq(PoolBlock) /\ n \in Nat /\ n = Len(filled)
  BY <1>0, <1>1 DEF CaptureTypeOK
<1>3. count \in 1 .. Len(input) /\ count <= BlockFrames
  <2>1. Len(input) \in Nat \ {0}
    BY <1>2, BlockFacts
  <2> QED
    BY <2>1, CaptureAssumption
<1> HIDE DEF count
<1>4. /\ front \in Block /\ Len(front) = count /\ front[1] = input[1]
      /\ End(front) = input[1] + count - 1
      /\ input' \in Block \cup {<<>>}
      /\ input' = <<>> => End(front) = End(input)
      /\ input' # <<>> => input'[1] = input[1] + count /\ End(input') = End(input)
  BY <1>1, <1>2, <1>3, Splitting
<1>5. front \in PoolBlock
  BY <1>3, <1>4 DEF PoolBlock
<1> HIDE DEF front
<1>6. /\ filled' \in Seq(PoolBlock) /\ Len(filled') = n + 1 /\ filled'[n + 1] = front
      /\ \A k \in 1 .. n : filled'[k] = filled[k]
  BY <1>1, <1>2, <1>5
<1>7. HeldEnd(last)' = HeldEnd(last) /\ (HoldsBlock' <=> HoldsBlock)
  BY <1>1 DEF HeldEnd, HoldsBlock
<1>8. ASSUME NEW k \in 1 .. n + 1
      PROVE  EndBefore(last, k)' = EndBefore(last, k)
  <2>1. k # 1 => k - 1 \in 1 .. n
    BY <1>2
  <2> QED
    BY <2>1, <1>6, <1>7 DEF EndBefore
<1>9. EndBefore(last, n + 2)' = End(front)
  <2>1. n + 2 # 1 /\ n + 2 - 1 = n + 1
    BY <1>2
  <2> QED
    BY <2>1, <1>6 DEF EndBefore
<1>11. /\ Links(EndBefore(last, n + 1), input[1]) /\ End(input) = captured
  BY <1>1, <1>2 DEF InOrder
<1>12. input[1] \in Nat /\ count \in Nat /\ captured \in Nat /\ End(front) \in Nat
  BY <1>2, <1>3, <1>4, BlockFacts DEF Frames, CaptureTypeOK
<1>13. End(front) <= captured
  <2>1. CASE input' = <<>>
    BY <2>1, <1>4, <1>11, <1>12
  <2>2. CASE input' # <<>>
    <3>1. input' \in Block
      BY <2>2, <1>4
    <3>2. input'[1] <= End(input') /\ input'[1] \in Nat
      <4>1. 1 \in DOMAIN input'
        BY <3>1, BlockFacts
      <4> QED
        BY <3>1, <4>1, BlockFacts DEF Frames
    <3> QED
      BY <2>2, <3>2, <1>4, <1>11, <1>12
  <2> QED
    BY <2>1, <2>2
<1>14. ASSUME NEW k \in DOMAIN filled'
       PROVE  Links(EndBefore(last, k)', filled'[k][1]) /\ End(filled'[k]) <= captured
  <2>1. k \in 1 .. n + 1
    BY <1>6
  <2>2. CASE k = n + 1
    BY <2>2, <1>2, <1>4, <1>6, <1>8, <1>11, <1>13
  <2>3. CASE k # n + 1
    <3>1. k \in 1 .. n /\ k \in DOMAIN filled
      BY <2>1, <2>3, <1>2
    <3>2. Links(EndBefore(last, k), filled[k][1]) /\ End(filled[k]) <= captured
      BY <3>1 DEF InOrder
    <3> QED
      BY <2>1, <3>1, <3>2, <1>6, <1>8
  <2> QED
    BY <2>2, <2>3
<1>15. input' # <<>> => Links(End(front), input'[1]) /\ End(input') = captured
  BY <1>4, <1>11, <1>12 DEF Links
<1>16. input' = <<>> => End(front) = captured
  BY <1>4, <1>11
<1>17. Len(filled') + 1 = n + 2
  BY <1>2, <1>6
<1>18. /\ last \in 0 .. captured'
       /\ HoldsBlock' => Links(last, held'[1]) /\ End(held') <= captured'
  BY <1>1, <1>7 DEF InOrder
<1>19. InOrder(last)'
  <2>1. \A k \in DOMAIN filled' :
          Links(EndBefore(last, k)', filled'[k][1]) /\ End(filled'[k]) <= captured'
    BY <1>1, <1>14
  <2>2. input' # <<>> => Links(EndBefore(last, n + 2)', input'[1]) /\ End(input') = captured'
    BY <1>1, <1>9, <1>15
  <2>3. input' = <<>> /\ issue' = "none" => EndBefore(last, n + 2)' = captured'
    BY <1>1, <1>9, <1>16
  <2> QED
    BY <2>1, <2>2, <2>3, <1>1, <1>17, <1>18 DEF InOrder, Links
<1> QED
  BY <1>4, <1>6, <1>19

LEMMA PoolBlockFacts ==
  ASSUME NEW b \in PoolBlock
  PROVE  b \in Block /\ b # <<>> /\ b # NoBlock /\ b \in Seq(Nat)
<1>1. b \in Block /\ b \in Seq(Frames) /\ b # <<>>
  BY DEF PoolBlock, Block
<1>2. b \in Seq(Nat)
  BY <1>1 DEF Frames
<1> QED
  BY <1>1, <1>2, CaptureAssumption

LEMMA Receiving ==
  ASSUME CaptureTypeOK, NEW last \in Nat, InOrder(last), WorkerReceives
  PROVE  /\ filled' \in Seq(PoolBlock) /\ Len(filled') = Len(filled) - 1
         /\ held' \in PoolBlock /\ HoldsBlock' /\ InOrder(last)'
<1>1. /\ held = NoBlock /\ filled # <<>> /\ held' = Head(filled) /\ filled' = Tail(filled)
      /\ UNCHANGED <<captured, input, issue>>
  BY DEF WorkerReceives
<1>2. filled \in Seq(PoolBlock) /\ Len(filled) \in Nat \ {0}
  BY <1>1 DEF CaptureTypeOK
<1> PICK n \in Nat : n = Len(filled)
  BY <1>2
<1>3. n = Len(filled) /\ n \in Nat /\ n >= 1
  BY <1>2
<1>4. /\ held' = filled[1] /\ held' \in PoolBlock
      /\ filled' \in Seq(PoolBlock) /\ Len(filled') = n - 1
      /\ \A k \in 1 .. n - 1 : filled'[k] = filled[k + 1]
  BY <1>1, <1>2
<1>5. HoldsBlock' /\ ~HoldsBlock
  BY <1>1, <1>4, PoolBlockFacts DEF HoldsBlock
<1>6. ASSUME NEW k \in 1 .. n
      PROVE  EndBefore(last, k)' = EndBefore(last, k + 1)
  <2>1. k + 1 # 1 /\ k + 1 - 1 = k
    BY <1>3
  <2>2. CASE k = 1
    BY <2>1, <2>2, <1>4, <1>5 DEF EndBefore, HeldEnd
  <2>3. CASE k # 1
    <3>1. k - 1 \in 1 .. n - 1 /\ (k - 1) + 1 = k
      BY <2>3, <1>3
    <3>2. filled'[k - 1] = filled[k]
      BY <3>1, <1>4
    <3> QED
      BY <2>1, <2>3, <3>2 DEF EndBefore
  <2> QED
    BY <2>2, <2>3
<1>7. EndBefore(last, 1) = last
  BY <1>5 DEF EndBefore, HeldEnd
<1>8. \A k \in 1 .. n : Links(EndBefore(last, k), filled[k][1]) /\ End(filled[k]) <= captured
  BY <1>3 DEF InOrder
<1>9. last \in 0 .. captured' /\ Links(last, held'[1]) /\ End(held') <= captured'
  <2>1. 1 \in 1 .. n
    BY <1>3
  <2> QED
    BY <2>1, <1>1, <1>4, <1>7, <1>8 DEF InOrder
<1>10. ASSUME NEW k \in DOMAIN filled'
       PROVE  Links(EndBefore(last, k)', filled'[k][1]) /\ End(filled'[k]) <= captured'
  <2>1. k \in 1 .. n - 1 /\ k \in 1 .. n /\ k + 1 \in 1 .. n
    BY <1>3, <1>4
  <2>2. filled'[k] = filled[k + 1]
    BY <2>1, <1>4
  <2> QED
    BY <2>1, <2>2, <1>1, <1>6, <1>8
<1>11. /\ input' # <<>> => Links(EndBefore(last, n)', input'[1]) /\ End(input') = captured'
       /\ input' = <<>> /\ issue' = "none" => EndBefore(last, n)' = captured'
  <2>1. EndBefore(last, n)' = EndBefore(last, n + 1)
    BY <1>3, <1>6
  <2> QED
    BY <2>1, <1>1, <1>3 DEF InOrder
<1>12. Len(filled') + 1 = n
  BY <1>3, <1>4
<1>13. InOrder(last)'
  BY <1>1, <1>9, <1>10, <1>11, <1>12 DEF InOrder, Links
<1> QED
  BY <1>3, <1>4, <1>5, <1>13

(* --------------------------- the recording's steps ----------------------- *)

LEMMA RecordingStarts == Init => Recording
<1> SUFFICES ASSUME Init PROVE Recording
  OBVIOUS
<1>1. /\ phase = "recording" /\ stream = TRUE /\ ratio \in Ratios
      /\ captured = 0 /\ input = <<>> /\ free = PoolSize /\ filled = <<>>
      /\ held = NoBlock /\ worker = "running" /\ accepting = TRUE
      /\ resampler = NewResampler(ratio) /\ samples = <<>> /\ issue = "none"
  BY DEF Init, CaptureInit
<1>2. ratio \in Nat \ {0} /\ PoolSize \in Nat /\ MaxFrames \in Nat /\ MaxSamples \in Nat
  BY <1>1, CaptureAssumption
<1>3. CaptureTypeOK
  <2>1. filled \in Seq(PoolBlock) /\ Len(filled) = 0 /\ samples \in Seq(Nat) /\ Len(samples) = 0
    BY <1>1
  <2> QED
    BY <2>1, <1>1, <1>2 DEF CaptureTypeOK, Held, Issues
<1>4. SamplesInOrder /\ WorkerOK
  BY <1>1 DEF SamplesInOrder, WorkerOK, Rising, Whole, HoldsBlock
<1>5. InOrder(0)
  BY <1>1 DEF InOrder, HoldsBlock, EndBefore, HeldEnd
<1>6. Resampling(0)
  <2>1. CASE ratio = 1
    <3>1. resampler = [pending |-> <<>>, line |-> <<>>, trim |-> 0, in |-> 0, out |-> 0]
      BY <1>1, <2>1 DEF NewResampler
    <3>2. Decimated = 0
      BY <1>1, <2>1 DEF Decimated
    <3> QED
      <4>1. /\ resampler.pending = <<>> /\ resampler.line = <<>> /\ resampler.trim = 0
            /\ resampler.in = 0 /\ resampler.out = 0
            /\ resampler = [pending |-> resampler.pending, line |-> resampler.line,
                            trim |-> resampler.trim, in |-> resampler.in, out |-> resampler.out]
        BY <3>1
      <4>2. Decimated * ratio = 0
        BY <2>1, <3>2
      <4>3. /\ resampler.pending \in Seq(Frames) /\ resampler.line \in Seq(Nat)
            /\ Len(resampler.pending) = 0 /\ Len(samples) = 0
            /\ DOMAIN resampler.pending = {} /\ DOMAIN samples = {}
        BY <1>1, <4>1
      <4>4. Rising(resampler.pending) /\ ~(ratio > 1)
        BY <2>1, <4>3 DEF Rising
      <4>5. /\ Len(resampler.pending) < ratio
            /\ resampler.in = Decimated * ratio + Len(resampler.pending)
            /\ resampler.out = Len(samples)
        BY <2>1, <4>1, <4>2, <4>3
      <4>6. resampler.trim = 0 /\ resampler.line = <<>> /\ 0 = resampler.in
        BY <4>1
      <4>7. resampler = [pending |-> resampler.pending, line |-> resampler.line,
                         trim |-> resampler.trim, in |-> resampler.in, out |-> resampler.out]
        BY <4>1
      <4> QED
        BY <2>1, <4>3, <4>4, <4>5, <4>6, <4>7 DEF Resampling
  <2>2. CASE ratio # 1
    <3>1. resampler = [pending |-> <<>>, line |-> <<0>>, trim |-> 1, in |-> 0, out |-> 0]
      BY <1>1, <2>2 DEF NewResampler
    <3>2. Decimated = 0
      BY <1>1, <2>2, <3>1 DEF Decimated
    <3> QED
      BY <1>1, <1>2, <2>2, <3>1, <3>2 DEF Resampling, Rising
  <2> QED
    BY <2>1, <2>2
<1> QED
  BY <1>3, <1>4, <1>5, <1>6 DEF Recording, Recorded

(* What a step of the callback or of the device leaves alone.                *)
LEMMA WorkerUndisturbed ==
  ASSUME SamplesInOrder, NEW last \in Nat, Recorded(last), captured <= captured',
         captured \in Nat, captured' \in Nat, ratio \in Nat,
         UNCHANGED <<ratio, worker, accepting, resampler, samples>>,
         issue' = issue \/ (issue = "none" /\ issue' \in {"overflow", "device"})
  PROVE  /\ SamplesInOrder'
         /\ (worker = "running" /\ accepting => Resampling(last))'
         /\ LimitPassed => LimitPassed'
<1>1. \A s : Rising(s)' <=> Rising(s)
  BY DEF Rising
<1>2. \A s : Whole(s)' <=> Whole(s)
  BY DEF Whole, FrameOf
<1>3. LimitPassed => LimitPassed'
  <2>1. ASSUME MaxSamples * ratio < captured
        PROVE  MaxSamples * ratio < captured'
    <3>1. MaxSamples \in Nat
      BY CaptureAssumption
    <3>2. MaxSamples * ratio \in Nat
      BY <3>1, SMT
    <3> QED
      BY <2>1, <3>2
  <2> QED
    BY <2>1 DEF LimitPassed
<1>4. SamplesInOrder'
  BY <1>3 DEF SamplesInOrder, Rising, Whole, FrameOf
<1>5. Resampling(last) => Resampling(last)'
  BY DEF Resampling, Decimated, Rising, FrameOf
<1> QED
  BY <1>3, <1>4, <1>5 DEF Recorded

LEMMA CallbackSteps ==
  ASSUME Recording,
         \/ \E count \in InputFrames : CallbackStarts(count)
         \/ CallbackQueues \/ CallbackOverflows \/ DeviceFails
  PROVE  Recording'
<1>1. PICK last \in Nat : Recorded(last)
  BY DEF Recording
<1>2. CaptureTypeOK /\ SamplesInOrder /\ WorkerOK /\ InOrder(last)
  BY <1>1 DEF Recording, Recorded
<1>3. UNCHANGED <<phase, stream, ratio, held, worker, accepting, resampler, samples>>
  BY DEF CallbackStarts, CallbackQueues, CallbackOverflows, DeviceFails, workerVars, callbackVars
<1>4. Held' = Held /\ (HoldsBlock' <=> HoldsBlock)
  BY <1>3 DEF Held, HoldsBlock
<1>5. \A n : CoversAll(n)' <=> CoversAll(n)
  BY <1>3 DEF CoversAll
<1>6. captured \in Nat /\ ratio \in Nat /\ issue \in Issues
  BY <1>2, CaptureAssumption DEF CaptureTypeOK
<1>7. CASE \E count \in InputFrames : CallbackStarts(count)
  <2>1. PICK count \in InputFrames : CallbackStarts(count)
    BY <1>7
  <2>2. stream /\ captured' = captured + count /\ UNCHANGED <<filled, free, issue>>
    BY <2>1 DEF CallbackStarts
  <2>3. /\ captured' \in 0 .. MaxFrames /\ input' \in Block \cup {<<>>} /\ InOrder(last)'
    BY <2>1, <1>2, Starting
  <2>4. count \in Nat
    BY CaptureAssumption
  <2>5. CaptureTypeOK'
    BY <2>2, <2>3, <1>2, <1>3, <1>4 DEF CaptureTypeOK
  <2>6. captured <= captured' /\ captured' \in Nat
    BY <2>2, <2>4, <1>6
  <2>7. /\ SamplesInOrder'
        /\ (worker = "running" /\ accepting => Resampling(last))'
        /\ LimitPassed => LimitPassed'
    BY <2>2, <2>6, <1>1, <1>2, <1>3, <1>6, WorkerUndisturbed
  <2>8. WorkerOK'
    BY <2>2, <2>7, <1>2, <1>3, <1>4 DEF WorkerOK
  <2> QED
    BY <2>3, <2>5, <2>7, <2>8 DEF Recording, Recorded
<1>8. CASE CallbackQueues
  <2>1. input # <<>> /\ free > 0 /\ free' = free - 1 /\ UNCHANGED <<captured, issue>>
    BY <1>8 DEF CallbackQueues
  <2>2. /\ filled' \in Seq(PoolBlock) /\ Len(filled') = Len(filled) + 1
        /\ input' \in Block \cup {<<>>} /\ InOrder(last)'
    BY <1>2, <1>8, Queueing
  <2>3. CaptureTypeOK'
    <3>1. free' \in Nat /\ free' + Len(filled') + Held' = PoolSize
      <4>1. Held \in {0, 1} /\ free \in Nat /\ Len(filled) \in Nat
            /\ free + Len(filled) + Held = PoolSize
        BY <1>2 DEF CaptureTypeOK, Held
      <4> QED
        BY <4>1, <2>1, <2>2, <1>4
    <3> QED
      BY <2>1, <2>2, <3>1, <1>2, <1>3 DEF CaptureTypeOK
  <2>4. stream
    BY <2>1, <1>2 DEF WorkerOK
  <2>5. /\ SamplesInOrder'
        /\ (worker = "running" /\ accepting => Resampling(last))'
        /\ LimitPassed => LimitPassed'
    BY <2>1, <1>1, <1>2, <1>3, <1>6, WorkerUndisturbed
  <2>6. WorkerOK'
    BY <2>1, <2>4, <2>5, <1>2, <1>3, <1>4 DEF WorkerOK
  <2> QED
    BY <2>2, <2>3, <2>5, <2>6 DEF Recording, Recorded
<1>9. CASE CallbackOverflows \/ DeviceFails
  <2>1. /\ UNCHANGED <<captured, filled, free>>
        /\ input' = input \/ input' = <<>>
        /\ issue' = issue \/ (issue = "none" /\ issue' \in {"overflow", "device"})
        /\ issue' # "none"
    BY <1>9 DEF CallbackOverflows, DeviceFails, SetIssue, callbackVars
  <2>2. CaptureTypeOK'
    BY <2>1, <1>2, <1>3, <1>4 DEF CaptureTypeOK, Issues
  <2>3. InOrder(last)'
    <3>1. \A k : EndBefore(last, k)' = EndBefore(last, k)
      BY <2>1, <1>3 DEF EndBefore, HeldEnd, HoldsBlock
    <3>2. \A a, b : Links(a, b) => Links(a, b)'
      BY <2>1 DEF Links
    <3> QED
      BY <2>1, <3>1, <3>2, <1>2, <1>3, <1>4 DEF InOrder
  <2>4. /\ SamplesInOrder'
        /\ (worker = "running" /\ accepting => Resampling(last))'
        /\ LimitPassed => LimitPassed'
    BY <2>1, <1>1, <1>2, <1>3, <1>6, WorkerUndisturbed
  <2>5. WorkerOK'
    BY <2>1, <2>4, <1>2, <1>3, <1>4 DEF WorkerOK
  <2> QED
    BY <2>2, <2>3, <2>4, <2>5 DEF Recording, Recorded
<1> QED
  BY <1>7, <1>8, <1>9

(* The worker takes a block, gives up on one, or gives one back.             *)
LEMMA WorkerSteps ==
  ASSUME Recording, WorkerReceives \/ ResamplingFails \/ WorkerReportsLimit \/ WorkerReturnsBlock
  PROVE  Recording'
<1>1. PICK last \in Nat : Recorded(last)
  BY DEF Recording
<1>2. CaptureTypeOK /\ SamplesInOrder /\ WorkerOK /\ InOrder(last)
  BY <1>1 DEF Recording, Recorded
<1>3. UNCHANGED <<phase, stream, ratio, captured, input, resampler, samples>>
  BY DEF WorkerReceives, ResamplingFails, WorkerReportsLimit, WorkerReturnsBlock, callbackVars
<1>4. \A n : CoversAll(n)' <=> CoversAll(n)
  BY <1>3 DEF CoversAll
<1>5. /\ captured \in Nat /\ ratio \in Nat /\ free \in Nat /\ Len(filled) \in Nat
      /\ free + Len(filled) + Held = PoolSize
  BY <1>2, CaptureAssumption DEF CaptureTypeOK
<1>6. (LimitPassed' <=> LimitPassed) /\ (issue' = issue => (SamplesInOrder' <=> SamplesInOrder))
  BY <1>3 DEF LimitPassed, SamplesInOrder, Rising, Whole, FrameOf
<1>7. \A n : Resampling(n) /\ issue' = issue => Resampling(n)'
  BY <1>3 DEF Resampling, Decimated, Rising, FrameOf
<1>8. <<>> # NoBlock
  <2>1. <<>> \in Seq(Nat)
    OBVIOUS
  <2> QED
    BY <2>1, CaptureAssumption
<1>9. CASE WorkerReceives
  <2>1. /\ worker = "running" /\ held = NoBlock /\ UNCHANGED <<free, worker, accepting, issue>>
    BY <1>9 DEF WorkerReceives
  <2>2. /\ filled' \in Seq(PoolBlock) /\ Len(filled') = Len(filled) - 1
        /\ held' \in PoolBlock /\ HoldsBlock' /\ InOrder(last)'
    BY <1>2, <1>9, Receiving
  <2>3. CaptureTypeOK'
    <3>1. Held = 0 /\ Held' = 1
      BY <2>1, <2>2 DEF Held, HoldsBlock
    <3>2. free' + Len(filled') + Held' = PoolSize
      BY <2>1, <2>2, <3>1, <1>5
    <3> QED
      BY <2>1, <2>2, <3>2, <1>2, <1>3 DEF CaptureTypeOK
  <2>4. WorkerOK'
    BY <2>1, <2>2, <1>2, <1>3 DEF WorkerOK
  <2> QED
    BY <2>1, <2>2, <2>3, <2>4, <1>1, <1>2, <1>6, <1>7 DEF Recording, Recorded
<1>10. CASE ResamplingFails
  <2>1. /\ worker = "running" /\ held # NoBlock /\ held' = <<>> /\ accepting' = FALSE
        /\ accepting /\ UNCHANGED <<free, filled, worker>>
        /\ issue' = IF issue = "none" THEN "device" ELSE issue
    BY <1>10 DEF ResamplingFails, SetIssue, callbackVars
  <2>2. ~HoldsBlock' /\ Held' = Held
    BY <2>1, <1>8 DEF HoldsBlock, Held
  <2>3. CaptureTypeOK'
    BY <2>1, <2>2, <1>2, <1>3 DEF CaptureTypeOK, Issues
  <2>4. PICK next \in Nat : next = HeldEnd(last)
    BY <1>2, <1>5, EndsInTime
  <2>5. InOrder(next)'
    BY <2>1, <2>2, <2>4, <1>2, <1>3, OrderKept
  <2>6. SamplesInOrder'
    BY <2>1, <1>2, <1>3, <1>6 DEF SamplesInOrder, Rising, Whole, FrameOf
  <2>7. WorkerOK'
    BY <2>1, <2>2, <1>2, <1>3, <1>6 DEF WorkerOK
  <2> QED
    BY <2>1, <2>3, <2>5, <2>6, <2>7 DEF Recording, Recorded
<1>11. CASE WorkerReportsLimit
  <2>1. /\ worker = "limit" /\ UNCHANGED <<free, filled, held, accepting>>
        /\ issue' = IF issue = "none" THEN "limit" ELSE issue
        /\ worker' = IF held = NoBlock THEN "done" ELSE "running"
    BY <1>11 DEF WorkerReportsLimit, SetIssue, callbackVars
  <2>2. (HoldsBlock' <=> HoldsBlock) /\ Held' = Held
    BY <2>1 DEF HoldsBlock, Held
  <2>3. CaptureTypeOK'
    BY <2>1, <2>2, <1>2, <1>3 DEF CaptureTypeOK, Issues
  <2>4. InOrder(last)'
    BY <2>1, <1>2, <1>3, OrderKept
  <2>5. ~accepting' /\ (issue = "none" => LimitPassed)
    BY <2>1, <1>2 DEF WorkerOK
  <2>6. SamplesInOrder'
    BY <2>1, <2>5, <1>2, <1>3, <1>6 DEF SamplesInOrder, Rising, Whole, FrameOf
  <2>7. WorkerOK'
    BY <2>1, <2>2, <2>5, <1>2, <1>3, <1>6 DEF WorkerOK
  <2> QED
    BY <2>3, <2>4, <2>5, <2>6, <2>7 DEF Recording, Recorded
<1>12. CASE WorkerReturnsBlock
  <2>1. /\ worker = "running" /\ held # NoBlock /\ held' = NoBlock /\ free' = free + 1
        /\ held = <<>> \/ ~accepting
        /\ UNCHANGED <<filled, worker, accepting, issue>>
    BY <1>12 DEF WorkerReturnsBlock, callbackVars
  <2>2. ~HoldsBlock' /\ Held' = 0 /\ Held = 1
    BY <2>1 DEF HoldsBlock, Held
  <2>3. CaptureTypeOK'
    <3>1. free' \in Nat /\ free' + Len(filled') + Held' = PoolSize
      BY <2>1, <2>2, <1>5
    <3> QED
      BY <2>1, <2>2, <3>1, <1>2, <1>3 DEF CaptureTypeOK
  <2>4. PICK next \in Nat : next = HeldEnd(last)
    BY <1>2, <1>5, EndsInTime
  <2>5. InOrder(next)'
    BY <2>1, <2>2, <2>4, <1>2, <1>3, OrderKept
  <2>6. worker' = "running" /\ accepting' => Resampling(next)'
    <3> SUFFICES ASSUME accepting PROVE Resampling(next)'
      BY <2>1
    <3>1. next = last /\ Resampling(last)
      BY <2>1, <2>4, <1>1 DEF HeldEnd, HoldsBlock, Recorded
    <3> QED
      BY <2>1, <3>1, <1>7
  <2>7. WorkerOK'
    BY <2>1, <2>2, <1>2, <1>3, <1>6 DEF WorkerOK
  <2> QED
    BY <2>1, <2>3, <2>5, <2>6, <2>7, <1>2, <1>6 DEF Recording, Recorded
<1> QED
  BY <1>9, <1>10, <1>11, <1>12

(* Samples are appended up to the limit.                                     *)
LEMMA Appending ==
  ASSUME samples \in Seq(Nat), Len(samples) <= MaxSamples, NEW output \in Seq(Nat), NEW after,
         AppendSamples(output, after)
  PROVE  /\ samples' \in Seq(Nat) /\ Len(samples') <= MaxSamples /\ accepting' \in BOOLEAN
         /\ accepting' => samples' = samples \o output /\ worker' = after
         /\ ~accepting' => /\ worker' = "limit" /\ Len(samples') = MaxSamples
                           /\ MaxSamples < Len(samples \o output)
         /\ \A k \in DOMAIN samples' :
              k \in DOMAIN (samples \o output) /\ samples'[k] = (samples \o output)[k]
<1> DEFINE room == MaxSamples - Len(samples)
           longer == samples \o output
           most == Least(room, Len(output))
           part == SubSeq(output, 1, most)
<1>1. /\ samples' = samples \o part /\ accepting' = (Len(output) <= room)
      /\ worker' = IF Len(output) <= room THEN after ELSE "limit"
  BY DEF AppendSamples
<1>2. MaxSamples \in Nat /\ Len(samples) \in Nat /\ Len(output) \in Nat /\ room \in Nat
  BY CaptureAssumption
<1>3. /\ most \in 0 .. Len(output) /\ most <= room
      /\ Len(output) <= room => most = Len(output)
      /\ ~(Len(output) <= room) => most = room
  BY <1>2 DEF Least
<1> HIDE DEF most
<1>4. /\ part \in Seq(Nat) /\ Len(part) = most
      /\ \A k \in 1 .. most : part[k] = output[k]
  <2>1. 1 <= most + 1 /\ most \in Nat /\ most <= Len(output) /\ most - 1 + 1 = most
    BY <1>2, <1>3
  <2>2. /\ part \in Seq(Nat) /\ Len(part) = most - 1 + 1
        /\ \A k \in 1 .. most - 1 + 1 : part[k] = output[1 + k - 1]
    BY <2>1, SubSeqIs
  <2> QED
    BY <2>1, <2>2
<1>5. Len(output) <= room => part = output
  BY <1>2, <1>3, <1>4
<1> HIDE DEF part
<1>6. /\ samples' \in Seq(Nat) /\ Len(samples') = Len(samples) + most
      /\ \A k \in 1 .. Len(samples) : samples'[k] = samples[k]
      /\ \A k \in 1 .. most : samples'[Len(samples) + k] = output[k]
  <2>1. /\ samples \o part \in Seq(Nat) /\ Len(samples \o part) = Len(samples) + Len(part)
        /\ \A k \in 1 .. Len(samples) : (samples \o part)[k] = samples[k]
        /\ \A k \in 1 .. Len(part) : (samples \o part)[Len(samples) + k] = part[k]
    BY <1>4, Joined
  <2> QED
    BY <2>1, <1>1, <1>4
<1>7. /\ longer \in Seq(Nat) /\ Len(longer) = Len(samples) + Len(output)
      /\ \A k \in 1 .. Len(samples) : longer[k] = samples[k]
      /\ \A k \in 1 .. Len(output) : longer[Len(samples) + k] = output[k]
  BY Joined
<1> HIDE DEF longer
<1>8. ASSUME NEW k \in DOMAIN samples'
      PROVE  k \in DOMAIN longer /\ samples'[k] = longer[k]
  <2>1. k \in 1 .. Len(samples) + most
    BY <1>6
  <2>2. k \in DOMAIN longer
    BY <2>1, <1>2, <1>3, <1>7
  <2>3. CASE k <= Len(samples)
    <3>1. k \in 1 .. Len(samples)
      BY <2>1, <2>3, <1>2, <1>3
    <3> QED
      BY <2>2, <3>1, <1>6, <1>7
  <2>4. CASE k > Len(samples)
    <3>1. k - Len(samples) \in 1 .. most /\ k - Len(samples) \in 1 .. Len(output)
          /\ Len(samples) + (k - Len(samples)) = k
      BY <2>1, <2>4, <1>2, <1>3
    <3>2. samples'[Len(samples) + (k - Len(samples))] = output[k - Len(samples)]
      BY <3>1, <1>6
    <3>3. longer[Len(samples) + (k - Len(samples))] = output[k - Len(samples)]
      BY <3>1, <1>7
    <3> QED
      BY <2>2, <3>1, <3>2, <3>3
  <2> QED
    BY <2>1, <2>3, <2>4, <1>2, <1>3
<1>9. (accepting' <=> Len(output) <= room) /\ accepting' \in BOOLEAN
  <2>1. CASE Len(output) <= room
    <3>1. (Len(output) <= room) = TRUE
      BY <2>1
    <3> QED
      BY <3>1, <2>1, <1>1
  <2>2. CASE ~(Len(output) <= room)
    <3>1. (Len(output) <= room) = FALSE
      BY <2>2
    <3> QED
      BY <3>1, <2>2, <1>1
  <2> QED
    BY <2>1, <2>2
<1> HIDE DEF room
<1>10. accepting' => samples' = longer /\ worker' = after
  BY <1>1, <1>5, <1>9 DEF longer
<1>11. ASSUME ~(Len(output) <= room)
       PROVE  worker' = "limit" /\ Len(samples') = MaxSamples /\ MaxSamples < Len(longer)
  <2>1. worker' = "limit"
    BY <1>1, <1>11
  <2>2. Len(samples') = MaxSamples /\ MaxSamples < Len(longer)
    BY <1>2, <1>3, <1>6, <1>7, <1>11 DEF room
  <2> QED
    BY <2>1, <2>2
<1>12. Len(samples') <= MaxSamples
  BY <1>2, <1>3, <1>6 DEF room
<1> QED
  BY <1>6, <1>8, <1>9, <1>10, <1>11, <1>12 DEF longer

LEMMA WorkerKeepsOrder ==
  ASSUME Recording, WorkerAppends
  PROVE  Recording'
<1>1. PICK last \in Nat : Recorded(last)
  BY DEF Recording
<1>2. CaptureTypeOK /\ SamplesInOrder /\ WorkerOK /\ InOrder(last)
  BY <1>1 DEF Recording, Recorded
<1>3. /\ worker = "running" /\ held # NoBlock /\ held # <<>> /\ accepting
      /\ resampler' = Pushed(ratio, held).next
      /\ AppendSamples(Pushed(ratio, held).output, "running") /\ held' = <<>>
      /\ UNCHANGED <<phase, stream, ratio, captured, input, filled, free, issue>>
  BY DEF WorkerAppends, callbackVars
<1>4. held \in PoolBlock
  BY <1>2, <1>3 DEF CaptureTypeOK
<1>5. PICK block \in PoolBlock : block = held
  BY <1>4
<1>6. block \in Block
  BY <1>5, PoolBlockFacts
<1>7. Resampling(last) /\ Links(last, block[1]) /\ HoldsBlock /\ End(block) <= captured
  BY <1>1, <1>3, <1>5 DEF Recorded, InOrder, HoldsBlock
<1>8. ratio \in Nat \ {0} /\ samples \in Seq(Nat) /\ Len(samples) <= MaxSamples
      /\ captured \in Nat /\ MaxSamples \in Nat
  BY <1>2, CaptureAssumption DEF CaptureTypeOK
<1> DEFINE output == Pushed(ratio, block).output
           longer == samples \o output
<1>9. /\ output \in Seq(Nat)
      /\ \A k \in DOMAIN longer : longer[k] \in Frames
      /\ Rising(longer)
      /\ issue = "none" => Whole(longer) /\ Len(longer) * ratio <= End(block)
      /\ samples' = longer => Resampling(End(block))'
  <2>1. resampler' = Pushed(ratio, block).next /\ UNCHANGED <<ratio, issue>>
    BY <1>3, <1>5
  <2> QED
    BY <2>1, <1>2, <1>6, <1>7, <1>8, Pushing
<1>10. AppendSamples(output, "running")
  BY <1>3, <1>5
<1> HIDE DEF output
<1>11. /\ samples' \in Seq(Nat) /\ Len(samples') <= MaxSamples /\ accepting' \in BOOLEAN
       /\ accepting' => samples' = longer /\ worker' = "running"
       /\ ~accepting' => /\ worker' = "limit" /\ Len(samples') = MaxSamples
                         /\ MaxSamples < Len(longer)
       /\ \A k \in DOMAIN samples' : k \in DOMAIN longer /\ samples'[k] = longer[k]
  BY <1>8, <1>9, <1>10, Appending
<1>12. Len(longer) \in Nat
  BY <1>8, <1>9, Joined
<1> HIDE DEF longer
<1>13. ~HoldsBlock' /\ Held' = Held
  <2>1. <<>> \in Seq(Nat)
    OBVIOUS
  <2> QED
    BY <2>1, <1>3, CaptureAssumption DEF HoldsBlock, Held
<1>14. CaptureTypeOK'
  BY <1>2, <1>3, <1>11, <1>13 DEF CaptureTypeOK
<1>15. issue # "limit"
  BY <1>2, <1>3 DEF WorkerOK
<1>16. ~accepting' /\ issue = "none" => LimitPassed'
  <2> SUFFICES ASSUME ~accepting', issue = "none"
               PROVE  MaxSamples * ratio < captured
    BY <1>3, <1>11 DEF LimitPassed
  <2>1. MaxSamples + 1 <= Len(longer) /\ MaxSamples + 1 \in Int
    BY <1>8, <1>11, <1>12
  <2>2. (MaxSamples + 1) * ratio <= Len(longer) * ratio
    BY <2>1, <1>8, <1>12, TimesGrows
  <2>3. (MaxSamples + 1) * ratio = MaxSamples * ratio + ratio
        /\ MaxSamples * ratio \in Nat /\ Len(longer) * ratio \in Nat
    BY <1>8, <1>12, SMT
  <2>4. End(block) \in Nat
    BY <1>6, BlockFacts DEF Frames
  <2> QED
    BY <2>2, <2>3, <2>4, <1>7, <1>8, <1>9
<1>17. SamplesInOrder'
  <2>1. \A k \in DOMAIN samples' : samples'[k] \in Frames
    BY <1>9, <1>11
  <2>2. Rising(samples')
    BY <1>9, <1>11 DEF Rising
  <2>3. issue = "none" => Whole(samples')
    BY <1>9, <1>11 DEF Whole
  <2>4. Rising(samples)' /\ (issue = "none" => Whole(samples)')
    BY <2>2, <2>3, <1>3 DEF Rising, Whole, FrameOf
  <2> QED
    BY <2>1, <2>4, <1>3, <1>15 DEF SamplesInOrder
<1>18. WorkerOK'
  BY <1>2, <1>3, <1>11, <1>13, <1>15, <1>16 DEF WorkerOK
<1>19. PICK next \in Nat : next = End(block)
  BY <1>6, BlockFacts DEF Frames
<1>20. InOrder(next)'
  <2>1. next = HeldEnd(last)
    BY <1>5, <1>7, <1>19 DEF HeldEnd
  <2> QED
    BY <2>1, <1>2, <1>3, <1>13, OrderKept
<1>21. worker' = "running" /\ accepting' => Resampling(next)'
  BY <1>9, <1>11, <1>19
<1> QED
  BY <1>14, <1>17, <1>18, <1>20, <1>21 DEF Recording, Recorded

(* With the queue empty and the stream closed all frames have been seen.     *)
LEMMA WorkerFinishes ==
  ASSUME Recording, WorkerEnds
  PROVE  Recording'
<1>1. PICK last \in Nat : Recorded(last)
  BY DEF Recording
<1>2. CaptureTypeOK /\ SamplesInOrder /\ WorkerOK /\ InOrder(last)
  BY <1>1 DEF Recording, Recorded
<1>3. /\ worker = "running" /\ held = NoBlock /\ filled = <<>> /\ ~stream
      /\ UNCHANGED <<phase, stream, ratio, captured, input, filled, free, held, resampler>>
  BY DEF WorkerEnds, callbackVars
<1>4. ratio \in Nat \ {0} /\ samples \in Seq(Nat) /\ Len(samples) <= MaxSamples
      /\ captured \in Nat /\ MaxSamples \in Nat
  BY <1>2, CaptureAssumption DEF CaptureTypeOK
<1>5. issue = "none" => accepting /\ last = captured
  <2>1. input = <<>> /\ Len(filled) = 0
    BY <1>2, <1>3 DEF WorkerOK
  <2>2. EndBefore(last, Len(filled) + 1) = last
    BY <2>1, <1>3 DEF EndBefore, HeldEnd, HoldsBlock
  <2> QED
    BY <2>1, <2>2, <1>2, <1>3 DEF InOrder, WorkerOK
<1>6. (HoldsBlock' <=> HoldsBlock) /\ Held' = Held /\ ~HoldsBlock
  BY <1>3 DEF HoldsBlock, Held
<1>7. CASE accepting /\ AppendSamples(Flushed(ratio), "done") /\ UNCHANGED issue
  <2> DEFINE output == Flushed(ratio)
             longer == samples \o output
  <2>1. Resampling(last)
    BY <1>1, <1>3, <1>7 DEF Recorded
  <2>2. /\ output \in Seq(Nat)
        /\ \A k \in DOMAIN longer : longer[k] \in Frames
        /\ Rising(longer)
        /\ issue = "none" => Whole(longer)
        /\ (Len(longer) - 1) * ratio < resampler.in
        /\ resampler.in <= Len(longer) * ratio
    BY <2>1, <1>2, <1>4, Flushing
  <2>3. AppendSamples(output, "done")
    BY <1>7
  <2> HIDE DEF output
  <2>4. /\ samples' \in Seq(Nat) /\ Len(samples') <= MaxSamples /\ accepting' \in BOOLEAN
        /\ accepting' => samples' = longer /\ worker' = "done"
        /\ ~accepting' => /\ worker' = "limit" /\ Len(samples') = MaxSamples
                          /\ MaxSamples < Len(longer)
        /\ \A k \in DOMAIN samples' : k \in DOMAIN longer /\ samples'[k] = longer[k]
    BY <2>2, <2>3, <1>4, Appending
  <2>5. Len(longer) \in Nat
    BY <2>2, <1>4, Joined
  <2> HIDE DEF longer
  <2>6. issue = "none" => resampler.in = captured
    BY <2>1, <1>5 DEF Resampling
  <2>7. issue' = issue /\ issue # "limit"
    BY <1>2, <1>7 DEF WorkerOK
  <2>8. ~accepting' /\ issue = "none" => LimitPassed'
    <3> SUFFICES ASSUME ~accepting', issue = "none"
                 PROVE  MaxSamples * ratio < captured
      BY <2>4, <1>3 DEF LimitPassed
    <3>1. MaxSamples <= Len(longer) - 1 /\ Len(longer) - 1 \in Int
      BY <2>4, <2>5, <1>4
    <3>2. MaxSamples * ratio <= (Len(longer) - 1) * ratio
      BY <3>1, <1>4, TimesGrows
    <3>3. MaxSamples * ratio \in Int /\ (Len(longer) - 1) * ratio \in Int
      BY <3>1, <1>4, SMT
    <3> QED
      BY <3>2, <3>3, <2>2, <2>6, <1>4
  <2>9. accepting' /\ issue = "none" => CoversAll(captured)'
    BY <2>2, <2>4, <2>6, <1>3 DEF CoversAll
  <2>10. SamplesInOrder'
    <3>1. \A k \in DOMAIN samples' : samples'[k] \in Frames
      BY <2>2, <2>4
    <3>2. Rising(samples')
      BY <2>2, <2>4 DEF Rising
    <3>3. issue = "none" => Whole(samples')
      BY <2>2, <2>4 DEF Whole
    <3>4. Rising(samples)' /\ (issue = "none" => Whole(samples)')
      BY <3>2, <3>3, <1>3 DEF Rising, Whole, FrameOf
    <3> QED
      BY <3>1, <3>4, <2>7 DEF SamplesInOrder
  <2>11. CaptureTypeOK'
    BY <2>4, <2>7, <1>2, <1>3, <1>6 DEF CaptureTypeOK
  <2>12. WorkerOK'
    BY <2>4, <2>7, <2>8, <2>9, <1>2, <1>3, <1>6 DEF WorkerOK
  <2>13. InOrder(last)'
    BY <2>7, <1>2, <1>3, OrderKept
  <2>14. ~(worker' = "running")
    BY <2>4
  <2> QED
    BY <2>10, <2>11, <2>12, <2>13, <2>14 DEF Recording, Recorded
<1>8. CASE /\ issue' # "none" /\ issue' = (IF issue = "none" THEN "device" ELSE issue)
           /\ worker' = "done" /\ UNCHANGED <<samples, accepting>>
  <2>1. CaptureTypeOK'
    BY <1>2, <1>3, <1>6, <1>8 DEF CaptureTypeOK, Issues
  <2>2. LimitPassed' <=> LimitPassed
    BY <1>3, <1>8 DEF LimitPassed
  <2>3. SamplesInOrder'
    BY <2>2, <1>2, <1>3, <1>8 DEF SamplesInOrder, Rising, Whole, FrameOf
  <2>4. WorkerOK'
    BY <2>2, <1>2, <1>3, <1>6, <1>8 DEF WorkerOK
  <2>5. InOrder(last)'
    BY <1>2, <1>3, <1>8, OrderKept
  <2> QED
    BY <2>1, <2>3, <2>4, <2>5, <1>8 DEF Recording, Recorded
<1> QED
  <2>1. \/ accepting /\ AppendSamples(Flushed(ratio), "done") /\ UNCHANGED issue
        \/ ~accepting /\ worker' = "done" /\ UNCHANGED <<samples, accepting, issue>>
        \/ worker' = "done" /\ SetIssue("device") /\ UNCHANGED <<samples, accepting>>
    BY DEF WorkerEnds
  <2>2. CASE ~accepting /\ worker' = "done" /\ UNCHANGED <<samples, accepting, issue>>
    BY <2>2, <1>5, <1>8
  <2>3. CASE worker' = "done" /\ SetIssue("device") /\ UNCHANGED <<samples, accepting>>
    BY <2>3, <1>8 DEF SetIssue
  <2> QED
    BY <2>1, <2>2, <2>3, <1>7

(* What leaves the recording alone, but for its phase.                       *)
LEMMA RecordingKept ==
  ASSUME Recording,
         UNCHANGED <<stream, ratio, callbackVars, free, workerVars, issue>>,
         \/ phase' = phase
         \/ /\ phase' \in {"finished", "failed"} /\ phase \in {"closing", "finished"}
            /\ worker = "done"
  PROVE  Recording'
<1>1. PICK last \in Nat : Recorded(last)
  BY DEF Recording
<1>2. CaptureTypeOK /\ SamplesInOrder /\ WorkerOK /\ InOrder(last)
  BY <1>1 DEF Recording, Recorded
<1>3. UNCHANGED <<stream, ratio, captured, input, filled, free, held, worker, accepting,
                  resampler, samples, issue>>
  BY DEF callbackVars, workerVars
<1>4. CaptureTypeOK'
  BY <1>2, <1>3 DEF CaptureTypeOK, Held
<1>5. SamplesInOrder'
  BY <1>2, <1>3 DEF SamplesInOrder, Rising, Whole, FrameOf, LimitPassed
<1>6. WorkerOK'
  BY <1>2, <1>3 DEF WorkerOK, HoldsBlock, LimitPassed, CoversAll
<1>7. InOrder(last)'
  BY <1>2, <1>3, OrderKept
<1>8. (worker = "running" /\ accepting => Resampling(last))'
  <2>1. worker = "running" /\ accepting => Resampling(last)
    BY <1>1 DEF Recorded
  <2>2. Resampling(last) => Resampling(last)'
    BY <1>3 DEF Resampling, Decimated, Rising, FrameOf
  <2> QED
    BY <2>1, <2>2, <1>3
<1> QED
  BY <1>4, <1>5, <1>6, <1>7, <1>8 DEF Recording, Recorded

LEMMA RecordingCloses ==
  ASSUME Recording, CloseStream
  PROVE  Recording'
<1>1. PICK last \in Nat : Recorded(last)
  BY DEF Recording
<1>2. CaptureTypeOK /\ SamplesInOrder /\ WorkerOK /\ InOrder(last)
  BY <1>1 DEF Recording, Recorded
<1>3. /\ phase = "recording" /\ input = <<>> /\ phase' = "closing" /\ stream' = FALSE
      /\ UNCHANGED <<ratio, captured, input, filled, free, held, worker, accepting,
                  resampler, samples, issue>>
  BY DEF CloseStream, callbackVars, workerVars
<1>4. CaptureTypeOK'
  BY <1>2, <1>3 DEF CaptureTypeOK, Held
<1>5. SamplesInOrder'
  BY <1>2, <1>3 DEF SamplesInOrder, Rising, Whole, FrameOf, LimitPassed
<1>6. WorkerOK'
  BY <1>2, <1>3 DEF WorkerOK, HoldsBlock, LimitPassed, CoversAll
<1>7. InOrder(last)'
  BY <1>2, <1>3, OrderKept
<1>8. (worker = "running" /\ accepting => Resampling(last))'
  <2>1. worker = "running" /\ accepting => Resampling(last)
    BY <1>1 DEF Recorded
  <2>2. Resampling(last) => Resampling(last)'
    BY <1>3 DEF Resampling, Decimated, Rising, FrameOf
  <2> QED
    BY <2>1, <2>2, <1>3
<1> QED
  BY <1>4, <1>5, <1>6, <1>7, <1>8 DEF Recording, Recorded

(* The pipeline takes the recording: nothing is left of it.                  *)
LEMMA RecordingConsumed ==
  ASSUME Recording, StartPipeline
  PROVE  Recording'
<1>1. CaptureTypeOK /\ WorkerOK /\ phase = "finished"
  BY DEF Recording, StartPipeline
<1>2. /\ phase' = "consumed" /\ stream' = stream /\ ratio' = 1 /\ captured' = 0 /\ input' = <<>>
      /\ free' = PoolSize /\ filled' = <<>> /\ held' = NoBlock /\ worker' = "done"
      /\ accepting' = FALSE /\ samples' = <<>> /\ issue' = "none"
  BY DEF StartPipeline
<1>3. MaxFrames \in Nat /\ MaxSamples \in Nat /\ PoolSize \in Nat
  BY CaptureAssumption
<1>4. CaptureTypeOK'
  <2>1. filled' \in Seq(PoolBlock) /\ Len(filled') = 0 /\ samples' \in Seq(Nat) /\ Len(samples') = 0
    BY <1>2
  <2>2. Held' = 0
    BY <1>2 DEF Held
  <2>3. free' \in Nat /\ free' + Len(filled') + Held' = PoolSize
    BY <2>1, <2>2, <1>2, <1>3
  <2>4. stream' \in BOOLEAN /\ accepting' \in BOOLEAN /\ captured' \in 0 .. MaxFrames
    <3>1. stream \in BOOLEAN
      BY <1>1 DEF CaptureTypeOK
    <3>2. captured' \in 0 .. MaxFrames
      BY <1>2, <1>3
    <3> QED
      BY <3>1, <3>2, <1>2
  <2> QED
    BY <2>1, <2>3, <2>4, <1>2, <1>3 DEF CaptureTypeOK, Issues
<1>5. SamplesInOrder'
  BY <1>2 DEF SamplesInOrder, Rising, Whole
<1>6. ~stream
  BY <1>1 DEF WorkerOK
<1>7. CoversAll(captured)'
  BY <1>2 DEF CoversAll
<1>8. WorkerOK'
  BY <1>2, <1>6, <1>7 DEF WorkerOK, HoldsBlock
<1>9. InOrder(0)'
  BY <1>2 DEF InOrder, HoldsBlock, EndBefore, HeldEnd
<1>10. Recorded(0)'
  BY <1>2, <1>9 DEF Recorded
<1> QED
  BY <1>4, <1>5, <1>8, <1>10 DEF Recording

LEMMA RecordingSteps ==
  ASSUME Recording, [Next]_vars
  PROVE  Recording'
<1>1. CASE CaptureNext
  <2>1. CASE \/ \E count \in InputFrames : CallbackStarts(count)
             \/ CallbackQueues \/ CallbackOverflows \/ DeviceFails
    BY <2>1, CallbackSteps
  <2>2. CASE WorkerReceives \/ ResamplingFails \/ WorkerReportsLimit \/ WorkerReturnsBlock
    BY <2>2, WorkerSteps
  <2>3. CASE WorkerAppends
    BY <2>3, WorkerKeepsOrder
  <2>4. CASE WorkerEnds
    BY <2>4, WorkerFinishes
  <2>5. CASE CloseStream
    BY <2>5, RecordingCloses
  <2>6. CASE JoinWorker
    BY <2>6, RecordingKept DEF JoinWorker
  <2>7. CASE PreviewCounts \/ PreviewListens \/ PreviewHears \/ PreviewFails
    BY <2>7, RecordingKept DEF PreviewCounts, PreviewListens, PreviewHears, PreviewFails
  <2> QED
    BY <1>1, <2>1, <2>2, <2>3, <2>4, <2>5, <2>6, <2>7 DEF CaptureNext
<1>2. CASE StartPipeline
  BY <1>2, RecordingConsumed
<1>3. CASE UNCHANGED captureVars
  BY <1>3, RecordingKept DEF captureVars
<1> QED
  BY <1>1, <1>2, <1>3 DEF Next, Record, Process, vars

(* ---------------------------- the sample buffer -------------------------- *)

(* The chunks hold the buffer, each sample at its place.                     *)
LEMMA InChunks ==
  ASSUME NEW buffer \in Seq(Nat)
  PROVE  LET chunks == Append(Chunks(buffer), Current(buffer))
         IN /\ chunks \in Seq(Seq(Nat)) /\ Len(chunks) = Len(buffer) \div ChunkSize + 1
            /\ \A q \in Nat, r \in 0 .. ChunkSize - 1 : q * ChunkSize + r < Len(buffer) =>
                 /\ q + 1 \in 1 .. Len(chunks)
                 /\ chunks[q + 1][r + 1] = buffer[q * ChunkSize + r + 1]
<1> DEFINE full == Chunks(buffer)
           rest == Current(buffer)
           chunks == Append(full, rest)
<1>a. PICK C \in Nat \ {0} : C = ChunkSize
  BY CaptureAssumption
<1>b. PICK n \in Nat : n = Len(buffer)
  OBVIOUS
<1>c. PICK m \in Nat : m = n \div C
  BY Quotient
<1>1. m * C \in Nat /\ m * C <= n /\ n < m * C + C
  <2>1. n = m * C + (n % C) /\ n % C \in 0 .. C - 1
    BY <1>c, Quotient
  <2>2. m * C \in Nat
    BY SMT
  <2> QED
    BY <2>1, <2>2
<1>2. \A q \in Nat : q < m => (q + 1) * C <= n /\ q * C \in Nat /\ (q + 1) * C = q * C + C
  <2> SUFFICES ASSUME NEW q \in Nat, q < m
               PROVE  (q + 1) * C <= n /\ q * C \in Nat /\ (q + 1) * C = q * C + C
    OBVIOUS
  <2>1. (q + 1) * C <= m * C
    <3>1. q + 1 <= m /\ q + 1 \in Int /\ m \in Int
      OBVIOUS
    <3> QED
      BY <3>1, TimesGrows
  <2>2. q * C \in Nat /\ (q + 1) * C = q * C + C
    BY SMT
  <2> QED
    BY <2>1, <2>2, <1>1
<1>3. full = [k \in 1 .. m |-> SubSeq(buffer, (k - 1) * C + 1, k * C)] /\ rest = Drop(buffer, m * C)
  BY <1>a, <1>b, <1>c DEF Chunks, Current
<1>4. /\ rest \in Seq(Nat)
      /\ \A r \in 0 .. C - 1 : m * C + r < n => rest[r + 1] = buffer[m * C + r + 1]
  <2> HIDE DEF rest
  <2>0. PICK p \in Nat : p = m * C
    BY <1>1
  <2>1. p \in 0 .. Len(buffer) /\ p <= n /\ Len(buffer) = n
    BY <2>0, <1>1, <1>b
  <2>2. /\ Drop(buffer, p) \in Seq(Nat)
        /\ \A k \in 1 .. Len(buffer) - p : Drop(buffer, p)[k] = buffer[p + k]
    BY <2>1, DropIs
  <2>3. ASSUME NEW r \in 0 .. C - 1, p + r < n
        PROVE  rest[r + 1] = buffer[p + r + 1]
    <3>1. r + 1 \in 1 .. Len(buffer) - p /\ p + (r + 1) = p + r + 1
      BY <2>3, <2>1
    <3>2. rest = Drop(buffer, p)
      BY <2>0, <1>3
    <3> QED
      BY <3>1, <3>2, <2>2
  <2> QED
    BY <2>0, <2>2, <2>3, <1>3
<1> HIDE DEF full, rest
<1>5. ASSUME NEW k \in 1 .. m
      PROVE  /\ SubSeq(buffer, (k - 1) * C + 1, k * C) \in Seq(Nat)
             /\ \A r \in 0 .. C - 1 :
                  SubSeq(buffer, (k - 1) * C + 1, k * C)[r + 1] = buffer[(k - 1) * C + r + 1]
  <2>a. PICK q \in Nat : q = k - 1
    BY <1>5
  <2>1. q < m /\ q + 1 = k
    BY <2>a, <1>5
  <2>2. k * C <= n /\ q * C \in Nat /\ k * C = q * C + C
    BY <2>1, <1>2
  <2>b. PICK a \in Nat, b \in Nat : a = q * C + 1 /\ b = k * C
    BY <2>2
  <2>3. 1 <= a /\ a <= b + 1 /\ b <= Len(buffer) /\ b - a + 1 = C
    BY <2>2, <2>b, <1>b
  <2>4. /\ SubSeq(buffer, a, b) \in Seq(Nat)
        /\ \A j \in 1 .. b - a + 1 : SubSeq(buffer, a, b)[j] = buffer[a + j - 1]
    <3>1. 1 <= a /\ a <= b + 1 /\ b <= Len(buffer)
      BY <2>3
    <3> QED
      BY <3>1, SubSeqIs
  <2>5. ASSUME NEW r \in 0 .. C - 1
        PROVE  SubSeq(buffer, a, b)[r + 1] = buffer[q * C + r + 1]
    <3>1. r + 1 \in 1 .. b - a + 1 /\ a + (r + 1) - 1 = q * C + r + 1
      BY <2>2, <2>3, <2>b
    <3> QED
      <4>1. PICK i \in 1 .. b - a + 1 : i = r + 1
        BY <3>1
      <4>2. SubSeq(buffer, a, b)[i] = buffer[a + i - 1]
        BY <2>4
      <4>3. a + i - 1 = q * C + r + 1
        BY <3>1, <4>1
      <4> QED
        BY <4>1, <4>2, <4>3
  <2>6. a = (k - 1) * C + 1 /\ b = k * C /\ k - 1 = q
    BY <2>a, <2>b
  <2> QED
    BY <2>4, <2>5, <2>6
<1>6. /\ full \in Seq(Seq(Nat)) /\ Len(full) = m
      /\ \A k \in 1 .. m : full[k] = SubSeq(buffer, (k - 1) * C + 1, k * C)
  <2>1. \A k \in 1 .. m : SubSeq(buffer, (k - 1) * C + 1, k * C) \in Seq(Nat)
    BY <1>5
  <2>2. full \in [1 .. m -> Seq(Nat)]
    BY <2>1, <1>3
  <2>3. \A k \in 1 .. m : full[k] = SubSeq(buffer, (k - 1) * C + 1, k * C)
    BY <1>3
  <2>4. full \in Seq(Seq(Nat)) /\ Len(full) = m
    BY <2>2
  <2> QED
    BY <2>3, <2>4
<1>7. /\ chunks \in Seq(Seq(Nat)) /\ Len(chunks) = m + 1 /\ chunks[m + 1] = rest
      /\ \A k \in 1 .. m : chunks[k] = full[k]
  BY <1>4, <1>6
<1> HIDE DEF chunks
<1>8. ASSUME NEW q \in Nat, NEW r \in 0 .. C - 1, q * C + r < n
      PROVE  /\ q + 1 \in 1 .. m + 1
             /\ chunks[q + 1][r + 1] = buffer[q * C + r + 1]
  <2>1. q <= m
    <3> SUFFICES ASSUME m + 1 <= q PROVE FALSE
      OBVIOUS
    <3>1. (m + 1) * C <= q * C
      BY TimesGrows
    <3>2. (m + 1) * C = m * C + C /\ q * C \in Nat
      BY SMT
    <3> QED
      BY <3>1, <3>2, <1>1, <1>8
  <2>2. CASE q = m
    <3>1. rest[r + 1] = buffer[m * C + r + 1]
      BY <2>2, <1>4, <1>8
    <3>2. chunks[q + 1] = rest
      BY <2>2, <1>7
    <3> QED
      BY <3>1, <3>2, <2>2
  <2>3. CASE q # m
    <3>1. q + 1 \in 1 .. m /\ q + 1 - 1 = q
      BY <2>1, <2>3
    <3>a. PICK k \in 1 .. m : k = q + 1
      BY <3>1
    <3>2. chunks[k] = SubSeq(buffer, (k - 1) * C + 1, k * C)
      BY <1>6, <1>7
    <3>3. SubSeq(buffer, (k - 1) * C + 1, k * C)[r + 1] = buffer[(k - 1) * C + r + 1]
      BY <1>5
    <3>4. k - 1 = q
      BY <3>a
    <3> QED
      <4>1. (k - 1) * C = q * C
        BY <3>4
      <4>2. chunks[q + 1][r + 1] = buffer[(k - 1) * C + r + 1]
        BY <3>a, <3>2, <3>3
      <4>3. q + 1 \in 1 .. m + 1
        BY <3>1
      <4> QED
        BY <4>1, <4>2, <4>3
  <2> QED
    BY <2>2, <2>3
<1> QED
  BY <1>7, <1>8, <1>a, <1>b, <1>c DEF chunks, full, rest

(* A part of the buffer, whatever the chunks.                                *)
LEMMA Flattening ==
  ASSUME NEW buffer \in Seq(Nat), NEW start \in Nat, NEW length \in Nat,
         start + length <= Len(buffer)
  PROVE  Flatten(buffer, start, length) = SubSeq(buffer, start + 1, start + length)
<1>a. PICK C \in Nat \ {0} : C = ChunkSize
  BY CaptureAssumption
<1> DEFINE chunks == Append(Chunks(buffer), Current(buffer))
           from == Drop(chunks, start \div C)
           Sample(at) == from[(at \div C) + 1][(at % C) + 1]
<1>1. /\ chunks \in Seq(Seq(Nat)) /\ Len(chunks) = Len(buffer) \div C + 1
      /\ \A q \in Nat, r \in 0 .. C - 1 : q * C + r < Len(buffer) =>
           /\ q + 1 \in 1 .. Len(chunks)
           /\ chunks[q + 1][r + 1] = buffer[q * C + r + 1]
  BY InChunks, <1>a
<1>2. Flatten(buffer, start, length) = [k \in 1 .. length |-> Sample((start % C) + k - 1)]
  BY <1>a DEF Flatten
<1> HIDE DEF chunks, from, Sample
<1>0. start \div C \in Nat /\ start % C \in Nat
  BY Quotient, Zenon
<1>b. PICK s \in Nat : s = start \div C
  BY <1>0
<1>c. PICK t \in Nat : t = start % C
  BY <1>0
<1>3. start = s * C + t /\ t < C /\ s * C \in Nat
  <2>1. start = s * C + t /\ t \in 0 .. C - 1
    BY <1>b, <1>c, Quotient
  <2>2. s * C \in Nat
    BY SMT
  <2> QED
    BY <2>1, <2>2
<1>4. s \in 0 .. Len(chunks)
  <2>a. PICK n \in Nat : n = Len(buffer)
    OBVIOUS
  <2>b. PICK m \in Nat : m = n \div C
    BY Quotient
  <2>1. n < m * C + C /\ m * C \in Nat
    <3>1. n = m * C + (n % C) /\ n % C \in 0 .. C - 1
      BY <2>b, Quotient
    <3>2. m * C \in Nat
      BY SMT
    <3> QED
      BY <3>1, <3>2
  <2>2. s <= m
    <3> SUFFICES ASSUME m + 1 <= s PROVE FALSE
      OBVIOUS
    <3>1. (m + 1) * C <= s * C
      BY TimesGrows
    <3>2. (m + 1) * C = m * C + C
      BY SMT
    <3> QED
      BY <3>1, <3>2, <2>1, <2>a, <1>3
  <2> QED
    BY <2>2, <2>a, <2>b, <1>1
<1>5. /\ from \in Seq(Seq(Nat)) /\ Len(from) = Len(chunks) - s
      /\ \A k \in 1 .. Len(chunks) - s : from[k] = chunks[s + k]
  <2>1. from = Drop(chunks, s)
    BY <1>b DEF from
  <2>2. PICK whole \in Seq(Seq(Nat)) : whole = chunks
    BY <1>1
  <2>3. s \in 0 .. Len(whole)
    BY <2>2, <1>4
  <2>4. /\ Drop(whole, s) \in Seq(Seq(Nat)) /\ Len(Drop(whole, s)) = Len(whole) - s
        /\ \A k \in 1 .. Len(whole) - s : Drop(whole, s)[k] = whole[s + k]
    BY <2>3, DropIs
  <2> QED
    BY <2>1, <2>2, <2>4, Zenon
<1>6. ASSUME NEW k \in 1 .. length
      PROVE  Sample((start % C) + k - 1) = buffer[start + k]
  <2>a. PICK at \in Nat : at = t + k - 1
    BY <1>6
  <2>0. at \div C \in Nat /\ at % C \in Nat
    BY Quotient, Zenon
  <2>b. PICK q \in Nat : q = at \div C
    BY <2>0
  <2>c. PICK r \in Nat : r = at % C
    BY <2>0
  <2>1. at = q * C + r /\ r < C /\ q * C \in Nat
    <3>1. at = q * C + r /\ r \in 0 .. C - 1
      BY <2>b, <2>c, Quotient
    <3>2. q * C \in Nat
      BY SMT
    <3> QED
      BY <3>1, <3>2
  <2>2. (s + q) * C = s * C + q * C
    BY SMT
  <2>3. (s + q) * C + r = start + k - 1 /\ (s + q) * C \in Nat
    BY <2>1, <2>2, <2>a, <1>3
  <2>4. (s + q) * C + r < Len(buffer) /\ r \in 0 .. C - 1 /\ s + q \in Nat
    BY <2>1, <2>3
  <2>5. s + q + 1 \in 1 .. Len(chunks) /\ chunks[s + q + 1][r + 1] = buffer[(s + q) * C + r + 1]
    BY <2>4, <1>1
  <2>6. q + 1 \in 1 .. Len(chunks) - s /\ s + (q + 1) = s + q + 1
    BY <2>5, <1>1, <1>4
  <2>7. from[q + 1] = chunks[s + q + 1]
    BY <2>6, <1>5
  <2>8. (s + q) * C + r + 1 = start + k
    BY <2>3
  <2>9. Sample(at) = from[q + 1][r + 1]
    BY <2>b, <2>c DEF Sample
  <2>10. Sample(at) = buffer[start + k]
    BY <2>5, <2>7, <2>8, <2>9
  <2>11. (start % C) + k - 1 = at
    BY <2>a, <1>c
  <2> QED
    BY <2>10, <2>11
<1>7. /\ SubSeq(buffer, start + 1, start + length) \in Seq(Nat)
      /\ Len(SubSeq(buffer, start + 1, start + length)) = length
      /\ \A k \in 1 .. length : SubSeq(buffer, start + 1, start + length)[k] = buffer[start + k]
  <2>1. /\ start + 1 \in Nat /\ start + length \in Nat /\ 1 <= start + 1
        /\ start + 1 <= start + length + 1 /\ start + length - (start + 1) + 1 = length
    OBVIOUS
  <2>2. /\ SubSeq(buffer, start + 1, start + length) \in Seq(Nat)
        /\ Len(SubSeq(buffer, start + 1, start + length)) = start + length - (start + 1) + 1
        /\ \A k \in 1 .. start + length - (start + 1) + 1 :
             SubSeq(buffer, start + 1, start + length)[k] = buffer[start + 1 + k - 1]
    BY <2>1, SubSeqIs
  <2>3. \A k \in 1 .. length : start + 1 + k - 1 = start + k
    OBVIOUS
  <2> QED
    BY <2>1, <2>2, <2>3
<1>8. SubSeq(buffer, start + 1, start + length) = [k \in 1 .. length |-> buffer[start + k]]
  BY <1>7
<1>9. [k \in 1 .. length |-> Sample((start % C) + k - 1)]
        = [k \in 1 .. length |-> buffer[start + k]]
  BY <1>6
<1> QED
  BY <1>2, <1>8, <1>9

(* What is transcribed is the sample buffer.                                 *)
LEMMA AudioIsTheBuffer ==
  ASSUME samples \in Seq(Nat)
  PROVE  Audio = samples
<1>1. Audio = SubSeq(samples, 0 + 1, 0 + Len(samples))
  <2>1. Len(samples) \in Nat /\ 0 + Len(samples) <= Len(samples)
    OBVIOUS
  <2> QED
    BY <2>1, Flattening DEF Audio
<1> QED
  BY <1>1

LEMMA RecordingIsWhole ==
  ASSUME Recording
  PROVE  AudioIsWhole
<1> SUFFICES ASSUME phase = "finished"
             PROVE  LET Sample(k) == (k - 1) * ratio + 1
                        total == (captured + ratio - 1) \div ratio
                    IN /\ issue = "none" => Audio = [k \in 1 .. total |-> Sample(k)]
                       /\ issue = "limit" => /\ total > MaxSamples
                                             /\ Audio = [k \in 1 .. MaxSamples |-> Sample(k)]
                       /\ \A i, j \in DOMAIN Audio : i < j => Audio[i] < Audio[j]
  BY DEF AudioIsWhole
<1> DEFINE total == (captured + ratio - 1) \div ratio
<1>1. CaptureTypeOK /\ SamplesInOrder /\ WorkerOK /\ worker = "done"
  BY DEF Recording, WorkerOK
<1>2. /\ ratio \in Nat \ {0} /\ captured \in Nat /\ samples \in Seq(Nat) /\ Len(samples) \in Nat
      /\ MaxSamples \in Nat
  BY <1>1, CaptureAssumption DEF CaptureTypeOK
<1>3. Audio = samples
  BY <1>2, AudioIsTheBuffer
<1>4. ASSUME issue = "none"
      PROVE  total = Len(samples)
  <2> PICK n \in Nat : n = Len(samples)
    BY <1>2
  <2>1. (n - 1) * ratio < captured /\ captured <= n * ratio
    BY <1>1, <1>4 DEF WorkerOK, CoversAll
  <2>2. (n - 1) * ratio = n * ratio - ratio /\ n * ratio \in Nat
    BY <1>2, SMT
  <2>3. PICK p \in Nat : p = n * ratio
    BY <2>2
  <2>4. p - ratio < captured /\ captured <= p
    BY <2>1, <2>2, <2>3
  <2>5. PICK rest \in Nat : rest = captured + ratio - 1 - p
    BY <2>4, <1>2
  <2>6. rest < ratio /\ captured + ratio - 1 = p + rest
    BY <2>4, <2>5, <1>2
  <2>7. (n * ratio + rest) \div ratio = n
    BY <2>6, <1>2, QuotientIs
  <2> QED
    BY <2>3, <2>6, <2>7
<1>5. ASSUME issue = "limit"
      PROVE  total > MaxSamples
  <2>1. MaxSamples * ratio < captured
    BY <1>1, <1>5 DEF SamplesInOrder, LimitPassed
  <2> PICK all \in Nat : all = captured + ratio - 1
    BY <1>2
  <2>2. total \in Nat /\ all = total * ratio + (all % ratio) /\ all % ratio \in 0 .. ratio - 1
    BY <1>2, Quotient
  <2> HIDE DEF total
  <2>3. all < total * ratio + ratio /\ total * ratio \in Nat
    <3>1. total * ratio \in Nat
      BY <2>2, <1>2, SMT
    <3>2. PICK rest \in 0 .. ratio - 1 : rest = all % ratio
      BY <2>2
    <3>3. all = total * ratio + rest
      BY <2>2, <3>2
    <3>4. rest < ratio /\ rest \in Nat
      BY <1>2
    <3>5. PICK p \in Nat : p = total * ratio
      BY <3>1
    <3> QED
      BY <3>3, <3>4, <3>5, <1>2
  <2> SUFFICES ASSUME total <= MaxSamples PROVE FALSE
    BY <2>2, <1>2
  <2>4. total * ratio <= MaxSamples * ratio
    BY <2>2, <1>2, TimesGrows
  <2>5. MaxSamples * ratio \in Nat
    BY <1>2, SMT
  <2> QED
    BY <2>1, <2>3, <2>4, <2>5, <1>2
<1>6. issue \in {"none", "limit"} => samples = [k \in 1 .. Len(samples) |-> (k - 1) * ratio + 1]
  <2> SUFFICES ASSUME issue \in {"none", "limit"}
               PROVE  samples = [k \in 1 .. Len(samples) |-> (k - 1) * ratio + 1]
    OBVIOUS
  <2>1. \A k \in 1 .. Len(samples) : samples[k] = (k - 1) * ratio + 1
    <3>1. DOMAIN samples = 1 .. Len(samples)
      BY <1>2
    <3> QED
      BY <3>1, <1>1 DEF SamplesInOrder, Whole, FrameOf
  <2>2. samples = [k \in 1 .. Len(samples) |-> samples[k]]
    BY <1>2
  <2> QED
    BY <2>1, <2>2, Zenon
<1>7. issue = "limit" => Len(samples) = MaxSamples
  BY <1>1 DEF SamplesInOrder, LimitPassed
<1>8. \A i, j \in DOMAIN Audio : i < j => Audio[i] < Audio[j]
  BY <1>1, <1>3 DEF SamplesInOrder, Rising
<1> HIDE DEF total
<1>9. issue = "none" => Audio = [k \in 1 .. total |-> (k - 1) * ratio + 1]
  BY <1>3, <1>4, <1>6
<1>10. issue = "limit" => Audio = [k \in 1 .. MaxSamples |-> (k - 1) * ratio + 1]
  BY <1>3, <1>6, <1>7
<1> QED
  BY <1>5, <1>8, <1>9, <1>10 DEF total

(* ----------------------------- the preview ------------------------------- *)

LEMMA Listed ==
  ASSUME NEW S, NEW n \in Nat, NEW s \in [1 .. n -> S]
  PROVE  s \in Seq(S) /\ Len(s) = n /\ DOMAIN s = 1 .. n
  OBVIOUS

LEMMA Recognised ==
  ASSUME NEW window \in Seq(Nat)
  PROVE  /\ Recognise(window) \in Seq(HeardWord) /\ Len(Recognise(window)) = Len(window)
         /\ \A i \in 1 .. Len(window) : Recognise(window)[i].sample = window[i]
<1>1. PICK n \in Nat : n = Len(window) /\ DOMAIN window = 1 .. n
  OBVIOUS
<1>2. \A i \in 1 .. n : window[i] \in Nat
  BY <1>1
<1> DEFINE next == Recognise(window)
<1>3. next = [i \in 1 .. n |-> [sample |-> window[i], stop |-> i = n]]
  BY <1>1 DEF Recognise
<1>4. \A i \in 1 .. n : [sample |-> window[i], stop |-> i = n] \in HeardWord
  BY <1>2, Zenon DEF HeardWord
<1> HIDE DEF next
<1>5. next \in [1 .. n -> HeardWord]
  BY <1>3, <1>4
<1>6. next \in Seq(HeardWord) /\ Len(next) = n
  BY <1>5, Listed
<1>7. \A i \in 1 .. n : next[i].sample = window[i]
  BY <1>3
<1> QED
  BY <1>1, <1>6, <1>7 DEF next

LEMMA GreatestIs ==
  ASSUME NEW n \in Nat, NEW S, S \subseteq 0 .. n, S # {}
  PROVE  \E k \in S : \A y \in S : k >= y
<1> DEFINE T == {m \in Nat : n - m \in S}
<1>1. T # {}
  <2>1. PICK k \in S : k \in 0 .. n
    OBVIOUS
  <2>2. n - k \in Nat /\ n - (n - k) = k
    BY <2>1
  <2> QED
    BY <2>1, <2>2
<1>2. PICK m \in T : \A k \in T : <<k, m>> \notin OpToRel(<, Nat)
  BY <1>1, WFMin, NatLessThanWellFounded, Zenon
<1>3. \A k \in T : ~(k < m)
  BY <1>2, Zenon DEF OpToRel
<1>4. ASSUME NEW y \in S
      PROVE  n - m >= y
  <2>1. n - y \in Nat /\ n - (n - y) = y /\ y \in Nat
    OBVIOUS
  <2>2. ~(n - y < m)
    BY <2>1, <1>3
  <2> QED
    BY <2>1, <2>2
<1> QED
  BY <1>4

(* What has been heard ends with the words of the k samples after w.         *)
Overlaps(old, s, w, k) ==
  /\ k <= Len(old)
  /\ \A i \in 1 .. k : Speech[old[Len(old) - k + i].sample] = Speech[s[w + i]]

(* The samples after base up to n come on top.                               *)
OnTop(new, old, s, base, n) ==
  /\ new \in Seq(HeardWord) /\ Len(new) = Len(old) + (n - base)
  /\ \A k \in 1 .. Len(old) : new[k] = old[k]
  /\ \A k \in 1 .. n - base : new[Len(old) + k].sample = s[base + k]

(* The windows overlap in at least what both have heard, and in more only if   *)
(* a word of the window is said again in it.                                 *)
LEMMA Merging ==
  ASSUME NEW old \in Seq(HeardWord), NEW s \in Seq(Nat),
         NEW w \in Nat, NEW base \in Nat, NEW n \in Nat, w <= base, base <= n, n <= Len(s),
         Overlaps(old, s, w, base - w)
  PROVE  LET next == Recognise(SubSeq(s, w + 1, n))
         IN \E top \in Nat :
              /\ base <= top /\ top <= n /\ top - w <= Len(old)
              /\ Overlaps(old, s, w, top - w)
              /\ OnTop(Merge(old, next), old, s, top, n)
              /\ ~Repeats(next) /\ w < base => top = base
<1> USE DEF Overlaps
<1> DEFINE window == SubSeq(s, w + 1, n)
           next == Recognise(window)
           k0 == base - w
           overlaps == {k \in 0 .. Least(Len(old), Len(next)) :
                          \A i \in 1 .. k : NormalizeWord(old[Len(old) - k + i])
                                              = NormalizeWord(next[i])}
<1>1. /\ window \in Seq(Nat) /\ Len(window) = n - w
      /\ \A i \in 1 .. n - w : window[i] = s[w + i]
  <2>1. 1 <= w + 1 /\ w + 1 <= n + 1 /\ n - (w + 1) + 1 = n - w /\ w + 1 \in Nat
    OBVIOUS
  <2>2. /\ window \in Seq(Nat) /\ Len(window) = n - (w + 1) + 1
        /\ \A i \in 1 .. n - (w + 1) + 1 : window[i] = s[w + 1 + i - 1]
    BY <2>1, SubSeqIs
  <2>3. \A i \in 1 .. n - w : w + 1 + i - 1 = w + i
    OBVIOUS
  <2> QED
    BY <2>1, <2>2, <2>3
<1> HIDE DEF window
<1>2. /\ next \in Seq(HeardWord) /\ Len(next) = n - w
      /\ \A i \in 1 .. n - w : next[i].sample = s[w + i]
  BY <1>1, Recognised
<1> HIDE DEF next
<1>3. Len(old) \in Nat /\ k0 \in Nat /\ k0 <= Len(old) /\ k0 <= n - w /\ w + k0 = base
  OBVIOUS
<1> HIDE DEF k0
<1>4. k0 \in overlaps
  <2>1. k0 \in 0 .. Least(Len(old), Len(next))
    BY <1>2, <1>3 DEF Least
  <2>2. ASSUME NEW i \in 1 .. k0
        PROVE  NormalizeWord(old[Len(old) - k0 + i]) = NormalizeWord(next[i])
    <3>1. i \in 1 .. n - w
      BY <1>3
    <3>2. Speech[old[Len(old) - k0 + i].sample] = Speech[s[w + i]]
      BY DEF k0
    <3> QED
      BY <3>1, <3>2, <1>2 DEF NormalizeWord
  <2> QED
    BY <2>1, <2>2
<1>5. \A k \in overlaps : k \in Nat /\ k <= Len(old) /\ k <= n - w
  BY <1>2, <1>3 DEF Least
<1>6. PICK k \in Nat : /\ k \in overlaps /\ k = Max(overlaps) /\ k0 <= k
                      /\ k <= Len(old) /\ k <= n - w
  <2> HIDE DEF overlaps
  <2>1. overlaps \subseteq 0 .. Len(old)
    BY <1>3, <1>5
  <2>2. \E k \in overlaps : \A y \in overlaps : k >= y
    BY <2>1, <1>3, <1>4, GreatestIs
  <2>3. Max(overlaps) \in overlaps /\ \A y \in overlaps : Max(overlaps) >= y
    BY <2>2 DEF Max
  <2> QED
    BY <2>3, <1>3, <1>4, <1>5
<1>7. \A i \in 1 .. k : Speech[old[Len(old) - k + i].sample] = Speech[s[w + i]]
  <2> SUFFICES ASSUME NEW i \in 1 .. k
               PROVE  Speech[old[Len(old) - k + i].sample] = Speech[s[w + i]]
    OBVIOUS
  <2>1. NormalizeWord(old[Len(old) - k + i]) = NormalizeWord(next[i])
    BY <1>6
  <2>2. next[i].sample = s[w + i]
    <3>1. i \in 1 .. n - w
      BY <1>6
    <3> QED
      BY <3>1, <1>2
  <2> QED
    BY <2>1, <2>2 DEF NormalizeWord
<1>9. Merge(old, next) = old \o Drop(next, k)
  BY <1>6 DEF Merge
<1> HIDE DEF overlaps
<1>8. ASSUME k # k0, 0 < k0
      PROVE  Repeats(next)
  <2>1. /\ k0 \in 1 .. n - w /\ k \in 1 .. n - w /\ k0 \in DOMAIN next /\ k \in DOMAIN next
        /\ k \in 1 .. k /\ k0 \in 1 .. k0
    <3>1. 1 <= k0 /\ 1 <= k /\ DOMAIN next = 1 .. n - w
      BY <1>2, <1>3, <1>6, <1>8
    <3> QED
      BY <3>1, <1>3, <1>6
  <2>2. Len(old) - k + k = Len(old) /\ Len(old) - k0 + k0 = Len(old)
    BY <1>3, <1>5, <1>6
  <2>3. Speech[old[Len(old)].sample] = Speech[s[w + k]]
    BY <2>1, <2>2, <1>7
  <2>4. Speech[old[Len(old)].sample] = Speech[s[w + k0]]
    <3>1. \A i \in 1 .. k0 : Speech[old[Len(old) - k0 + i].sample] = Speech[s[w + i]]
      BY DEF k0
    <3> QED
      BY <3>1, <2>1, <2>2
  <2>5. NormalizeWord(next[k]) = NormalizeWord(next[k0])
    BY <2>1, <2>3, <2>4, <1>2 DEF NormalizeWord
  <2> QED
    BY <2>1, <2>5, <1>8 DEF Repeats
<1> PICK top \in Nat : top = w + k
  OBVIOUS
<1> DEFINE new == Merge(old, next)
<1> HIDE DEF new
<1>10. /\ Drop(next, k) \in Seq(HeardWord) /\ Len(Drop(next, k)) = n - top
       /\ \A j \in 1 .. n - top : Drop(next, k)[j].sample = s[top + j]
  <2>1. k \in 0 .. Len(next) /\ Len(next) - k = n - top
    BY <1>2, <1>5, <1>6
  <2>2. /\ Drop(next, k) \in Seq(HeardWord) /\ Len(Drop(next, k)) = Len(next) - k
        /\ \A j \in 1 .. Len(next) - k : Drop(next, k)[j] = next[k + j]
    BY <2>1, <1>2, DropIs
  <2>3. ASSUME NEW j \in 1 .. n - top
        PROVE  Drop(next, k)[j].sample = s[top + j]
    <3>0. j \in Nat /\ 1 <= j /\ j <= n - top /\ k \in Nat
      OBVIOUS
    <3>1. k + j \in 1 .. n - w /\ w + (k + j) = top + j
      BY SMT, <3>0
    <3>2. next[k + j].sample = s[w + (k + j)]
      BY <3>1, <1>2
    <3> QED
      BY <3>1, <3>2, <2>1, <2>2
  <2> QED
    BY <2>1, <2>2, <2>3
<1> PICK tail \in Seq(HeardWord) : tail = Drop(next, k)
  BY <1>10
<1>15. new = old \o tail
  BY <1>9 DEF new
<1>11. /\ new \in Seq(HeardWord) /\ Len(new) = Len(old) + Len(tail)
       /\ \A j \in 1 .. Len(old) : new[j] = old[j]
       /\ \A j \in 1 .. Len(tail) : new[Len(old) + j] = tail[j]
  BY <1>15, Joined
<1>12. OnTop(new, old, s, top, n)
  BY <1>10, <1>11 DEF OnTop
<1>13. /\ base <= top /\ top <= n /\ top - w = k
       /\ ~Repeats(next) /\ w < base => top = base
  <2>1. base <= top /\ top <= n /\ top - w = k
    BY <1>3, <1>6
  <2>2. k0 = 0 => w = base
    BY DEF k0
  <2>3. k = k0 => top = base
    BY <1>3
  <2> QED
    BY <2>1, <2>2, <2>3, <1>3, <1>8
<1>14. Overlaps(old, s, w, top - w) /\ top - w <= Len(old)
  BY <1>5, <1>6, <1>7, <1>13
<1> QED
  BY <1>12, <1>13, <1>14 DEF new, next, window

(* The sample buffer only grows.                                             *)
Grows ==
  /\ samples' \in Seq(Nat) /\ Len(samples) <= Len(samples')
  /\ \A k \in 1 .. Len(samples) : samples'[k] = samples[k]

LEMMA AppendingGrows ==
  ASSUME samples \in Seq(Nat), Len(samples) <= MaxSamples, NEW output \in Seq(Nat), NEW after,
         AppendSamples(output, after)
  PROVE  Grows
<1> DEFINE longer == samples \o output
<1>1. /\ samples' \in Seq(Nat) /\ Len(samples') <= MaxSamples /\ accepting' \in BOOLEAN
      /\ accepting' => samples' = longer /\ worker' = after
      /\ ~accepting' => /\ worker' = "limit" /\ Len(samples') = MaxSamples
                        /\ MaxSamples < Len(longer)
      /\ \A k \in DOMAIN samples' : k \in DOMAIN longer /\ samples'[k] = longer[k]
  BY Appending
<1>2. /\ longer \in Seq(Nat) /\ Len(longer) = Len(samples) + Len(output)
      /\ \A k \in 1 .. Len(samples) : longer[k] = samples[k]
  BY Joined
<1> HIDE DEF longer
<1>3. Len(samples) <= Len(samples')
  <2>1. Len(output) \in Nat /\ Len(samples) \in Nat
    OBVIOUS
  <2>2. CASE accepting'
    BY <2>1, <2>2, <1>1, <1>2
  <2>3. CASE ~accepting'
    BY <2>3, <1>1
  <2> QED
    BY <2>2, <2>3
<1>4. ASSUME NEW k \in 1 .. Len(samples)
      PROVE  samples'[k] = samples[k]
  <2>1. k \in DOMAIN samples'
    BY <1>1, <1>3
  <2> QED
    BY <2>1, <1>1, <1>2
<1> QED
  BY <1>1, <1>3, <1>4 DEF Grows

LEMMA SamplesGrow ==
  ASSUME Recording, CaptureNext
  PROVE  Grows
<1>1. PICK last \in Nat : Recorded(last)
  BY DEF Recording
<1>2. CaptureTypeOK /\ SamplesInOrder /\ WorkerOK /\ InOrder(last)
  BY <1>1 DEF Recording, Recorded
<1>3. ratio \in Nat \ {0} /\ samples \in Seq(Nat) /\ Len(samples) <= MaxSamples
      /\ Len(samples) \in Nat
  BY <1>2 DEF CaptureTypeOK
<1>4. CASE WorkerAppends
  <2>1. /\ worker = "running" /\ held # NoBlock /\ held # <<>> /\ accepting
        /\ AppendSamples(Pushed(ratio, held).output, "running")
    BY <1>4 DEF WorkerAppends
  <2>2. PICK block \in PoolBlock : block = held
    BY <2>1, <1>2 DEF CaptureTypeOK
  <2>3. block \in Block /\ Resampling(last) /\ Links(last, block[1])
    BY <2>1, <2>2, <1>1, PoolBlockFacts DEF Recorded, InOrder, HoldsBlock
  <2>4. Pushed(ratio, block).output \in Seq(Nat)
    BY <2>3, <1>2, <1>3, Pushing
  <2>5. AppendSamples(Pushed(ratio, block).output, "running")
    BY <2>1, <2>2
  <2> QED
    BY <2>4, <2>5, <1>3, AppendingGrows
<1>5. CASE WorkerEnds
  <2>1. CASE accepting /\ AppendSamples(Flushed(ratio), "done")
    <3>1. Resampling(last)
      BY <2>1, <1>1, <1>5 DEF Recorded, WorkerEnds
    <3>2. Flushed(ratio) \in Seq(Nat)
      BY <3>1, <1>2, <1>3, Flushing
    <3> QED
      BY <2>1, <3>2, <1>3, AppendingGrows
  <2>2. CASE UNCHANGED samples
    BY <2>2, <1>3 DEF Grows
  <2> QED
    BY <2>1, <2>2, <1>5 DEF WorkerEnds
<1>6. CASE UNCHANGED samples
  BY <1>6, <1>3 DEF Grows
<1> QED
  <2>1. WorkerAppends \/ WorkerEnds \/ UNCHANGED samples
    BY DEF CaptureNext, CallbackStarts, CallbackQueues, CallbackOverflows, DeviceFails,
           WorkerReceives, ResamplingFails, WorkerReportsLimit, WorkerReturnsBlock,
           CloseStream, JoinWorker, PreviewCounts, PreviewListens, PreviewHears,
           PreviewFails, workerVars
  <2> QED
    BY <2>1, <1>4, <1>5, <1>6

LEMMA SameSeq ==
  ASSUME NEW s \in Seq(Nat), NEW t \in Seq(Nat), NEW n, Len(s) = n, Len(t) = n,
         \A k \in 1 .. n : s[k] = t[k]
  PROVE  s = t
  OBVIOUS

(* A part of the samples stays what it was as they grow.                     *)
LEMMA PartsStay ==
  ASSUME samples \in Seq(Nat), Grows, NEW a \in Nat, NEW b \in Nat, 1 <= a, b <= Len(samples)
  PROVE  SubSeq(samples', a, b) = SubSeq(samples, a, b)
<1>1. \A k \in a .. b : samples'[k] = samples[k]
  <2>1. \A k \in a .. b : k \in 1 .. Len(samples)
    OBVIOUS
  <2> QED
    BY <2>1 DEF Grows
<1> PICK old \in Seq(Nat), new \in Seq(Nat) : old = samples /\ new = samples'
  BY DEF Grows
<1>2. b <= Len(old) /\ b <= Len(new) /\ \A k \in a .. b : new[k] = old[k]
  BY <1>1 DEF Grows
<1>3. SubSeq(new, a, b) = SubSeq(old, a, b)
  <2>1. CASE a <= b + 1
    <3>1. /\ SubSeq(new, a, b) \in Seq(Nat) /\ Len(SubSeq(new, a, b)) = b - a + 1
          /\ \A k \in 1 .. b - a + 1 : SubSeq(new, a, b)[k] = new[a + k - 1]
      BY <2>1, <1>2, SubSeqIs
    <3>2. /\ SubSeq(old, a, b) \in Seq(Nat) /\ Len(SubSeq(old, a, b)) = b - a + 1
          /\ \A k \in 1 .. b - a + 1 : SubSeq(old, a, b)[k] = old[a + k - 1]
      BY <2>1, <1>2, SubSeqIs
    <3>3. \A k \in 1 .. b - a + 1 : SubSeq(new, a, b)[k] = SubSeq(old, a, b)[k]
      <4>1. \A k \in 1 .. b - a + 1 : a + k - 1 \in a .. b
        OBVIOUS
      <4> QED
        BY <4>1, <3>1, <3>2, <1>2
    <3> QED
      <4>1. PICK x \in Seq(Nat) : x = SubSeq(new, a, b)
        BY <3>1
      <4>2. PICK y \in Seq(Nat) : y = SubSeq(old, a, b)
        BY <3>2
      <4>3. Len(x) = Len(y) /\ \A k \in 1 .. Len(x) : x[k] = y[k]
        BY <3>1, <3>2, <3>3, <4>1, <4>2
      <4>4. x = y
        BY <4>3, SameSeq
      <4> QED
        BY <4>1, <4>2, <4>4
  <2>2. CASE ~(a <= b + 1)
    BY <2>2
  <2> QED
    BY <2>1, <2>2
<1> QED
  BY <1>3

LEMMA WindowStarts ==
  ASSUME NEW n \in Nat
  PROVE  /\ WindowStart(n) \in Nat /\ WindowStart(n) <= n /\ Overlap \in Nat
         /\ 0 < n => WindowStart(n) < n
         /\ \A m \in Nat : n + Cadence <= m => n <= WindowStart(m)
<1>1. Cadence \in Nat \ {0, 1}
  BY CaptureAssumption
<1>2. Overlap \in Nat \ {0} /\ Overlap <= Cadence
  <2>1. Cadence \div 2 \in Nat \ {0} /\ Cadence \div 2 <= Cadence
    BY <1>1
  <2> QED
    BY <2>1 DEF Overlap
<1> QED
  BY <1>1, <1>2 DEF WindowStart

LEMMA StaysMerged ==
  ASSUME samples \in Seq(Nat), Grows, NEW n \in Nat, MergedUpTo(n),
         UNCHANGED <<preview>>
  PROVE  MergedUpTo(n)'
<1>1. Heard' = Heard /\ preview' = preview
  BY DEF Heard
<1>2. n <= Len(samples) /\ n <= Len(samples') /\ \A m \in 1 .. n : samples'[m] = samples[m]
  <2>1. Len(samples) \in Nat /\ Len(samples') \in Nat /\ Len(samples) <= Len(samples')
    BY DEF Grows
  <2>2. n <= Len(samples) /\ \A m \in 1 .. n : m \in 1 .. Len(samples)
    BY <2>1 DEF MergedUpTo
  <2> QED
    BY <2>1, <2>2 DEF Grows
<1>3. Rising(Heard)' <=> Rising(Heard)
  BY <1>1 DEF Rising
<1>4. ASSUME NEW b \in Nat, b <= n
      PROVE  HeardFrom(b) => HeardFrom(b)'
  <2>1. \A m \in 1 .. b : m \in 1 .. n
    BY <1>4
  <2> QED
    BY <2>1, <1>1, <1>2 DEF HeardFrom
<1>5. EndsWith(n) => EndsWith(n)'
  <2>1. WindowStart(n)' = WindowStart(n) /\ WindowStart(n) \in Nat /\ WindowStart(n) <= n
    BY WindowStarts DEF WindowStart, Overlap
  <2>2. \A i \in 1 .. n - WindowStart(n) : WindowStart(n) + i \in 1 .. n
    BY <2>1
  <2> QED
    BY <2>1, <2>2, <1>1, <1>2 DEF EndsWith
<1>6. SubSeq(samples, 1, n)' = SubSeq(samples, 1, n)
  BY <1>2, PartsStay
<1>7. HeardFrom(n)' /\ (HeardFrom(WindowStart(n)) => HeardFrom(WindowStart(n))')
  <2>1. PICK w \in Nat : w = WindowStart(n) /\ w <= n
    BY WindowStarts
  <2>2. WindowStart(n)' = WindowStart(n)
    BY DEF WindowStart, Overlap
  <2>3. HeardFrom(w) => HeardFrom(w)'
    BY <2>1, <1>4
  <2> QED
    <3>1. HeardFrom(n)'
      BY <1>4 DEF MergedUpTo
    <3>2. HeardFrom(WindowStart(n)) => HeardFrom(w)
      BY <2>1
    <3>3. HeardFrom(w)' => HeardFrom(WindowStart(n))'
      BY <2>1, <2>2 DEF HeardFrom
    <3> QED
      BY <2>3, <3>1, <3>2, <3>3
<1> QED
  BY <1>1, <1>2, <1>3, <1>5, <1>6, <1>7 DEF MergedUpTo

LEMMA FreshPreview == preview = NewPreview /\ samples = <<>> => PreviewOK
<1> SUFFICES ASSUME preview = NewPreview, samples = <<>>
             PROVE  PreviewOK
  OBVIOUS
<1>1. /\ preview.step = "sleeping" /\ preview.last = 0 /\ preview.end = 0
      /\ preview.merged = <<>> /\ preview.missed = FALSE /\ preview.repeats = FALSE
  BY DEF NewPreview
<1>0. preview = [step |-> preview.step, last |-> preview.last, end |-> preview.end,
                 segment |-> preview.segment, merged |-> preview.merged,
                 missed |-> preview.missed, repeats |-> preview.repeats]
  BY DEF NewPreview
<1>2. Heard = <<>> /\ DOMAIN Heard = {} /\ Len(Heard) = 0
  <2>1. DOMAIN preview.merged = {}
    BY <1>1
  <2>2. Heard = <<>>
    BY <2>1 DEF Heard
  <2> QED
    BY <2>2
<1>3. MergedUpTo(0)
  <2>1. Rising(Heard) /\ HeardFrom(0)
    BY <1>2 DEF Rising, HeardFrom
  <2>2. EndsWith(0)
    <3>1. WindowStart(0) = 0
      BY WindowStarts
    <3> QED
      BY <3>1, <1>2 DEF EndsWith
  <2>3. Heard = SubSeq(samples, 1, 0) /\ 0 <= Len(samples)
    BY <1>2
  <2> QED
    BY <2>1, <2>2, <2>3 DEF MergedUpTo
<1>4. preview.merged \in Seq(HeardWord)
  BY <1>1
<1>5. MergedUpTo(preview.last)
  BY <1>1, <1>3
<1>6. /\ preview.step \in {"sleeping", "counted", "listening"}
      /\ preview.step # "counted" /\ preview.step # "listening"
      /\ preview.last \in Nat /\ preview.end \in Nat
  BY <1>1
<1>7. preview.missed \in BOOLEAN /\ preview.repeats \in BOOLEAN
  BY <1>1, Zenon
<1> QED
  BY <1>0, <1>4, <1>5, <1>6, <1>7, Zenon DEF PreviewOK

(* What has been heard stays heard while nothing is merged.                  *)
LEMMA MergedAlike ==
  ASSUME UNCHANGED samples, preview'.merged = preview.merged, preview'.missed = preview.missed,
         preview'.repeats = preview.repeats, NEW n \in Nat
  PROVE  MergedUpTo(n)' <=> MergedUpTo(n)
<1>1. Heard' = Heard
  BY DEF Heard
<1> QED
  BY <1>1 DEF MergedUpTo, Rising, HeardFrom, EndsWith, WindowStart, Overlap

LEMMA PreviewStays ==
  ASSUME PreviewOK, samples \in Seq(Nat), Grows, UNCHANGED preview
  PROVE  PreviewOK'
<1>1. preview.step # "listening" => MergedUpTo(preview.last)'
  <2>1. PICK n \in Nat : n = preview.last
    BY DEF PreviewOK
  <2> QED
    BY <2>1, StaysMerged DEF PreviewOK, MergedUpTo
<1>2. Len(samples) <= Len(samples') /\ Len(samples) \in Nat /\ Len(samples') \in Nat
  BY DEF Grows
<1>3. preview.step = "counted" =>
        preview.last + Cadence <= preview.end /\ preview.end <= Len(samples')
  BY <1>2 DEF PreviewOK
<1>4. ASSUME preview.step = "listening"
      PROVE  \E old \in Nat :
               /\ MergedUpTo(old)'
               /\ old + Cadence <= preview.last /\ preview.last <= Len(samples')
               /\ preview.segment = Recognise(SubSeq(samples', WindowStart(old) + 1, preview.last))
  <2>1. PICK old \in Nat :
          /\ MergedUpTo(old)
          /\ old + Cadence <= preview.last /\ preview.last <= Len(samples)
          /\ preview.segment = Recognise(SubSeq(samples, WindowStart(old) + 1, preview.last))
    BY <1>4 DEF PreviewOK
  <2>2. PICK a \in Nat : a = WindowStart(old) + 1 /\ 1 <= a
    BY WindowStarts
  <2>3. PICK b \in Nat : b = preview.last /\ b <= Len(samples)
    BY <2>1 DEF PreviewOK
  <2>4. SubSeq(samples', a, b) = SubSeq(samples, a, b)
    BY <2>2, <2>3, PartsStay
  <2>5. MergedUpTo(old)'
    BY <2>1, StaysMerged
  <2>6. preview.last <= Len(samples')
    BY <2>3, <1>2
  <2> QED
    BY <2>1, <2>2, <2>3, <2>4, <2>5, <2>6
<1> QED
  BY <1>1, <1>3, <1>4 DEF PreviewOK, WindowStart, Overlap

LEMMA PreviewWindows ==
  ASSUME PreviewOK, samples \in Seq(Nat), PreviewCounts \/ PreviewListens
  PROVE  PreviewOK'
<1>1. UNCHANGED samples
  BY DEF PreviewCounts, PreviewListens, workerVars
<1>2. Cadence \in Nat \ {0} /\ Len(samples) \in Nat
  BY CaptureAssumption
<1>3. CASE PreviewCounts
  <2>1. /\ preview.step = "sleeping" /\ Len(samples) - preview.last >= Cadence
        /\ preview' = [preview EXCEPT !.step = "counted", !.end = Len(samples)]
    BY <1>3 DEF PreviewCounts
  <2>2. /\ preview'.step = "counted" /\ preview'.end = Len(samples)
        /\ preview'.last = preview.last /\ preview'.merged = preview.merged
        /\ preview'.missed = preview.missed /\ preview'.repeats = preview.repeats
        /\ preview' = [step |-> preview'.step, last |-> preview'.last, end |-> preview'.end,
                       segment |-> preview'.segment, merged |-> preview'.merged,
                       missed |-> preview'.missed, repeats |-> preview'.repeats]
    BY <2>1 DEF PreviewOK
  <2>3. PICK n \in Nat : n = preview.last /\ MergedUpTo(n)
    BY <2>1 DEF PreviewOK
  <2>4. MergedUpTo(n)'
    BY <2>2, <2>3, <1>1, MergedAlike
  <2>5. MergedUpTo(preview.last)'
    BY <2>2, <2>3, <2>4 DEF MergedUpTo
  <2>6. preview'.last + Cadence <= preview'.end /\ preview'.end <= Len(samples')
    BY <2>1, <2>2, <2>3, <1>1, <1>2
  <2>7. preview'.step \in {"sleeping", "counted", "listening"} /\ preview'.step # "listening"
    BY <2>2
  <2>8. /\ preview'.last \in Nat /\ preview'.end \in Nat
        /\ preview'.merged \in Seq(HeardWord) /\ preview'.missed \in BOOLEAN
        /\ preview'.repeats \in BOOLEAN
    BY <2>2, <1>2 DEF PreviewOK
  <2> QED
    BY <2>2, <2>5, <2>6, <2>7, <2>8 DEF PreviewOK
<1>4. CASE PreviewListens
  <2>1. /\ preview.step = "counted"
        /\ preview' = [preview EXCEPT !.step = "listening", !.last = preview.end,
             !.segment = Recognise(SnapshotRange(WindowStart(preview.last), preview.end))]
    BY <1>4 DEF PreviewListens
  <2>2. /\ preview'.step = "listening" /\ preview'.end = preview.end
        /\ preview'.last = preview.end /\ preview'.merged = preview.merged
        /\ preview'.segment = Recognise(SnapshotRange(WindowStart(preview.last), preview.end))
        /\ preview'.missed = preview.missed /\ preview'.repeats = preview.repeats
        /\ preview' = [step |-> preview'.step, last |-> preview'.last, end |-> preview'.end,
                       segment |-> preview'.segment, merged |-> preview'.merged,
                       missed |-> preview'.missed, repeats |-> preview'.repeats]
    BY <2>1 DEF PreviewOK
  <2>3. PICK old \in Nat : /\ old = preview.last /\ MergedUpTo(old)
                           /\ old + Cadence <= preview.end /\ preview.end <= Len(samples)
    BY <2>1 DEF PreviewOK
  <2>4. PICK n \in Nat : n = preview.end
    BY DEF PreviewOK
  <2>5. PICK w \in Nat : w = WindowStart(old) /\ w <= old
    BY WindowStarts
  <2>6. w <= n /\ n <= Len(samples)
    BY <2>3, <2>4, <2>5, <1>2
  <2>7. SnapshotRange(w, n) = SubSeq(samples, w + 1, n)
    <3>1. Least(n, Len(samples)) = n /\ Least(w, n) = w
      BY <2>6, <1>2 DEF Least
    <3>2. SnapshotRange(w, n) = Flatten(samples, w, n - w)
      BY <3>1 DEF SnapshotRange
    <3>3. PICK length \in Nat : length = n - w
      BY <2>6
    <3>4. w + length = n
      BY <3>3
    <3>5. Flatten(samples, w, length) = SubSeq(samples, w + 1, w + length)
      BY <3>4, <2>6, Flattening
    <3> QED
      BY <3>2, <3>3, <3>4, <3>5
  <2>8. MergedUpTo(old)'
    BY <2>2, <2>3, <1>1, MergedAlike
  <2>9. /\ old + Cadence <= preview'.last /\ preview'.last <= Len(samples')
        /\ preview'.segment = Recognise(SubSeq(samples', WindowStart(old) + 1, preview'.last))
    BY <2>2, <2>3, <2>4, <2>5, <2>7, <1>1
  <2>10. WindowStart(old)' = WindowStart(old)
    BY DEF WindowStart, Overlap
  <2>11. /\ preview'.last \in Nat /\ preview'.end \in Nat
        /\ preview'.merged \in Seq(HeardWord) /\ preview'.missed \in BOOLEAN
        /\ preview'.repeats \in BOOLEAN
    BY <2>2 DEF PreviewOK
  <2> QED
    BY <2>2, <2>8, <2>9, <2>10, <2>11 DEF PreviewOK
<1> QED
  BY <1>3, <1>4

LEMMA StartOf ==
  ASSUME NEW s \in Seq(Nat), NEW n \in Nat, n <= Len(s)
  PROVE  \E p \in Seq(Nat) :
           p = SubSeq(s, 1, n) /\ Len(p) = n /\ \A k \in 1 .. n : p[k] = s[k]
<1>1. 1 <= n + 1 /\ n - 1 + 1 = n /\ \A k \in 1 .. n : 1 + k - 1 = k
  OBVIOUS
<1>2. /\ SubSeq(s, 1, n) \in Seq(Nat) /\ Len(SubSeq(s, 1, n)) = n - 1 + 1
      /\ \A k \in 1 .. n - 1 + 1 : SubSeq(s, 1, n)[k] = s[1 + k - 1]
  BY <1>1, SubSeqIs
<1> QED
  BY <1>1, <1>2

(* The words of this, and what follows from hearing the samples after base on *)
(* top of some up to it.                                                     *)
HearsMore(g, h, s, base, n) ==
  /\ \A i \in DOMAIN h : \E m \in 1 .. base : h[i] = s[m]
  /\ Len(g) = Len(h) + (n - base)
  /\ \A k \in 1 .. Len(h) : g[k] = h[k]
  /\ \A k \in 1 .. n - base : g[Len(h) + k] = s[base + k]

HearsAll(g, h, s, base, n) ==
  /\ Rising(g)
  /\ \A i \in DOMAIN g : \E m \in 1 .. n : g[i] = s[m]
  /\ h = SubSeq(s, 1, base) => g = SubSeq(s, 1, n)

LEMMA HearsOn ==
  ASSUME NEW s \in Seq(Nat), Rising(s), NEW h \in Seq(Nat), Rising(h), NEW g \in Seq(Nat),
         NEW base \in Nat, NEW n \in Nat, base <= n, n <= Len(s), HearsMore(g, h, s, base, n)
  PROVE  HearsAll(g, h, s, base, n)
<1> USE DEF HearsMore
<1>1. /\ Len(h) \in Nat /\ DOMAIN h = 1 .. Len(h) /\ DOMAIN g = 1 .. Len(h) + (n - base)
      /\ DOMAIN s = 1 .. Len(s) /\ Len(s) \in Nat
  OBVIOUS
<1>2. (\A m \in 1 .. n : m \in DOMAIN s) /\ \A j \in 1 .. n - base : base + j \in 1 .. n
  <2>1. \A m \in 1 .. n : m \in 1 .. Len(s)
    BY <1>1
  <2>2. \A j \in 1 .. n - base : base + j \in 1 .. n
    OBVIOUS
  <2> QED
    BY <2>1, <2>2, <1>1
<1>3. ASSUME NEW i \in DOMAIN g
      PROVE  \/ i \in 1 .. Len(h) /\ g[i] = h[i]
             \/ /\ i - Len(h) \in 1 .. n - base /\ g[i] = s[base + (i - Len(h))]
                /\ base + (i - Len(h)) \in DOMAIN s
  <2>1. CASE i <= Len(h)
    BY <2>1, <1>1
  <2>2. CASE i > Len(h)
    <3>1. i - Len(h) \in 1 .. n - base /\ Len(h) + (i - Len(h)) = i
      BY SMTT(20), <2>2, <1>1
    <3>2. g[Len(h) + (i - Len(h))] = s[base + (i - Len(h))]
      BY <3>1
    <3>3. base + (i - Len(h)) \in DOMAIN s
      BY <3>1, <1>2
    <3> QED
      BY <3>1, <3>2, <3>3
  <2> QED
    BY <2>1, <2>2, <1>1
<1>4. Rising(g)
  <2> SUFFICES ASSUME NEW i \in DOMAIN g, NEW j \in DOMAIN g, i < j
               PROVE  g[i] < g[j]
    BY DEF Rising
  <2>0. i \in Nat /\ j \in Nat
    BY <1>1
  <2>1. CASE j \in 1 .. Len(h)
    <3>1. i \in 1 .. Len(h)
      BY <2>0, <2>1, <1>1
    <3> QED
      BY <2>1, <3>1, <1>1 DEF Rising
  <2>2. CASE j \notin 1 .. Len(h)
    <3>1. PICK b \in DOMAIN s : b = base + (j - Len(h)) /\ b > base /\ g[j] = s[b]
      BY SMTT(20), <2>0, <2>2, <1>1, <1>3
    <3>2. CASE i \in 1 .. Len(h)
      <4>1. PICK m \in 1 .. base : h[i] = s[m]
        BY <3>2, <1>1
      <4>2. m \in DOMAIN s /\ m < b
        <5>1. m \in 1 .. n
          OBVIOUS
        <5>2. m \in DOMAIN s
          BY <5>1, <1>2
        <5>3. m <= base /\ b \in Nat
          BY <1>1
        <5> QED
          BY <5>2, <5>3, <3>1
      <4> QED
        BY <3>1, <3>2, <4>1, <4>2 DEF Rising
    <3>3. CASE i \notin 1 .. Len(h)
      <4>1. PICK a \in DOMAIN s : a = base + (i - Len(h)) /\ g[i] = s[a]
        BY <2>0, <3>3, <1>1, <1>3
      <4>2. a < b
        BY SMTT(20), <2>0, <3>1, <4>1, <1>1
      <4> QED
        BY <3>1, <4>1, <4>2 DEF Rising
    <3> QED
      BY <3>2, <3>3
  <2> QED
    BY <2>1, <2>2
<1>5. ASSUME NEW i \in DOMAIN g
      PROVE  \E m \in 1 .. n : g[i] = s[m]
  <2>1. CASE i \in 1 .. Len(h) /\ g[i] = h[i]
    <3>1. PICK m \in 1 .. base : h[i] = s[m]
      BY <2>1, <1>1
    <3>2. m \in 1 .. n
      OBVIOUS
    <3> QED
      BY <2>1, <3>1, <3>2
  <2>2. CASE i - Len(h) \in 1 .. n - base /\ g[i] = s[base + (i - Len(h))]
    <3>1. base + (i - Len(h)) \in 1 .. n
      BY <2>2, <1>2
    <3> QED
      BY <2>2, <3>1
  <2> QED
    BY <2>1, <2>2, <1>3
<1>6. ASSUME h = SubSeq(s, 1, base)
      PROVE  g = SubSeq(s, 1, n)
  <2>1. base <= Len(s) /\ n <= Len(s)
    BY <1>1
  <2>2. PICK p \in Seq(Nat) :
          p = SubSeq(s, 1, base) /\ Len(p) = base /\ \A k \in 1 .. base : p[k] = s[k]
    BY <2>1, StartOf
  <2>3. PICK q \in Seq(Nat) :
          q = SubSeq(s, 1, n) /\ Len(q) = n /\ \A k \in 1 .. n : q[k] = s[k]
    BY <2>1, StartOf
  <2>4. Len(h) = base /\ \A k \in 1 .. base : h[k] = s[k]
    BY <2>2, <1>6
  <2>5. Len(g) = n
    BY <2>4
  <2>6. ASSUME NEW k \in 1 .. n
        PROVE  g[k] = q[k]
    <3>1. q[k] = s[k]
      BY <2>3
    <3>2. CASE k <= base
      <4>1. k \in 1 .. base /\ k \in 1 .. Len(h)
        BY <3>2, <2>4
      <4> QED
        BY <3>1, <4>1, <2>4
    <3>3. CASE k > base
      <4>1. PICK j \in 1 .. n - base : j = k - base
        BY SMTT(20), <3>3
      <4>2. Len(h) + j = k /\ base + j = k
        BY <4>1, <2>4
      <4>3. g[Len(h) + j] = s[base + j]
        OBVIOUS
      <4> QED
        BY <3>1, <4>2, <4>3
    <3> QED
      BY <3>2, <3>3
  <2>7. g = q
    BY <2>3, <2>5, <2>6, SameSeq
  <2> QED
    BY <2>3, <2>7
<1> QED
  BY <1>4, <1>5, <1>6 DEF HearsAll

(* What has been heard ends with the words of the k samples after w.         *)
Ends(h, s, w, k) ==
  k <= Len(h) /\ \A i \in 1 .. k : Speech[h[Len(h) - k + i]] = Speech[s[w + i]]

(* With the samples after top on top, the words of all the samples after u,  *)
(* which is in the overlap or after it, are at the end.                      *)
LEMMA EndsOn ==
  ASSUME NEW s \in Seq(Nat), NEW h \in Seq(Nat), NEW g \in Seq(Nat),
         NEW w \in Nat, NEW top \in Nat, NEW n \in Nat, NEW u \in Nat,
         w <= top, top <= n, w <= u, u <= n,
         Ends(h, s, w, top - w), HearsMore(g, h, s, top, n)
  PROVE  Ends(g, s, u, n - u)
<1> PICK a \in Nat : a = Len(h)
  OBVIOUS
<1>1. /\ Len(g) = a + (n - top) /\ top - w <= a /\ n - u <= Len(g)
      /\ \A i \in 1 .. top - w : Speech[h[a - (top - w) + i]] = Speech[s[w + i]]
      /\ \A k \in 1 .. a : g[k] = h[k]
      /\ \A k \in 1 .. n - top : g[a + k] = s[top + k]
  BY DEF Ends, HearsMore
<1>2. ASSUME NEW i \in 1 .. n - u
      PROVE  Speech[g[Len(g) - (n - u) + i]] = Speech[s[u + i]]
  <2>0. i \in Nat /\ 1 <= i /\ i <= n - u
    OBVIOUS
  <2>1. CASE u + i <= top
    <3>1. PICK j \in Nat : j = u + i - w
      BY <2>0
    <3> DEFINE m == a - (top - w) + j
    <3>3. /\ j \in 1 .. top - w /\ m \in 1 .. a
          /\ m = Len(g) - (n - u) + i /\ w + j = u + i
      BY <3>1, <2>0, <2>1, <1>1
    <3>4. g[m] = h[m] /\ Speech[h[m]] = Speech[s[w + j]]
      BY <3>3, <1>1
    <3> QED
      BY <3>3, <3>4
  <2>2. CASE u + i > top
    <3>1. PICK k \in Nat : k = u + i - top
      BY <2>0, <2>2
    <3>2. k \in 1 .. n - top /\ a + k = Len(g) - (n - u) + i /\ top + k = u + i
      BY <3>1, <2>0, <2>2, <1>1
    <3>3. g[a + k] = s[top + k]
      BY <3>2, <1>1
    <3> QED
      BY <3>2, <3>3
  <2> QED
    BY <2>0, <2>1, <2>2
<1> QED
  BY <1>1, <1>2 DEF Ends

LEMMA HeardIs ==
  ASSUME preview.merged \in Seq(HeardWord)
  PROVE  /\ Heard \in Seq(Nat) /\ Len(Heard) = Len(preview.merged)
         /\ DOMAIN Heard = DOMAIN preview.merged
         /\ \A k \in DOMAIN Heard : Heard[k] = preview.merged[k].sample
<1>1. PICK n \in Nat : n = Len(preview.merged) /\ DOMAIN preview.merged = 1 .. n
  OBVIOUS
<1>2. \A k \in 1 .. n : preview.merged[k].sample \in Nat
  <2>1. \A k \in 1 .. n : preview.merged[k] \in HeardWord
    BY <1>1
  <2>2. \A x \in HeardWord : x.sample \in Nat
    BY DEF HeardWord
  <2> QED
    BY <2>1, <2>2
<1>3. Heard = [k \in 1 .. n |-> preview.merged[k].sample]
  BY <1>1 DEF Heard
<1>4. Heard \in [1 .. n -> Nat]
  BY <1>2, <1>3
<1>5. Heard \in Seq(Nat) /\ Len(Heard) = n /\ DOMAIN Heard = 1 .. n
  BY <1>4, Listed
<1> QED
  BY <1>1, <1>3, <1>5

(* A window is merged with what has been heard of those before it.           *)
LEMMA PreviewMerges ==
  ASSUME PreviewOK, Recording, PreviewHears
  PROVE  PreviewOK'
<1>1. /\ preview.step = "listening" /\ UNCHANGED samples
      /\ preview' = [preview EXCEPT !.step = "sleeping", !.segment = <<>>,
                                    !.merged = Merge(@, preview.segment),
                                    !.repeats = @ \/ Repeats(preview.segment)]
  BY DEF PreviewHears, workerVars
<1>2. /\ preview'.step = "sleeping" /\ preview'.last = preview.last /\ preview'.end = preview.end
      /\ preview'.merged = Merge(preview.merged, preview.segment)
      /\ preview'.missed = preview.missed
      /\ preview'.repeats = (preview.repeats \/ Repeats(preview.segment))
      /\ preview' = [step |-> preview'.step, last |-> preview'.last, end |-> preview'.end,
                     segment |-> preview'.segment, merged |-> preview'.merged,
                     missed |-> preview'.missed, repeats |-> preview'.repeats]
  BY <1>1 DEF PreviewOK
<1>3. PICK old \in Nat :
        /\ MergedUpTo(old)
        /\ old + Cadence <= preview.last /\ preview.last <= Len(samples)
        /\ preview.segment = Recognise(SubSeq(samples, WindowStart(old) + 1, preview.last))
  BY <1>1 DEF PreviewOK
<1>4. PICK n \in Nat : n = preview.last
  BY DEF PreviewOK
<1>5. PICK s \in Seq(Nat) : s = samples
  BY DEF Recording, CaptureTypeOK
<1>6. PICK w \in Nat : w = WindowStart(old) /\ w <= old /\ (0 < old => w < old)
  BY WindowStarts
<1>7. PICK from \in Nat :
        from = WindowStart(n) /\ old <= from /\ from <= n /\ WindowStart(n)' = from
  <2>1. WindowStart(n)' = WindowStart(n)
    BY DEF WindowStart, Overlap
  <2> QED
    BY <2>1, <1>3, <1>4, WindowStarts
<1>8. Rising(s) /\ n <= Len(s) /\ old <= n
  <2>1. Rising(s)
    BY <1>5 DEF Recording, SamplesInOrder
  <2> QED
    BY <2>1, <1>3, <1>4, <1>5, <1>7
<1>9. PICK merged \in Seq(HeardWord) : merged = preview.merged
  BY DEF PreviewOK
<1>10. PICK h \in Seq(Nat) : /\ h = Heard /\ Len(h) = Len(merged) /\ DOMAIN h = DOMAIN merged
                             /\ \A k \in DOMAIN h : h[k] = merged[k].sample
  BY <1>9, HeardIs
<1>11. /\ Rising(h) /\ preview.missed \in BOOLEAN
       /\ ~preview.missed /\ ~preview.repeats => h = SubSeq(s, 1, old)
  BY <1>3, <1>5, <1>10 DEF MergedUpTo, PreviewOK
<1>12. PICK base \in Nat :
         /\ w <= base /\ base <= old
         /\ \A i \in DOMAIN h : \E m \in 1 .. base : h[i] = s[m]
         /\ base - w <= Len(h)
         /\ \A i \in 1 .. base - w : Speech[h[Len(h) - (base - w) + i]] = Speech[s[w + i]]
         /\ ~preview.missed => base = old
  <2>1. CASE EndsWith(old)
    <3>1. \A i \in DOMAIN h : \E m \in 1 .. old : h[i] = s[m]
      BY <1>3, <1>5, <1>10 DEF MergedUpTo, HeardFrom
    <3>2. /\ old - w <= Len(h)
          /\ \A i \in 1 .. old - w : Speech[h[Len(h) - (old - w) + i]] = Speech[s[w + i]]
      BY <2>1, <1>5, <1>6, <1>10 DEF EndsWith
    <3>3. w <= old /\ old <= old
      BY <1>6
    <3> QED
      BY <3>1, <3>2, <3>3, Zenon
  <2>2. CASE ~EndsWith(old)
    <3>1. preview.missed /\ HeardFrom(w)
      BY <2>2, <1>3, <1>6 DEF MergedUpTo
    <3>2. \A i \in DOMAIN h : \E m \in 1 .. w : h[i] = s[m]
      BY <3>1, <1>5, <1>10 DEF HeardFrom
    <3>3. /\ w - w <= Len(h) /\ w <= w
          /\ \A i \in 1 .. w - w : Speech[h[Len(h) - (w - w) + i]] = Speech[s[w + i]]
      OBVIOUS
    <3>4. w <= old /\ ~(~preview.missed)
      BY <3>1, <1>6
    <3> QED
      BY <3>2, <3>3, <3>4, Zenon
  <2> QED
    BY <2>1, <2>2
<1>13. base <= n
  BY <1>7, <1>8, <1>12
<1>14. PICK new, next :
         next = Recognise(SubSeq(s, w + 1, n)) /\ new = Merge(merged, next)
  OBVIOUS
<1>15. PICK top \in Nat :
         /\ base <= top /\ top <= n /\ top - w <= Len(merged)
         /\ Overlaps(merged, s, w, top - w)
         /\ OnTop(new, merged, s, top, n)
         /\ ~Repeats(next) /\ w < base => top = base
  <2>1. ASSUME NEW i \in 1 .. base - w
        PROVE  Speech[merged[Len(merged) - (base - w) + i].sample] = Speech[s[w + i]]
    <3>5. PICK a \in Nat : a = Len(h) /\ DOMAIN h = 1 .. a
      OBVIOUS
    <3>6. PICK b \in Nat : b = base - w /\ b <= a
      BY <1>12, <3>5
    <3>7. a - b + i \in 1 .. a
      BY <3>6
    <3>1. PICK j \in 1 .. Len(h) : j = Len(h) - (base - w) + i
      BY <3>5, <3>6, <3>7
    <3>2. j \in DOMAIN h
      BY <3>1, <3>5
    <3>3. h[j] = merged[j].sample
      BY <3>2, <1>10
    <3>4. Speech[h[j]] = Speech[s[w + i]]
      BY <3>1, <1>12
    <3> QED
      BY <3>1, <3>3, <3>4, <1>10
  <2>2. Overlaps(merged, s, w, base - w)
    BY <2>1, <1>10, <1>12 DEF Overlaps
  <2>3. w <= base /\ base <= n /\ n <= Len(s)
    BY <1>8, <1>12, <1>13
  <2> QED
    BY <2>2, <2>3, <1>14, Merging
<1>30. /\ new \in Seq(HeardWord) /\ Len(new) = Len(merged) + (n - top)
       /\ \A k \in 1 .. Len(merged) : new[k] = merged[k]
       /\ \A k \in 1 .. n - top : new[Len(merged) + k].sample = s[top + k]
  BY <1>15 DEF OnTop
<1>16. preview'.merged = new
  BY <1>2, <1>3, <1>4, <1>5, <1>6, <1>9, <1>14
<1>17. PICK g \in Seq(Nat) : /\ g = Heard' /\ Len(g) = Len(new)
                             /\ \A k \in 1 .. Len(new) : g[k] = new[k].sample
  <2>1. /\ Heard' \in Seq(Nat) /\ Len(Heard') = Len(preview'.merged)
        /\ DOMAIN Heard' = DOMAIN preview'.merged
        /\ \A k \in DOMAIN Heard' : Heard'[k] = preview'.merged[k].sample
    <3>1. preview'.merged \in Seq(HeardWord)
      BY <1>30, <1>16
    <3>2. (preview.merged \in Seq(HeardWord) =>
            /\ Heard \in Seq(Nat) /\ Len(Heard) = Len(preview.merged)
            /\ DOMAIN Heard = DOMAIN preview.merged
            /\ \A k \in DOMAIN Heard : Heard[k] = preview.merged[k].sample)'
      <4>1. preview.merged \in Seq(HeardWord) =>
            /\ Heard \in Seq(Nat) /\ Len(Heard) = Len(preview.merged)
            /\ DOMAIN Heard = DOMAIN preview.merged
            /\ \A k \in DOMAIN Heard : Heard[k] = preview.merged[k].sample
        BY HeardIs
      <4> QED
        BY HeardIs, PTL
    <3> QED
      BY <3>1, <3>2
  <2>2. DOMAIN Heard' = 1 .. Len(new)
    BY <2>1, <1>30, <1>16
  <2> QED
    BY <2>1, <2>2, <1>16
<1>31. Len(h) = Len(merged) /\ n - top \in Nat
  BY <1>10, <1>15
<1>18. /\ Len(g) = Len(h) + (n - top)
       /\ \A k \in 1 .. Len(h) : g[k] = h[k]
       /\ \A k \in 1 .. n - top : g[Len(h) + k] = s[top + k]
  <2>1. Len(g) = Len(h) + (n - top)
    BY <1>10, <1>30, <1>17
  <2>2. \A k \in 1 .. Len(h) : k \in 1 .. Len(new) /\ k \in DOMAIN h /\ k \in 1 .. Len(merged)
    BY <1>10, <1>31, <1>30
  <2>3. \A k \in 1 .. Len(h) : g[k] = h[k]
    BY <2>2, <1>10, <1>30, <1>17
  <2>4. \A k \in 1 .. n - top : Len(h) + k \in 1 .. Len(new) /\ Len(merged) = Len(h)
    BY <1>10, <1>31, <1>30
  <2>5. \A k \in 1 .. n - top : g[Len(h) + k] = s[top + k]
    BY <2>4, <1>30, <1>17
  <2> QED
    BY <2>1, <2>3, <2>5
<1>34. HearsMore(g, h, s, top, n)
  <2>1. \A i \in DOMAIN h : \E m \in 1 .. top : h[i] = s[m]
    <3>1. \A m \in 1 .. base : m \in 1 .. top
      BY <1>15
    <3> QED
      BY <3>1, <1>12
  <2> QED
    BY <2>1, <1>18 DEF HearsMore
<1>19. /\ Rising(g)
       /\ \A i \in DOMAIN g : \E m \in 1 .. n : g[i] = s[m]
       /\ h = SubSeq(s, 1, top) => g = SubSeq(s, 1, n)
  <2>1. HearsAll(g, h, s, top, n)
    BY <1>8, <1>11, <1>15, <1>34, HearsOn
  <2> QED
    BY <2>1 DEF HearsAll
<1>32. /\ Len(g) >= n - from
       /\ \A i \in 1 .. n - from : Speech[g[Len(g) - (n - from) + i]] = Speech[s[from + i]]
  <2>1. w <= top /\ w <= from
    BY <1>6, <1>7, <1>12, <1>15
  <2>2. PICK a \in Nat : a = Len(h) /\ a = Len(merged) /\ DOMAIN h = 1 .. a
    BY <1>31
  <2>3. PICK k \in Nat : k = top - w /\ k <= a
    BY <2>1, <2>2, <1>15
  <2>4. ASSUME NEW i \in 1 .. k
        PROVE  Speech[h[Len(h) - k + i]] = Speech[s[w + i]]
    <3>1. PICK j \in 1 .. a : j = a - k + i
      BY <2>3
    <3>2. h[j] = merged[j].sample
      BY <2>2, <1>10
    <3>3. Speech[merged[j].sample] = Speech[s[w + i]]
      BY <3>1, <2>2, <2>3, <1>15 DEF Overlaps
    <3> QED
      BY <3>1, <3>2, <3>3, <2>2
  <2>5. Ends(h, s, w, top - w)
    BY <2>2, <2>3, <2>4 DEF Ends
  <2>6. Ends(g, s, from, n - from)
    BY <2>1, <2>5, <1>7, <1>15, <1>34, EndsOn
  <2> QED
    BY <2>6, <1>7, <1>17 DEF Ends
<1>33. ASSUME ~preview'.missed, ~preview'.repeats
       PROVE  g = SubSeq(s, 1, n)
  <2>1. ~preview.missed /\ ~preview.repeats /\ ~Repeats(next)
    BY <1>2, <1>3, <1>4, <1>5, <1>6, <1>14, <1>33
  <2>2. base = old /\ h = SubSeq(s, 1, old)
    BY <2>1, <1>11, <1>12
  <2>3. top = old
    <3>1. CASE 0 < old
      BY <3>1, <2>1, <2>2, <1>6, <1>15
    <3>2. CASE ~(0 < old)
      <4>1. old = 0 /\ w = 0 /\ Len(h) = 0
        <5>1. old = 0 /\ w = 0
          BY <3>2, <1>6
        <5>2. SubSeq(s, 1, 0) = <<>>
          OBVIOUS
        <5> QED
          BY <5>1, <5>2, <2>2
      <4> QED
        BY <4>1, <1>15, <1>31
    <3> QED
      BY <3>1, <3>2
  <2> QED
    BY <2>2, <2>3, <1>19
<1>20. MergedUpTo(n)'
  <2>1. n <= Len(samples')
    BY <1>1, <1>5, <1>8
  <2>2. Rising(Heard)'
    BY <1>17, <1>19 DEF Rising
  <2>3. HeardFrom(n)'
    BY <1>1, <1>5, <1>17, <1>19 DEF HeardFrom
  <2>4. EndsWith(n)'
    BY <1>1, <1>5, <1>7, <1>17, <1>32 DEF EndsWith
  <2>5. ~preview'.missed /\ ~preview'.repeats => Heard' = SubSeq(samples', 1, n)
    BY <1>1, <1>5, <1>17, <1>33
  <2> QED
    BY <2>1, <2>2, <2>3, <2>4, <2>5 DEF MergedUpTo
<1>21. MergedUpTo(preview.last)'
  BY <1>2, <1>4, <1>20 DEF MergedUpTo
<1>22. /\ preview'.step \in {"sleeping", "counted", "listening"}
       /\ preview'.step # "counted" /\ preview'.step # "listening"
  BY <1>2
<1>23. /\ preview'.last \in Nat /\ preview'.end \in Nat
       /\ preview'.merged \in Seq(HeardWord) /\ preview'.missed \in BOOLEAN
       /\ preview'.repeats \in BOOLEAN
  BY <1>2, <1>30, <1>16 DEF PreviewOK
<1> QED
  BY <1>2, <1>21, <1>22, <1>23 DEF PreviewOK

(* The words of a window are missed, and the next one starts after them.     *)
LEMMA PreviewMisses ==
  ASSUME PreviewOK, samples \in Seq(Nat), PreviewFails
  PROVE  PreviewOK'
<1>1. /\ preview.step = "listening" /\ UNCHANGED samples
      /\ preview' = [preview EXCEPT !.step = "sleeping", !.segment = <<>>, !.missed = TRUE]
  BY DEF PreviewFails, workerVars
<1>2. /\ preview'.step = "sleeping" /\ preview'.last = preview.last /\ preview'.end = preview.end
      /\ preview'.merged = preview.merged /\ preview'.missed = TRUE
      /\ preview'.repeats = preview.repeats
      /\ preview' = [step |-> preview'.step, last |-> preview'.last, end |-> preview'.end,
                     segment |-> preview'.segment, merged |-> preview'.merged,
                     missed |-> preview'.missed, repeats |-> preview'.repeats]
  BY <1>1 DEF PreviewOK
<1>3. PICK old \in Nat :
        /\ MergedUpTo(old)
        /\ old + Cadence <= preview.last /\ preview.last <= Len(samples)
  BY <1>1 DEF PreviewOK
<1>4. PICK n \in Nat : n = preview.last
  BY DEF PreviewOK
<1>5. PICK from \in Nat :
        from = WindowStart(n) /\ old <= from /\ from <= n /\ WindowStart(n)' = from
  <2>1. WindowStart(n)' = WindowStart(n)
    BY DEF WindowStart, Overlap
  <2> QED
    BY <2>1, <1>3, <1>4, WindowStarts
<1>6. Heard' = Heard
  BY <1>2 DEF Heard
<1>7. MergedUpTo(n)'
  <2>1. Rising(Heard)'
    BY <1>3, <1>6 DEF MergedUpTo, Rising
  <2>2. \A i \in DOMAIN Heard' : \E m \in 1 .. old : Heard'[i] = samples'[m]
    BY <1>1, <1>3, <1>6 DEF MergedUpTo, HeardFrom
  <2>3. \A m \in 1 .. old : m \in 1 .. n /\ m \in 1 .. from
    BY <1>5
  <2>4. HeardFrom(n)'
    BY <2>2, <2>3 DEF HeardFrom
  <2>5. HeardFrom(WindowStart(n))'
    BY <2>2, <2>3, <1>5 DEF HeardFrom
  <2> QED
    BY <2>1, <2>4, <2>5, <1>1, <1>2, <1>3, <1>4 DEF MergedUpTo
<1>8. MergedUpTo(preview.last)'
  BY <1>2, <1>4, <1>7 DEF MergedUpTo
<1>9. /\ preview'.step \in {"sleeping", "counted", "listening"}
      /\ preview'.step # "counted" /\ preview'.step # "listening"
  BY <1>2
<1>10. /\ preview'.last \in Nat /\ preview'.end \in Nat
       /\ preview'.merged \in Seq(HeardWord) /\ preview'.missed \in BOOLEAN
       /\ preview'.repeats \in BOOLEAN
  BY <1>2 DEF PreviewOK
<1> QED
  BY <1>2, <1>8, <1>9, <1>10 DEF PreviewOK

LEMMA PreviewSteps ==
  ASSUME Recording, PreviewOK, [Next]_vars
  PROVE  PreviewOK'
<1>1. samples \in Seq(Nat)
  BY DEF Recording, CaptureTypeOK
<1>2. CASE CaptureNext
  <2>1. CASE PreviewCounts \/ PreviewListens
    BY <2>1, <1>1, PreviewWindows
  <2>2. CASE PreviewHears
    BY <2>2, PreviewMerges
  <2>3. CASE PreviewFails
    BY <2>3, <1>1, PreviewMisses
  <2>4. CASE UNCHANGED preview
    BY <2>4, <1>1, <1>2, SamplesGrow, PreviewStays
  <2>5. \/ PreviewCounts \/ PreviewListens
        \/ PreviewHears
        \/ PreviewFails
        \/ UNCHANGED preview
    BY <1>2 DEF CaptureNext, CallbackStarts, CallbackQueues, CallbackOverflows, DeviceFails,
                WorkerReceives, WorkerAppends, ResamplingFails, WorkerReportsLimit,
                WorkerReturnsBlock, WorkerEnds, CloseStream, JoinWorker
  <2> QED
    BY <2>1, <2>2, <2>3, <2>4, <2>5
<1>3. CASE StartPipeline
  <2>1. (preview = NewPreview)' /\ (samples = <<>>)'
    BY <1>3 DEF StartPipeline, NewPreview
  <2>2. (preview = NewPreview /\ samples = <<>> => PreviewOK)'
    BY FreshPreview, PTL
  <2> QED
    BY <2>1, <2>2
<1>4. CASE UNCHANGED captureVars
  <2>1. UNCHANGED <<samples, preview>>
    BY <1>4 DEF captureVars, workerVars
  <2>2. Grows
    BY <2>1, <1>1 DEF Grows
  <2> QED
    BY <2>1, <2>2, <1>1, PreviewStays
<1> QED
  BY <1>2, <1>3, <1>4 DEF Next, Record, Process, vars

(* ------------------------------ the dictation ---------------------------- *)

LEMMA DeliveryWaits ==
  ASSUME Delivering, UNCHANGED <<pipelineVars, target>>
  PROVE  Delivering'
<1>1. UNCHANGED <<pipeline, children, observed, focus, screen, clipboard, seen, target>>
  BY DEF pipelineVars, desktopVars
<1>2. PipelineTypeOK'
  BY <1>1 DEF Delivering, PipelineTypeOK, IsTask
<1>3. (ChildrenAreAwaited /\ SeenBeforeTyping)'
  BY <1>1 DEF Delivering, ChildrenAreAwaited, SeenBeforeTyping, At
<1>4. (ResultIsTrue /\ NoticesAreTrue)'
  BY <1>1 DEF Delivering, ResultIsTrue, NoticesAreTrue
<1> QED
  BY <1>2, <1>3, <1>4 DEF Delivering

LEMMA DeliverySteps ==
  ASSUME Recording, Delivering, [Next]_vars
  PROVE  Delivering'
<1>1. CASE Process
  BY <1>1, PipelineSteps DEF Process
<1>2. CASE StartPipeline
  BY <1>2, TaskStarts DEF Recording
<1>3. CASE UNCHANGED <<pipelineVars, target>>
  BY <1>3, DeliveryWaits
<1> QED
  BY <1>1, <1>2, <1>3 DEF Next, Record, vars

Dictating == Recording /\ PreviewOK /\ Delivering

LEMMA DictatingInvariant == Spec => []Dictating
<1>1. Init => Dictating
  <2>1. Init => PreviewOK
    BY FreshPreview DEF Init, CaptureInit
  <2> QED
    BY <2>1, RecordingStarts, PipelineStarts DEF Dictating
<1>2. Dictating /\ [Next]_vars => Dictating'
  BY RecordingSteps, PreviewSteps, DeliverySteps DEF Dictating
<1> QED
  BY <1>1, <1>2, PTL DEF Spec

(* The variables keep their types, and each block of the pool is free, on its *)
(* way to the worker or in its hands (enqueue_capture_audio, capture_worker). *)
THEOREM DictationIsTyped == Spec => []TypeOK
<1>1. Dictating => TypeOK
  <2> SUFFICES ASSUME Dictating PROVE TypeOK
    OBVIOUS
  <2>1. CaptureTypeOK /\ PipelineTypeOK /\ PreviewOK
    BY DEF Dictating, Recording, Delivering
  <2>2. /\ phase \in {"recording", "closing", "finished", "failed", "consumed"}
        /\ stream \in BOOLEAN /\ accepting \in BOOLEAN
        /\ captured \in 0 .. MaxFrames
        /\ worker \in {"running", "limit", "done"}
        /\ Len(samples) <= MaxSamples
        /\ issue \in {"none", "overflow", "device", "limit"}
    BY <2>1 DEF CaptureTypeOK, Issues
  <2>3. free + Len(filled) + (IF held = NoBlock THEN 0 ELSE 1) = PoolSize
    BY <2>1 DEF CaptureTypeOK, Held
  <2>4. \A k \in DOMAIN filled : Len(filled[k]) \in 1 .. BlockFrames
    <3> SUFFICES ASSUME NEW k \in DOMAIN filled
                 PROVE  Len(filled[k]) \in 1 .. BlockFrames
      OBVIOUS
    <3>1. filled \in Seq(PoolBlock)
      BY <2>1 DEF CaptureTypeOK
    <3>2. filled[k] \in PoolBlock
      BY <3>1
    <3>3. filled[k] \in Seq(Frames) /\ filled[k] # <<>> /\ Len(filled[k]) <= BlockFrames
      BY <3>2 DEF PoolBlock, Block
    <3> QED
      BY <3>3, CaptureAssumption
  <2>5. preview.step \in {"sleeping", "counted", "listening"}
    BY <2>1 DEF PreviewOK
  <2>6. /\ pipeline.step \in Steps
        /\ pipeline.issue \in {"none", "overflow", "device", "limit"}
        /\ children \subseteq Programs
        /\ observed \in Windows \cup {NoWindow, None} /\ focus \in Windows \cup {NoWindow}
        /\ Len(screen) <= Parts /\ clipboard \in {"old", "transcript", "empty"}
        /\ seen \in BOOLEAN /\ target \in Windows \cup {NoWindow}
    BY <2>1 DEF PipelineTypeOK, Issues
  <2> QED
    BY <2>2, <2>3, <2>4, <2>5, <2>6 DEF TypeOK
<1> QED
  BY <1>1, DictatingInvariant, PTL

(* The audio that the pipeline gets is every ratio-th frame the microphone    *)
(* delivered, up to the limit if that is the issue, and in order with any     *)
(* other one: for every size of the blocks, of the pool, of the chunks and of *)
(* the callback's input (capture_worker, CaptureResampler, ChunkedSamples).   *)
THEOREM AudioStaysWhole == Spec => []AudioIsWhole
<1>1. Dictating => AudioIsWhole
  BY RecordingIsWhole DEF Dictating
<1> QED
  BY <1>1, DictatingInvariant, PTL

(* Whatever words are said, and however often: the preview shows words that   *)
(* were said, in their order and none of them twice; unless a window failed,  *)
(* the newest word of the last one is shown, and all of the speech if in no   *)
(* window a word is said twice (spawn_preview_loop, merge_preview).           *)
THEOREM PreviewKeepsUp == Spec => []PreviewFollows
<1>1. Dictating => PreviewFollows
  <2> SUFFICES ASSUME Dictating, preview.step = "sleeping"
               PROVE  PreviewFollows
    BY DEF PreviewFollows
  <2>1. MergedUpTo(preview.last)
    BY DEF Dictating, PreviewOK
  <2>2. \A i, j \in DOMAIN Heard : i < j => Heard[i] < Heard[j]
    BY <2>1 DEF MergedUpTo, Rising
  <2>3. ~preview.missed /\ ~preview.repeats => Heard = SubSeq(samples, 1, preview.last)
    BY <2>1 DEF MergedUpTo
  <2>4. ASSUME ~preview.missed, preview.last > 0
        PROVE  Heard # <<>> /\ Speech[Last(Heard)] = Speech[samples[preview.last]]
    <3>1. PICK n \in Nat : n = preview.last
      BY DEF Dictating, PreviewOK
    <3>2. PICK w \in Nat : w = WindowStart(n) /\ w < n
      BY <2>4, <3>1, WindowStarts
    <3>3. PICK h \in Seq(Nat) : h = Heard
      BY HeardIs DEF Dictating, PreviewOK
    <3>4. /\ Len(h) >= n - w
          /\ \A i \in 1 .. n - w : Speech[h[Len(h) - (n - w) + i]] = Speech[samples[w + i]]
      BY <2>1, <2>4, <3>1, <3>2, <3>3 DEF MergedUpTo, EndsWith
    <3>5. n - w \in 1 .. n - w /\ Len(h) - (n - w) + (n - w) = Len(h) /\ w + (n - w) = n
      BY <3>2
    <3>6. Speech[h[Len(h)]] = Speech[samples[n]]
      BY <3>4, <3>5
    <3>7. h # <<>> /\ Last(h) = h[Len(h)]
      BY <3>2, <3>4 DEF Last
    <3> QED
      BY <3>1, <3>3, <3>6, <3>7
  <2> QED
    BY <2>2, <2>3, <2>4 DEF PreviewFollows
<1> QED
  BY <1>1, DictatingInvariant, PTL

(* The report says what is known of the text, whatever the children do and    *)
(* wherever the user goes meanwhile: of a failed delivery that is what the    *)
(* clipboard holds, not how much was typed before (run_pipeline,              *)
(* deliver_to_target, pipeline_notices).                                      *)
THEOREM ReportsAreTrue == Spec => []ReportIsTrue
<1>1. Dictating => ReportIsTrue
  <2> SUFFICES ASSUME Dictating PROVE ReportIsTrue
    OBVIOUS
  <2>1. SeenBeforeTyping /\ ResultIsTrue /\ NoticesAreTrue /\ pipeline.result \in Results
    BY DEF Dictating, Delivering, PipelineTypeOK
  <2>2. pipeline.step = "done" =>
          (pipeline.result = "clipboard_fallback" <=> clipboard = "transcript" /\ pipeline.fallback)
    BY <2>1 DEF ResultIsTrue, Results
  <2> QED
    BY <2>1, <2>2 DEF SeenBeforeTyping, ResultIsTrue, NoticesAreTrue, ReportIsTrue
<1> QED
  BY <1>1, DictatingInvariant, PTL

(* Nothing is typed after the step that waits for wtype (type_text,           *)
(* stop_child, kill_on_drop).                                                 *)
THEOREM TypingIsAwaited == Spec => OnlyTypesWhileTyping
<1>1. Dictating /\ [Next]_vars => [screen' # screen => pipeline.step = "typing"]_vars
  <2> SUFFICES ASSUME Dictating, Next, screen' # screen
               PROVE  pipeline.step = "typing"
    BY DEF vars, pipelineVars, desktopVars
  <2>1. PipelineNext
    BY DEF Next, Record, Process, StartPipeline, StartTask, pipelineVars, desktopVars
  <2>2. WtypeTypes
    BY <2>1 DEF PipelineNext, Transcribed, TranscriptionFails, RefinementDisabled,
         RefinementFails, ProviderAnswers, DeliverNothing, DeliverToClipboard, DeliverByTyping,
         HyprctlLooks, HyprctlExits, HyprctlFails, StartTyping, RefuseToType, WtypeExits,
         WtypeTimesOut, HandleTypingFailure, CopierServes, CopierExits, CopierTimesOut,
         Complete, DropTask, FocusMoves, desktopVars
  <2> QED
    BY <2>2 DEF WtypeTypes, Dictating, Delivering, ChildrenAreAwaited, At
<1> QED
  BY <1>1, DictatingInvariant, PTL DEF Spec, OnlyTypesWhileTyping

(* ------------------------------ number words ----------------------------- *)

(* The words of a sequence are said from position i on.                      *)
Says(words, i, spelled) == \A k \in 1 .. Len(spelled) : Said(words, i + k - 1) = spelled[k]

(* The word at i neither goes on with a number nor links one to the next.     *)
EndsNumber(words, i) == ~IsNumberWord(words, i) /\ Said(words, i) # "and"

(* The word at i is no part of a group before it.                            *)
EndsGroup(words, i) == ~IsAtom(words, i) /\ Said(words, i) \notin {"hundred", "and"}

(* Every value has its name, and no name is one of the other words.           *)
LEMMA AtomsAreNamed ==
  ASSUME NEW n \in Tens \cup 0 .. 19
  PROVE  NameOf(AtomOf, n) \in DOMAIN AtomOf /\ AtomOf[NameOf(AtomOf, n)] = n
<1>1. \E name \in DOMAIN AtomOf : AtomOf[name] = n
  BY DEF Tens, AtomOf
<1> QED
  BY <1>1, Zenon DEF NameOf

LEMMA AtomsAreNoOther ==
  /\ "hundred" \notin DOMAIN AtomOf /\ "and" \notin DOMAIN AtomOf
  /\ DOMAIN AtomOf \cap DOMAIN ScaleOf = {}
  /\ \A name \in DOMAIN AtomOf : AtomOf[name] \in Nat
BY SMT DEF AtomOf, ScaleOf

Scales == {1000, 1000000, 1000000000}

LEMMA ScalesAreNoOther ==
  /\ "hundred" \notin DOMAIN ScaleOf /\ "and" \notin DOMAIN ScaleOf
  /\ \A name \in DOMAIN ScaleOf : ScaleOf[name] \in Scales
  /\ Scales \subseteq Nat \ {0}
BY SMT DEF ScaleOf, Scales

LEMMA EndIsNoPart ==
  ASSUME NEW words, NEW i, EndsNumber(words, i)
  PROVE  ~IsAtom(words, i) /\ ~IsScale(words, i) /\ Said(words, i) \notin {"hundred", "and"}
BY DEF EndsNumber, IsNumberWord

(* The spelling of a number below a hundred: a name, or the tens and a digit.  *)
LEMMA SpelledUnderHundred ==
  ASSUME NEW n \in 0 .. 99
  PROVE  \/ /\ n \in Tens \cup 0 .. 19
            /\ SpellUnderHundred(n) = <<NameOf(AtomOf, n)>>
         \/ \E tens \in Tens : \E digit \in 1 .. 9 :
              /\ n = tens + digit
              /\ SpellUnderHundred(n) = <<NameOf(AtomOf, tens), NameOf(AtomOf, digit)>>
<1>1. CASE n \in Tens \cup 0 .. 19
  BY <1>1 DEF SpellUnderHundred
<1>2. CASE n \notin Tens \cup 0 .. 19
  <2>1. n - (n % 10) \in Tens /\ n % 10 \in 1 .. 9 /\ n = (n - (n % 10)) + (n % 10)
    BY <1>2 DEF Tens
  <2>2. SpellUnderHundred(n) = <<NameOf(AtomOf, n - (n % 10)), NameOf(AtomOf, n % 10)>>
    BY <1>2 DEF SpellUnderHundred
  <2> QED
    BY <2>1, <2>2, Zenon
<1> QED
  BY <1>1, <1>2

LEMMA WordsUnderHundred ==
  ASSUME NEW n \in 0 .. 99
  PROVE  SpellUnderHundred(n) \in Seq(DOMAIN AtomOf) /\ Len(SpellUnderHundred(n)) \in 1 .. 2
<1>1. \A S, a, b : a \in S /\ b \in S => <<a, b>> \in Seq(S) /\ Len(<<a, b>>) = 2
  OBVIOUS
<1>2. \A S, a : a \in S => <<a>> \in Seq(S) /\ Len(<<a>>) = 1
  OBVIOUS
<1>3. \A digit \in 1 .. 9 : digit \in Tens \cup 0 .. 19
  OBVIOUS
<1>4. 1 \in 1 .. 2 /\ 2 \in 1 .. 2
  OBVIOUS
<1>5. CASE n \in Tens \cup 0 .. 19 /\ SpellUnderHundred(n) = <<NameOf(AtomOf, n)>>
  <2>1. NameOf(AtomOf, n) \in DOMAIN AtomOf
    BY <1>5, AtomsAreNamed, Zenon
  <2> QED
    BY <1>2, <1>4, <1>5, <2>1, Zenon
<1>6. ASSUME NEW tens \in Tens, NEW digit \in 1 .. 9,
             SpellUnderHundred(n) = <<NameOf(AtomOf, tens), NameOf(AtomOf, digit)>>
      PROVE  SpellUnderHundred(n) \in Seq(DOMAIN AtomOf) /\ Len(SpellUnderHundred(n)) \in 1 .. 2
  <2>1. tens \in Tens \cup 0 .. 19 /\ digit \in Tens \cup 0 .. 19
    BY <1>3
  <2>2. NameOf(AtomOf, tens) \in DOMAIN AtomOf /\ NameOf(AtomOf, digit) \in DOMAIN AtomOf
    BY <2>1, AtomsAreNamed, Zenon
  <2> QED
    BY <1>1, <1>4, <1>6, <2>2, Zenon
<1> QED
  BY <1>5, <1>6, SpelledUnderHundred

LEMMA ReadsUnderHundred ==
  ASSUME NEW words, NEW i \in Nat, NEW n \in 0 .. 99, Says(words, i, SpellUnderHundred(n)),
         ~IsAtom(words, i + Len(SpellUnderHundred(n)))
  PROVE  /\ ParseUnderHundred(words, i) = Parsed(n, i + Len(SpellUnderHundred(n)))
         /\ IsAtom(words, i)
         /\ Said(words, i + 1) = "hundred" => Len(SpellUnderHundred(n)) = 1
<1>1. CASE n \in Tens \cup 0 .. 19 /\ SpellUnderHundred(n) = <<NameOf(AtomOf, n)>>
  <2>1. NameOf(AtomOf, n) \in DOMAIN AtomOf /\ AtomOf[NameOf(AtomOf, n)] = n
    BY <1>1, AtomsAreNamed
  <2>2. Said(words, i) = NameOf(AtomOf, n) /\ Len(SpellUnderHundred(n)) = 1
    BY <1>1 DEF Says
  <2>3. IsAtom(words, i) /\ Atom(words, i) = n /\ ~IsAtom(words, i + 1)
    BY <2>1, <2>2 DEF IsAtom, Atom
  <2> QED
    BY <1>1, <2>1, <2>2, <2>3 DEF ParseUnderHundred
<1>2. ASSUME NEW tens \in Tens, NEW digit \in 1 .. 9, n = tens + digit,
             SpellUnderHundred(n) = <<NameOf(AtomOf, tens), NameOf(AtomOf, digit)>>
      PROVE  /\ ParseUnderHundred(words, i) = Parsed(n, i + Len(SpellUnderHundred(n)))
             /\ IsAtom(words, i)
             /\ Said(words, i + 1) # "hundred"
  <2>1. NameOf(AtomOf, tens) \in DOMAIN AtomOf /\ AtomOf[NameOf(AtomOf, tens)] = tens
    BY AtomsAreNamed, Zenon
  <2>2. NameOf(AtomOf, digit) \in DOMAIN AtomOf /\ AtomOf[NameOf(AtomOf, digit)] = digit
    <3>1. digit \in Tens \cup 0 .. 19
      OBVIOUS
    <3> QED
      BY <3>1, AtomsAreNamed, Zenon
  <2>3. /\ Said(words, i) = NameOf(AtomOf, tens) /\ Said(words, i + 1) = NameOf(AtomOf, digit)
        /\ Len(SpellUnderHundred(n)) = 2
    <3>1. \A k \in 1 .. 2 : Said(words, i + k - 1) = SpellUnderHundred(n)[k]
      BY <1>2 DEF Says
    <3> QED
      BY <1>2, <3>1
  <2>4. /\ IsAtom(words, i) /\ Atom(words, i) = tens
        /\ IsAtom(words, i + 1) /\ Atom(words, i + 1) = digit
    BY <2>1, <2>2, <2>3 DEF IsAtom, Atom
  <2>5. ParseUnderHundred(words, i) = Parsed(n, i + 2)
    BY <1>2, <2>4 DEF ParseUnderHundred
  <2>6. i + Len(SpellUnderHundred(n)) = i + 2
    BY <2>3
  <2>7. Said(words, i + 1) # "hundred"
    BY <2>2, <2>3, AtomsAreNoOther
  <2> QED
    BY <2>4, <2>5, <2>6, <2>7, Zenon
<1> QED
  BY <1>1, <1>2, SpelledUnderHundred

(* The words that follow one another.                                        *)
LEMMA SaysParts ==
  ASSUME NEW words, NEW i \in Nat, NEW S, NEW first \in Seq(S), NEW later \in Seq(S),
         Says(words, i, first \o later)
  PROVE  /\ Says(words, i, first) /\ Says(words, i + Len(first), later)
         /\ Len(first \o later) = Len(first) + Len(later)
<1>1. \A k \in 1 .. Len(first) + Len(later) : Said(words, i + k - 1) = (first \o later)[k]
  BY DEF Says
<1>2. ASSUME NEW k \in 1 .. Len(first) PROVE Said(words, i + k - 1) = first[k]
  <2>1. (first \o later)[k] = first[k] /\ k \in 1 .. Len(first) + Len(later)
    OBVIOUS
  <2> QED
    BY <1>1, <2>1, Zenon
<1>3. ASSUME NEW k \in 1 .. Len(later) PROVE Said(words, i + Len(first) + k - 1) = later[k]
  <2>1. Said(words, i + (Len(first) + k) - 1) = (first \o later)[Len(first) + k]
    <3>1. Len(first) + k \in 1 .. Len(first) + Len(later)
      OBVIOUS
    <3> QED
      BY <1>1, <3>1, Zenon
  <2>2. i + (Len(first) + k) - 1 = i + Len(first) + k - 1
    OBVIOUS
  <2> QED
    BY <2>1, <2>2
<1>4. Len(first \o later) = Len(first) + Len(later)
  OBVIOUS
<1>5. Says(words, i, first)
  BY <1>2, Zenon DEF Says
<1>6. Says(words, i + Len(first), later)
  BY <1>3, Zenon DEF Says
<1> QED
  BY <1>4, <1>5, <1>6

(* What a group may say, and the words it is said with.                      *)
GroupValues == 0 .. 999
GroupWords == DOMAIN AtomOf \cup {"hundred", "and"}

LEMMA GroupWordsContain ==
  /\ DOMAIN AtomOf \subseteq GroupWords /\ "hundred" \in GroupWords /\ "and" \in GroupWords
BY Zenon DEF GroupWords

LEMMA WordsUnderThousand ==
  ASSUME NEW n \in GroupValues
  PROVE  SpellUnderThousand(n) \in Seq(GroupWords) /\ Len(SpellUnderThousand(n)) \in Nat \ {0}
<1>0. n \in 0 .. 999
  BY DEF GroupValues
<1>1. \A S, T, s : S \subseteq T /\ s \in Seq(S) => s \in Seq(T)
  OBVIOUS
<1>2. ASSUME NEW r \in 0 .. 99
      PROVE  SpellUnderHundred(r) \in Seq(GroupWords) /\ Len(SpellUnderHundred(r)) \in Nat \ {0}
  <2>1. SpellUnderHundred(r) \in Seq(DOMAIN AtomOf) /\ Len(SpellUnderHundred(r)) \in 1 .. 2
    BY WordsUnderHundred
  <2> QED
    <3>1. SpellUnderHundred(r) \in Seq(GroupWords)
      BY <1>1, <2>1, GroupWordsContain, Zenon
    <3>2. \A k \in 1 .. 2 : k \in Nat \ {0}
      OBVIOUS
    <3> QED
      BY <2>1, <3>1, <3>2, Zenon
<1>3. CASE n < 100
  <2>1. SpellUnderThousand(n) = SpellUnderHundred(n) /\ n \in 0 .. 99
    BY <1>0, <1>3 DEF SpellUnderThousand
  <2> QED
    BY <1>2, <2>1
<1>4. CASE n >= 100
  <2>1. n \div 100 \in Tens \cup 0 .. 19 /\ n % 100 \in 0 .. 99
    BY <1>0, <1>4
  <2>2. NameOf(AtomOf, n \div 100) \in GroupWords
    BY <2>1, AtomsAreNamed, GroupWordsContain, Zenon
  <2> DEFINE head == <<NameOf(AtomOf, n \div 100), "hundred">>
             rest == <<"and">> \o SpellUnderHundred(n % 100)
  <2>3. head \in Seq(GroupWords) /\ Len(head) = 2
    BY <2>2, GroupWordsContain
  <2>4. rest \in Seq(GroupWords)
    <3>1. SpellUnderHundred(n % 100) \in Seq(GroupWords)
      BY <1>2, <2>1
    <3>2. <<"and">> \in Seq(GroupWords)
      BY GroupWordsContain
    <3> QED
      BY <3>1, <3>2
  <2>5. SpellUnderThousand(n) = head \o (IF n % 100 = 0 THEN <<>> ELSE rest)
    BY <1>0, <1>4 DEF SpellUnderThousand
  <2> HIDE DEF head, rest
  <2>6. (IF n % 100 = 0 THEN <<>> ELSE rest) \in Seq(GroupWords)
    BY <2>4
  <2>7. \A later \in Seq(GroupWords) :
          head \o later \in Seq(GroupWords) /\ Len(head \o later) \in Nat \ {0}
    <3>1. \A first \in Seq(GroupWords), later \in Seq(GroupWords) :
            /\ first \o later \in Seq(GroupWords)
            /\ Len(first \o later) = Len(first) + Len(later) /\ Len(later) \in Nat
      OBVIOUS
    <3> HIDE DEF head
    <3> QED
      BY <2>3, <3>1
  <2> DEFINE later == IF n % 100 = 0 THEN <<>> ELSE rest
  <2>8. later \in Seq(GroupWords) /\ SpellUnderThousand(n) = head \o later
    BY <2>5, <2>6
  <2> HIDE DEF later
  <2> QED
    BY <2>7, <2>8
<1> QED
  BY <1>0, <1>3, <1>4

LEMMA ReadsUnderThousand ==
  ASSUME NEW words, NEW i \in Nat, NEW n \in GroupValues, Says(words, i, SpellUnderThousand(n)),
         EndsGroup(words, i + Len(SpellUnderThousand(n)))
  PROVE  /\ ParseUnderThousand(words, i) = Parsed(n, i + Len(SpellUnderThousand(n)))
         /\ IsAtom(words, i)
<1> DEFINE after == i + Len(SpellUnderThousand(n))
<1>0. ~IsAtom(words, after) /\ Said(words, after) # "hundred" /\ Said(words, after) # "and"
  BY DEF EndsGroup
<1>00. n \in 0 .. 999
  BY DEF GroupValues
<1> HIDE DEF after
<1>1. CASE n < 100
  <2>1. SpellUnderThousand(n) = SpellUnderHundred(n) /\ n \in 0 .. 99
    BY <1>00, <1>1 DEF SpellUnderThousand
  <2>2. after = i + Len(SpellUnderHundred(n)) /\ Says(words, i, SpellUnderHundred(n))
    BY <2>1, Zenon DEF after
  <2>3. ~IsAtom(words, i + Len(SpellUnderHundred(n)))
    BY <1>0, <2>2
  <2>4. /\ ParseUnderHundred(words, i) = Parsed(n, i + Len(SpellUnderHundred(n)))
        /\ IsAtom(words, i)
        /\ Said(words, i + 1) = "hundred" => Len(SpellUnderHundred(n)) = 1
    BY <2>1, <2>2, <2>3, ReadsUnderHundred
  <2>5. Said(words, i + 1) # "hundred"
    BY <1>0, <2>2, <2>4
  <2>6. Said(words, i) # "hundred"
    BY <2>4, AtomsAreNoOther DEF IsAtom
  <2> QED
    BY <2>1, <2>4, <2>5, <2>6, Zenon DEF ParseUnderThousand
<1>2. CASE n >= 100
  <2>1. PICK h \in 1 .. 9, r \in 0 .. 99 :
          /\ n = h * 100 + r /\ n \div 100 = h /\ n % 100 = r
    BY <1>00, <1>2
  <2> DEFINE head == <<NameOf(AtomOf, h), "hundred">>
             rest == <<"and">> \o SpellUnderHundred(r)
  <2>2. SpellUnderThousand(n) = head \o (IF r = 0 THEN <<>> ELSE rest)
    <3>1. ~(n < 100)
      BY <1>00, <1>2
    <3> QED
      BY <2>1, <3>1, Zenon DEF SpellUnderThousand
  <2>3. h \in Tens \cup 0 .. 19
    OBVIOUS
  <2>4. NameOf(AtomOf, h) \in DOMAIN AtomOf /\ AtomOf[NameOf(AtomOf, h)] = h
    BY <2>3, AtomsAreNamed, Zenon
  <2>5. ASSUME Says(words, i, head)
        PROVE  /\ IsAtom(words, i) /\ Atom(words, i) = h /\ Said(words, i) # "hundred"
               /\ Said(words, i + 1) = "hundred"
    <3>1. \A k \in 1 .. 2 : Said(words, i + k - 1) = head[k]
      BY <2>5 DEF Says
    <3>2. Said(words, i) = NameOf(AtomOf, h) /\ Said(words, i + 1) = "hundred"
      BY <3>1
    <3> QED
      BY <2>4, <3>2, AtomsAreNoOther DEF IsAtom, Atom
  <2>6. CASE r = 0
    <3>1. SpellUnderThousand(n) = head
      BY <2>2, <2>6
    <3>2. after = i + 2 /\ Says(words, i, head)
      BY <3>1 DEF after
    <3>3. ParseUnderHundred(words, i + 2) = Nothing
      BY <1>0, <3>2, Zenon DEF ParseUnderHundred
    <3>4. ParseUnderThousand(words, i) = Parsed(h * 100, i + 2)
      BY <1>0, <2>5, <3>2, <3>3 DEF ParseUnderThousand, Nothing, Parsed
    <3> QED
      BY <2>1, <2>5, <2>6, <3>2, <3>4 DEF after
  <2>7. CASE r > 0
    <3>1. head \in Seq(GroupWords) /\ Len(head) = 2
      BY <2>4, GroupWordsContain
    <3>2. <<"and">> \in Seq(GroupWords) /\ Len(<<"and">>) = 1
      BY GroupWordsContain
    <3>3. /\ SpellUnderHundred(r) \in Seq(DOMAIN AtomOf)
          /\ SpellUnderHundred(r) \in Seq(GroupWords) /\ Len(SpellUnderHundred(r)) \in 1 .. 2
      <4>1. \A S, T, s : S \subseteq T /\ s \in Seq(S) => s \in Seq(T)
        OBVIOUS
      <4> QED
        BY <4>1, WordsUnderHundred, GroupWordsContain
    <3>4. rest \in Seq(GroupWords) /\ SpellUnderThousand(n) = head \o rest
      BY <2>2, <2>7, <3>2, <3>3
    <3>5. /\ Says(words, i, head) /\ Says(words, i + Len(head), rest)
          /\ Len(SpellUnderThousand(n)) = Len(head) + Len(rest)
      <4>1. Says(words, i, head \o rest)
        BY <3>4
      <4> HIDE DEF head, rest
      <4> QED
        <5>1. head \in Seq(GroupWords) /\ rest \in Seq(GroupWords)
          BY <3>1, <3>4
        <5>2. /\ Says(words, i, head) /\ Says(words, i + Len(head), rest)
              /\ Len(head \o rest) = Len(head) + Len(rest)
          BY <4>1, <5>1, SaysParts
        <5> QED
          BY <3>4, <5>2
    <3>6. i + 2 \in Nat /\ Says(words, i + 2, rest)
      BY <3>1, <3>5
    <3>7. /\ Says(words, i + 2, <<"and">>)
          /\ Says(words, i + 2 + Len(<<"and">>), SpellUnderHundred(r))
          /\ Len(rest) = Len(<<"and">>) + Len(SpellUnderHundred(r))
      <4> DEFINE link == <<"and">>
      <4>1. link \in Seq(GroupWords) /\ Says(words, i + 2, link \o SpellUnderHundred(r))
        BY <3>2, <3>6
      <4> HIDE DEF link
      <4>2. /\ Says(words, i + 2, link) /\ Says(words, i + 2 + Len(link), SpellUnderHundred(r))
            /\ Len(link \o SpellUnderHundred(r)) = Len(link) + Len(SpellUnderHundred(r))
        BY <3>3, <3>6, <4>1, SaysParts
      <4> QED
        BY <4>2 DEF link
    <3>8. Said(words, i + 2) = "and"
      BY <3>7 DEF Says
    <3>9. Says(words, i + 3, SpellUnderHundred(r)) /\ after = i + 3 + Len(SpellUnderHundred(r))
      BY <3>1, <3>2, <3>3, <3>5, <3>7 DEF after
    <3>10. ~IsAtom(words, i + 3 + Len(SpellUnderHundred(r))) /\ i + 3 \in Nat
      BY <1>0, <3>9
    <3>11. ParseUnderHundred(words, i + 3) = Parsed(r, after)
      <4>1. ParseUnderHundred(words, i + 3) = Parsed(r, i + 3 + Len(SpellUnderHundred(r)))
        BY <3>9, <3>10, ReadsUnderHundred
      <4> QED
        BY <3>9, <4>1
    <3>12. ParseUnderThousand(words, i) = Parsed(h * 100 + r, after)
      BY <2>5, <2>7, <3>5, <3>8, <3>11 DEF ParseUnderThousand, Parsed
    <3> QED
      BY <2>1, <2>5, <3>5, <3>12 DEF after
  <2> QED
    BY <2>1, <2>6, <2>7
<1> QED
  BY <1>00, <1>1, <1>2

(* One round of the loop after another.  Scales fall from round to round, so  *)
(* that after three rounds nothing depends on what the recursion is given.   *)
Round(words, start, Groups) == [loop \in Loop |-> ReadGroup(words, start, loop, Groups)]
SameUpTo(scale, Groups, Others) ==
  \A loop \in Loop : loop.lastScale <= scale => Groups[loop] = Others[loop]

LEMMA GroupIsTyped ==
  ASSUME NEW words, NEW i \in Nat
  PROVE  Group(words, i).value \in Nat /\ Group(words, i).next \in Nat
<1>1. \A value, next : Parsed(value, next).value = value /\ Parsed(value, next).next = next
  BY DEF Parsed
<1>2. ASSUME NEW j \in Nat
      PROVE  ParseUnderHundred(words, j).value \in Nat /\ ParseUnderHundred(words, j).next \in Nat
  <2>1. \A k : IsAtom(words, k) => Atom(words, k) \in Nat
    BY AtomsAreNoOther, Zenon DEF IsAtom, Atom
  <2> QED
    BY <1>1, <2>1 DEF ParseUnderHundred, Nothing
<1>3. ParseUnderThousand(words, i).value \in Nat /\ ParseUnderThousand(words, i).next \in Nat
  <2>1. IsAtom(words, i) => Atom(words, i) \in Nat
    BY AtomsAreNoOther, Zenon DEF IsAtom, Atom
  <2>2. /\ ParseUnderHundred(words, i).value \in Nat /\ ParseUnderHundred(words, i).next \in Nat
        /\ ParseUnderHundred(words, i + 2).value \in Nat
        /\ ParseUnderHundred(words, i + 2).next \in Nat
        /\ ParseUnderHundred(words, i + 3).value \in Nat
        /\ ParseUnderHundred(words, i + 3).next \in Nat
    BY <1>2
  <2> QED
    BY <1>1, <2>1, <2>2 DEF ParseUnderThousand
<1> QED
  BY <1>1, <1>3 DEF Group

LEMMA ScaleIsTyped ==
  ASSUME NEW words, NEW i
  PROVE  ScaleAt(words, i) \in Scales \cup {0} /\ ScaleAt(words, i) \in Nat
BY ScalesAreNoOther DEF ScaleAt, IsScale

(* A round of the loop reads of the rounds that are left only those with a    *)
(* smaller last scale.  There are three scales, so rounds that are built on   *)
(* each other agree after four, and the fourth is the recursive function.     *)
LEMMA RoundDependsOnLower ==
  ASSUME NEW words, NEW start, NEW Groups, NEW Others, NEW loop \in Loop,
         \A scale \in Scales :
           scale < loop.lastScale => SameUpTo(scale, Groups, Others)
  PROVE  ReadGroup(words, start, loop, Groups) = ReadGroup(words, start, loop, Others)
<1> DEFINE group == Group(words, loop.i)
           scale == ScaleAt(words, group.next)
           after == AfterScale(words, group.next)
           next == [i |-> after, total |-> loop.total + group.value * scale, lastScale |-> scale]
<1>1. loop.i \in Nat /\ loop.total \in Nat /\ loop.lastScale \in Nat
  BY DEF Loop
<1>2. group.value \in Nat /\ group.next \in Nat
  BY <1>1, GroupIsTyped
<1>3. scale \in Scales \cup {0} /\ scale \in Nat
  BY ScaleIsTyped
<1>4. after \in Nat
  BY <1>2 DEF AfterScale
<1>5. group.value * scale \in Nat
  BY <1>2, <1>3
<1>6. ASSUME scale # 0, scale < loop.lastScale PROVE Groups[next] = Others[next]
  <2>1. next \in Loop /\ next.lastScale = scale
    BY <1>1, <1>3, <1>4, <1>5 DEF Loop
  <2>2. SameUpTo(scale, Groups, Others)
    BY <1>3, <1>6
  <2>3. scale <= scale
    BY <1>3
  <2> QED
    BY <2>1, <2>2, <2>3, Zenon DEF SameUpTo
<1> HIDE DEF group, scale, after, next
<1>7. GroupRead(words, start, loop, group, scale, Groups)
        = GroupRead(words, start, loop, group, scale, Others)
  <2>1. CASE scale = 0 \/ scale >= loop.lastScale
    BY <2>1, Zenon DEF GroupRead
  <2>2. CASE ~(scale = 0 \/ scale >= loop.lastScale)
    <3>1. Groups[next] = Others[next]
      BY <1>1, <1>3, <1>6, <2>2
    <3> QED
      BY <3>1, Zenon DEF GroupRead, next, after
  <2> QED
    BY <2>1, <2>2
<1> QED
  BY <1>7 DEF ReadGroup, group, scale

LEMMA RoundsAgree ==
  ASSUME NEW words, NEW start, NEW Groups, NEW Others, NEW low \in Int, NEW high \in Nat,
         SameUpTo(low, Groups, Others),
         \A scale \in Scales : scale < high => scale <= low
  PROVE  SameUpTo(high, Round(words, start, Groups), Round(words, start, Others))
<1> SUFFICES ASSUME NEW loop \in Loop, loop.lastScale <= high
             PROVE  Round(words, start, Groups)[loop] = Round(words, start, Others)[loop]
  BY Zenon DEF SameUpTo
<1>1. loop.lastScale \in Nat
  BY DEF Loop
<1>2. ASSUME NEW scale \in Scales, scale < loop.lastScale
      PROVE  SameUpTo(scale, Groups, Others)
  <2>1. scale <= low /\ scale \in Nat
    BY <1>1, <1>2, ScalesAreNoOther
  <2>2. ASSUME NEW other \in Loop, other.lastScale <= scale PROVE other.lastScale <= low
    BY <2>1, <2>2 DEF Loop
  <2> QED
    BY <2>2, Zenon DEF SameUpTo
<1>3. ReadGroup(words, start, loop, Groups) = ReadGroup(words, start, loop, Others)
  <2>1. \A scale \in Scales : scale < loop.lastScale => SameUpTo(scale, Groups, Others)
    BY <1>2, Zenon
  <2> QED
    BY <2>1, RoundDependsOnLower
<1> QED
  BY <1>3, Zenon DEF Round

GroupsOf(words, start) == CHOOSE Groups : Groups = Round(words, start, Groups)

(* The function that goes on with the loop exists.                           *)
LEMMA GroupsGoOn ==
  ASSUME NEW words, NEW start
  PROVE  \A loop \in Loop :
           GroupsOf(words, start)[loop] = ReadGroup(words, start, loop, GroupsOf(words, start))
<1> DEFINE R(Groups) == Round(words, start, Groups)
           Zero == [loop \in Loop |-> 0]
           One == R(Zero)
           Two == R(One)
           Three == R(Two)
           Four == R(Three)
<1>1. ASSUME NEW low \in Int, NEW high \in Nat, NEW Groups, NEW Others,
             SameUpTo(low, Groups, Others),
             \A scale \in Scales : scale < high => scale <= low
      PROVE  SameUpTo(high, R(Groups), R(Others))
  BY <1>1, RoundsAgree
<1>2. SameUpTo(-1, Zero, One)
  BY SMT DEF SameUpTo, Loop
<1>3. /\ \A scale \in Scales : scale < 1000 => scale <= -1
      /\ \A scale \in Scales : scale < 1000000 => scale <= 1000
      /\ \A scale \in Scales : scale < 1000000000 => scale <= 1000000
      /\ \A high \in Nat : \A scale \in Scales : scale < high => scale <= 1000000000
  BY SMT DEF Scales
<1> HIDE DEF R, Zero
<1>4. SameUpTo(1000, One, Two)
  BY SMT, <1>1, <1>2, <1>3
<1>5. SameUpTo(1000000, Two, Three)
  BY SMT, <1>1, <1>3, <1>4
<1>6. SameUpTo(1000000000, Three, Four)
  BY SMT, <1>1, <1>3, <1>5
<1>7. ASSUME NEW high \in Nat PROVE SameUpTo(high, Four, R(Four))
  BY SMT, <1>1, <1>3, <1>6
<1> HIDE DEF Three, Four
<1>8. ASSUME NEW loop \in Loop PROVE Four[loop] = R(Four)[loop]
  <2>1. loop.lastScale \in Nat /\ loop.lastScale <= loop.lastScale
    BY DEF Loop
  <2> QED
    BY <1>7, <2>1, Zenon DEF SameUpTo
<1>9. Four = [loop \in Loop |-> Four[loop]]
  BY Zenon DEF Four, R, Round
<1>10. R(Four) = [loop \in Loop |-> R(Four)[loop]]
  BY Zenon DEF R, Round
<1>11. Four = R(Four)
  BY <1>8, <1>9, <1>10
<1>12. GroupsOf(words, start) = Round(words, start, GroupsOf(words, start))
  BY <1>11, Zenon DEF GroupsOf, R
<1> QED
  BY <1>12, Zenon DEF Round

LEMMA CardinalIsFirstGroup ==
  ASSUME NEW words, NEW start
  PROVE  ParseCardinal(words, start) =
           GroupsOf(words, start)[[i |-> start, total |-> 0, lastScale |-> 2000000000]]
BY SMT DEF ParseCardinal, GroupsOf, Round

(* The rest of the number from position i on, after total and a scale.       *)
Go(words, start, i, total, lastScale) ==
  GroupsOf(words, start)[[i |-> i, total |-> total, lastScale |-> lastScale]]

(* A group of value n is said from i on.                                     *)
GroupAt(words, i, n) ==
  /\ i \in Nat /\ n \in GroupValues
  /\ Says(words, i, SpellUnderThousand(n)) /\ EndsGroup(words, i + Len(SpellUnderThousand(n)))

LEMMA GroupIsRead ==
  ASSUME NEW words, NEW start, NEW loop \in Loop, NEW n, GroupAt(words, loop.i, n)
  PROVE  LET after == loop.i + Len(SpellUnderThousand(n))
         IN /\ GroupsOf(words, start)[loop] =
                 GroupRead(words, start, loop, Parsed(n, after), ScaleAt(words, after),
                           GroupsOf(words, start))
            /\ after \in Nat \ {0} /\ IsAtom(words, loop.i)
<1> DEFINE after == loop.i + Len(SpellUnderThousand(n))
<1>1. ParseUnderThousand(words, loop.i) = Parsed(n, after) /\ IsAtom(words, loop.i)
  BY ReadsUnderThousand, Zenon DEF GroupAt
<1>2. after \in Nat \ {0}
  <2>1. Len(SpellUnderThousand(n)) \in Nat \ {0}
    BY WordsUnderThousand DEF GroupAt
  <2> QED
    BY <2>1 DEF GroupAt
<1>3. ~IsScale(words, loop.i)
  BY <1>1, AtomsAreNoOther, Zenon DEF IsAtom, IsScale
<1>4. Group(words, loop.i) = Parsed(n, after)
  BY <1>1, <1>3, Zenon DEF Group
<1> HIDE DEF after
<1>5. Parsed(n, after).next = after
  BY DEF Parsed
<1>6. ReadGroup(words, start, loop, GroupsOf(words, start)) =
        GroupRead(words, start, loop, Parsed(n, after), ScaleAt(words, after),
                  GroupsOf(words, start))
  BY <1>4, <1>5 DEF ReadGroup
<1>7. GroupsOf(words, start)[loop] = ReadGroup(words, start, loop, GroupsOf(words, start))
  BY GroupsGoOn, Zenon
<1> QED
  BY <1>1, <1>2, <1>6, <1>7 DEF after

(* The last group of a number.                                               *)
LEMMA LastGroup ==
  ASSUME NEW words, NEW start, NEW i \in Nat, NEW total \in Nat, NEW lastScale \in Nat,
         NEW n \in GroupValues, Says(words, i, SpellUnderThousand(n)), n > 0 \/ total = 0,
         EndsNumber(words, i + Len(SpellUnderThousand(n)))
  PROVE  /\ Go(words, start, i, total, lastScale)
              = Parsed(total + n, i + Len(SpellUnderThousand(n)))
         /\ IsAtom(words, i)
<1> DEFINE after == i + Len(SpellUnderThousand(n))
           loop == [i |-> i, total |-> total, lastScale |-> lastScale]
<1>1. ~IsScale(words, after) /\ EndsGroup(words, after)
  BY EndIsNoPart DEF EndsGroup
<1>2. /\ Go(words, start, i, total, lastScale) =
           GroupRead(words, start, loop, Parsed(n, after), ScaleAt(words, after),
                     GroupsOf(words, start))
      /\ after \in Nat \ {0} /\ IsAtom(words, i)
  <2>1. /\ loop \in Loop /\ loop.i = i
        /\ Go(words, start, i, total, lastScale) = GroupsOf(words, start)[loop]
    BY DEF Loop, Go
  <2>2. GroupAt(words, i, n)
    BY <1>1, Zenon DEF GroupAt
  <2> HIDE DEF loop
  <2> QED
    BY <2>1, <2>2, GroupIsRead
<1>3. ScaleAt(words, after) = 0
  BY <1>1, Zenon DEF ScaleAt
<1>4. loop.total = total
  OBVIOUS
<1> HIDE DEF after, loop
<1>5. Parsed(n, after).next = after /\ Parsed(n, after).value = n
  BY DEF Parsed
<1>6. GroupRead(words, start, loop, Parsed(n, after), 0, GroupsOf(words, start))
        = Parsed(total + n, after)
  BY <1>2, <1>4, <1>5 DEF GroupRead
<1> QED
  BY <1>2, <1>3, <1>6 DEF after

(* A group with its scale, at the end of a number or before more of it.      *)
LEMMA ScaledGroup ==
  ASSUME NEW words, NEW start, NEW i \in Nat, NEW total \in Nat, NEW lastScale \in Nat,
         NEW n \in GroupValues \ {0}, NEW name \in DOMAIN ScaleOf, ScaleOf[name] < lastScale,
         Says(words, i, Append(SpellUnderThousand(n), name)),
         Said(words, i + Len(SpellUnderThousand(n)) + 1) # "and"
  PROVE  LET after == i + Len(SpellUnderThousand(n)) + 1
             sum == total + n * ScaleOf[name]
         IN /\ ~IsNumberWord(words, after) =>
                 Go(words, start, i, total, lastScale) = Parsed(sum, after)
            /\ IsNumberWord(words, after) =>
                 Go(words, start, i, total, lastScale) = Go(words, start, after, sum, ScaleOf[name])
            /\ IsAtom(words, i)
<1> DEFINE at == i + Len(SpellUnderThousand(n))
           scale == ScaleOf[name]
           loop == [i |-> i, total |-> total, lastScale |-> lastScale]
<1>1. SpellUnderThousand(n) \in Seq(GroupWords) /\ Len(SpellUnderThousand(n)) \in Nat \ {0}
  BY WordsUnderThousand, Zenon
<1>2. Says(words, i, SpellUnderThousand(n)) /\ Said(words, at) = name
  <2> DEFINE spelled == SpellUnderThousand(n)
  <2>1. \A k \in 1 .. Len(spelled) + 1 : Said(words, i + k - 1) = Append(spelled, name)[k]
    BY <1>1 DEF Says
  <2>2. Append(spelled, name)[Len(spelled) + 1] = name
    BY <1>1
  <2>3. \A k \in 1 .. Len(spelled) : Append(spelled, name)[k] = spelled[k]
    BY <1>1
  <2>4. Len(spelled) \in Nat /\ i + (Len(spelled) + 1) - 1 = at
    BY <1>1
  <2> HIDE DEF spelled
  <2>5. \A k \in 1 .. Len(spelled) : k \in 1 .. Len(spelled) + 1
    BY <2>4
  <2>6. Len(spelled) + 1 \in 1 .. Len(spelled) + 1
    BY <2>4
  <2>7. Said(words, at) = name
    BY <2>1, <2>2, <2>4, <2>6
  <2>8. Says(words, i, spelled)
    BY <2>1, <2>3, <2>5, Zenon DEF Says
  <2> QED
    BY <2>7, <2>8 DEF spelled
<1>3. EndsGroup(words, at)
  <2>1. name \notin DOMAIN AtomOf /\ name # "hundred" /\ name # "and"
    BY AtomsAreNoOther, ScalesAreNoOther, Zenon
  <2> QED
    BY <1>2, <2>1 DEF IsAtom, EndsGroup
<1>4. scale \in Nat /\ scale # 0 /\ ScaleAt(words, at) = scale
  BY <1>2, ScalesAreNoOther DEF ScaleAt, IsScale
<1>5. n \in GroupValues /\ n \in Nat \ {0}
  BY DEF GroupValues
<1>6. /\ Go(words, start, i, total, lastScale) =
           GroupRead(words, start, loop, Parsed(n, at), scale, GroupsOf(words, start))
      /\ at \in Nat \ {0} /\ IsAtom(words, i)
  <2>1. /\ Go(words, start, i, total, lastScale) =
             GroupRead(words, start, loop, Parsed(n, at), ScaleAt(words, at),
                       GroupsOf(words, start))
        /\ at \in Nat \ {0} /\ IsAtom(words, i)
    <3>1. /\ loop \in Loop /\ loop.i = i
          /\ Go(words, start, i, total, lastScale) = GroupsOf(words, start)[loop]
      BY DEF Loop, Go
    <3>2. GroupAt(words, i, n)
      BY <1>2, <1>3, <1>5, Zenon DEF GroupAt
    <3> HIDE DEF loop
    <3> QED
      BY <3>1, <3>2, GroupIsRead
  <2> QED
    BY <1>4, <2>1
<1>7. loop.total = total /\ loop.lastScale = lastScale
  OBVIOUS
<1> HIDE DEF loop, scale, at
<1>8. Parsed(n, at).next = at /\ Parsed(n, at).value = n
  BY DEF Parsed
<1>9. AfterScale(words, at) = at + 1
  BY Zenon DEF AfterScale, at
<1>10. ~(scale = 0 \/ scale >= lastScale) /\ n # 0
  BY <1>4, <1>5 DEF scale
<1>11. GroupRead(words, start, loop, Parsed(n, at), scale, GroupsOf(words, start)) =
         IF ~IsNumberWord(words, at + 1) THEN Parsed(total + n * scale, at + 1)
         ELSE Go(words, start, at + 1, total + n * scale, scale)
  BY <1>6, <1>7, <1>8, <1>9, <1>10, Zenon DEF GroupRead, Go
<1> QED
  BY <1>6, <1>11, Zenon DEF at, scale

(* What is spelled from position i on is read as a value, to its last word,   *)
(* in any round of the loop after a scale above the limit.                   *)
ReadsAs(words, start, i, spelled, value, limit) ==
  IF spelled = <<>> THEN value = 0
  ELSE /\ value \in Nat \ {0} /\ IsAtom(words, i)
       /\ \A total, lastScale \in Nat :
            lastScale > limit =>
              Go(words, start, i, total, lastScale) = Parsed(total + value, i + Len(spelled))

(* A group with its scale, which is not said when there is none.             *)
Chunk(n, name) == IF n = 0 THEN <<>> ELSE Append(SpellUnderThousand(n), name)
NumberWords == GroupWords \cup DOMAIN ScaleOf

LEMMA ChunkWords ==
  ASSUME NEW n \in GroupValues, NEW name \in DOMAIN ScaleOf
  PROVE  /\ Chunk(n, name) \in Seq(NumberWords)
         /\ n # 0 => Len(Chunk(n, name)) = Len(SpellUnderThousand(n)) + 1
<1>1. SpellUnderThousand(n) \in Seq(GroupWords)
  BY WordsUnderThousand, Zenon
<1>2. \A S, T, s, x : S \subseteq T /\ s \in Seq(S) /\ x \in T =>
        Append(s, x) \in Seq(T) /\ Len(Append(s, x)) = Len(s) + 1
  OBVIOUS
<1>3. GroupWords \subseteq NumberWords /\ name \in NumberWords
  BY Zenon DEF NumberWords
<1>4. <<>> \in Seq(NumberWords)
  OBVIOUS
<1>5. /\ Append(SpellUnderThousand(n), name) \in Seq(NumberWords)
      /\ Len(Append(SpellUnderThousand(n), name)) = Len(SpellUnderThousand(n)) + 1
  BY <1>1, <1>2, <1>3
<1>6. CASE n = 0
  BY <1>4, <1>6, Zenon DEF Chunk
<1>7. CASE n # 0
  BY <1>5, <1>7, Zenon DEF Chunk
<1> QED
  BY <1>6, <1>7

LEMMA UnitsRead ==
  ASSUME NEW words, NEW start, NEW i \in Nat, NEW n \in GroupValues \ {0},
         Says(words, i, SpellUnderThousand(n)),
         EndsNumber(words, i + Len(SpellUnderThousand(n)))
  PROVE  ReadsAs(words, start, i, SpellUnderThousand(n), n, 0)
<1>1. n \in GroupValues /\ n \in Nat \ {0} /\ n > 0
  BY DEF GroupValues
<1>2. SpellUnderThousand(n) # <<>>
  <2>1. Len(SpellUnderThousand(n)) # 0
    BY <1>1, WordsUnderThousand
  <2> QED
    BY <2>1
<1>3. ASSUME NEW total \in Nat, NEW lastScale \in Nat
      PROVE  /\ Go(words, start, i, total, lastScale)
                  = Parsed(total + n, i + Len(SpellUnderThousand(n)))
             /\ IsAtom(words, i)
  BY <1>1, LastGroup
<1>4. IsAtom(words, i)
  <2>1. 0 \in Nat
    OBVIOUS
  <2> QED
    BY <1>3, <2>1, Zenon
<1> QED
  BY <1>1, <1>2, <1>3, <1>4, Zenon DEF ReadsAs

LEMMA ChunkRead ==
  ASSUME NEW words, NEW start, NEW i \in Nat, NEW n \in GroupValues,
         NEW name \in DOMAIN ScaleOf, NEW later \in Seq(NumberWords), NEW value \in Nat,
         NEW limit \in Nat, limit < ScaleOf[name],
         Says(words, i, Chunk(n, name)),
         later = <<>> => EndsNumber(words, i + Len(Chunk(n, name))),
         ReadsAs(words, start, i + Len(Chunk(n, name)), later, value, limit)
  PROVE  ReadsAs(words, start, i, Chunk(n, name) \o later, n * ScaleOf[name] + value,
                 ScaleOf[name])
<1> DEFINE scale == ScaleOf[name]
           sum == n * scale + value
           spelled == Chunk(n, name) \o later
           at == i + Len(Chunk(n, name))
<1>1. scale \in Nat \ {0} /\ n \in Nat
  <2>1. scale \in Nat \ {0}
    BY ScalesAreNoOther, Zenon
  <2> QED
    BY <2>1 DEF GroupValues
<1>2. Chunk(n, name) \in Seq(NumberWords)
  BY ChunkWords, Zenon
<1>3. CASE n = 0
  <2>1. Chunk(n, name) = <<>>
    BY <1>3, Zenon DEF Chunk
  <2>2. spelled = later /\ at = i
    BY <2>1
  <2>3. sum = value
    BY <1>1, <1>3
  <2>4. \A lastScale \in Nat : lastScale > scale => lastScale > limit
    BY <1>1
  <2> HIDE DEF spelled, sum, at, scale
  <2>5. ReadsAs(words, start, i, later, value, limit)
    BY <2>2 DEF at
  <2>6. ReadsAs(words, start, i, later, value, scale)
    BY <2>4, <2>5, Zenon DEF ReadsAs
  <2> QED
    BY <2>2, <2>3, <2>6 DEF spelled, sum, scale
<1>4. CASE n # 0
  <2>1. n \in GroupValues \ {0} /\ Chunk(n, name) = Append(SpellUnderThousand(n), name)
    BY <1>4, Zenon DEF Chunk
  <2>2. /\ at = i + Len(SpellUnderThousand(n)) + 1
        /\ at \in Nat
    <3>1. Len(Chunk(n, name)) = Len(SpellUnderThousand(n)) + 1
      BY <1>4, ChunkWords, Zenon
    <3>2. Len(SpellUnderThousand(n)) \in Nat
      BY WordsUnderThousand, Zenon
    <3> QED
      BY <3>1, <3>2
  <2>3. spelled # <<>> /\ i + Len(spelled) = at + Len(later)
    <3>1. Len(Chunk(n, name)) \in Nat \ {0}
      BY <2>2, <1>2
    <3> HIDE DEF at
    <3>2. Len(spelled) = Len(Chunk(n, name)) + Len(later)
      BY <1>2
    <3>3. Len(later) \in Nat
      OBVIOUS
    <3> HIDE DEF spelled
    <3>4. Len(spelled) # 0
      BY <3>1, <3>2, <3>3
    <3> QED
      BY <3>1, <3>2, <3>3, <3>4 DEF at
  <2>4. n * scale \in Nat \ {0}
    BY <1>1, <2>1
  <2>5. sum \in Nat \ {0}
    BY <2>4
  <2>6. /\ later = <<>> => ~IsNumberWord(words, at)
        /\ later # <<>> => IsNumberWord(words, at)
        /\ Said(words, at) # "and"
    BY AtomsAreNoOther DEF ReadsAs, EndsNumber, IsNumberWord, IsAtom
  <2>7. ASSUME NEW total \in Nat, NEW lastScale \in Nat, lastScale > scale
        PROVE  /\ Go(words, start, i, total, lastScale) = Parsed(total + sum, i + Len(spelled))
               /\ IsAtom(words, i)
    <3>1. /\ ~IsNumberWord(words, at) =>
               Go(words, start, i, total, lastScale) = Parsed(total + n * scale, at)
          /\ IsNumberWord(words, at) =>
               Go(words, start, i, total, lastScale)
                 = Go(words, start, at, total + n * scale, scale)
          /\ IsAtom(words, i)
      <4>1. ScaleOf[name] < lastScale
        BY <1>1, <2>7
      <4>2. /\ Says(words, i, Append(SpellUnderThousand(n), name))
            /\ Said(words, i + Len(SpellUnderThousand(n)) + 1) # "and"
        BY <2>1, <2>2, <2>6
      <4> QED
        BY <2>1, <2>2, <4>1, <4>2, ScaledGroup
    <3>2. CASE later = <<>>
      <4>1. value = 0
        BY <3>2, Zenon DEF ReadsAs
      <4>2. total + n * scale = total + sum /\ at = i + Len(spelled)
        BY <1>1, <2>2, <2>3, <2>4, <3>2, <4>1
      <4> HIDE DEF sum, spelled, at, scale
      <4>3. Go(words, start, i, total, lastScale) = Parsed(total + n * scale, at)
        BY <2>6, <3>1, <3>2
      <4> QED
        BY <3>1, <4>2, <4>3
    <3>3. CASE later # <<>>
      <4> DEFINE subtotal == total + n * scale
      <4>1. subtotal \in Nat /\ scale \in Nat /\ scale > limit
        BY <1>1, <2>4
      <4>2. subtotal + value = total + sum
        BY <1>1, <2>4
      <4> HIDE DEF sum, spelled, at, scale, subtotal
      <4>3. Go(words, start, at, subtotal, scale) = Parsed(subtotal + value, at + Len(later))
        BY <3>3, <4>1, Zenon DEF ReadsAs, at
      <4>4. Go(words, start, i, total, lastScale) = Go(words, start, at, subtotal, scale)
        BY <2>6, <3>1, <3>3 DEF subtotal
      <4> QED
        BY <2>3, <3>1, <4>2, <4>3, <4>4
    <3> QED
      BY <3>2, <3>3
  <2>8. IsAtom(words, i)
    <3>1. 0 \in Nat /\ scale + 1 \in Nat /\ scale + 1 > scale
      BY <1>1
    <3> HIDE DEF sum, spelled, at, scale
    <3> QED
      BY <2>7, <3>1, Zenon
  <2> HIDE DEF sum, spelled, at, scale
  <2>9. ReadsAs(words, start, i, spelled, sum, scale)
    BY <2>3, <2>5, <2>7, <2>8, Zenon DEF ReadsAs
  <2> QED
    BY <2>9 DEF sum, spelled, scale
<1> QED
  BY <1>3, <1>4

Rejoined(s, t, u, v) ==
  /\ ((s \o t) \o u) \o v = s \o (t \o (u \o v))
  /\ u \o v \in Seq(NumberWords) /\ t \o (u \o v) \in Seq(NumberWords)

LEMMA NumberWordsJoin ==
  ASSUME NEW s \in Seq(NumberWords), NEW t \in Seq(NumberWords),
         NEW u \in Seq(NumberWords), NEW v \in Seq(NumberWords)
  PROVE  Rejoined(s, t, u, v)
<1>1. \A w \in Seq(NumberWords) : (s \o t) \o w = s \o (t \o w)
  OBVIOUS
<1>2. \A w \in Seq(NumberWords) : (w \o u) \o v = w \o (u \o v)
  OBVIOUS
<1>3. /\ s \o t \in Seq(NumberWords) /\ u \o v \in Seq(NumberWords)
      /\ t \o (u \o v) \in Seq(NumberWords)
  OBVIOUS
<1> DEFINE st == s \o t
           uv == u \o v
<1>4. (st \o u) \o v = st \o uv
  <2> HIDE DEF st
  <2>1. \A w \in Seq(NumberWords) : (w \o u) \o v = w \o uv
    BY <1>2
  <2> QED
    BY <1>3, <2>1 DEF st
<1>5. st \o uv = s \o (t \o uv)
  <2> HIDE DEF uv
  <2>1. \A w \in Seq(NumberWords) : st \o w = s \o (t \o w)
    BY <1>1
  <2> QED
    BY <1>3, <2>1 DEF uv
<1> QED
  BY <1>3, <1>4, <1>5 DEF Rejoined

(* Every number below a million million that is said is read back as itself, *)
(* to its last word and no further: whatever its scales, gaps and zeros are,  *)
(* wherever in the text it stands, as long as the word after it neither       *)
(* belongs to a number nor is "and" (parse_cardinal, parse_under_thousand,    *)
(* parse_under_hundred).                                                      *)
THEOREM NumbersAreReadBack ==
  ASSUME NEW words, NEW start \in Nat, NEW n \in Nat, n < 1000000000000,
         Says(words, start, Spell(n)), EndsNumber(words, start + Len(Spell(n)))
  PROVE  ParseCardinal(words, start) = Parsed(n, start + Len(Spell(n)))
<1> DEFINE billions == (n \div 1000000000) % 1000
           millions == (n \div 1000000) % 1000
           thousands == (n \div 1000) % 1000
           units == n % 1000
           B == Chunk(billions, "billion")
           M == Chunk(millions, "million")
           T == Chunk(thousands, "thousand")
           U == IF units = 0 /\ n > 0 THEN <<>> ELSE SpellUnderThousand(units)
<1>0. /\ \A k \in Nat : k \div 1000 \in Nat /\ k % 1000 \in 0 .. 999
      /\ \A k \in Nat : k = (k \div 1000) * 1000 + (k % 1000)
      /\ \A k \in Nat : (k \div 1000) \div 1000 = k \div 1000000
      /\ \A k \in Nat : (k \div 1000000) \div 1000 = k \div 1000000000
      /\ n \div 1000000000 \in 0 .. 999
  <2>1. \A k \in Nat : k \div 1000 \in Nat /\ k % 1000 \in 0 .. 999
    BY SMT
  <2>2. \A k \in Nat : k = (k \div 1000) * 1000 + (k % 1000)
    BY SMT
  <2>3. \A k \in Nat : (k \div 1000) \div 1000 = k \div 1000000
    BY SMT
  <2>4. \A k \in Nat : (k \div 1000000) \div 1000 = k \div 1000000000
    BY SMT
  <2>5. n \div 1000000000 \in 0 .. 999
    BY SMT
  <2> QED
    BY SMT, <2>1, <2>2, <2>3, <2>4, <2>5
<1>1. /\ n = billions * 1000000000 + (millions * 1000000 + (thousands * 1000 + units))
      /\ billions \in GroupValues /\ millions \in GroupValues /\ thousands \in GroupValues
      /\ units \in GroupValues
  <2> DEFINE a == n \div 1000
             b == n \div 1000000
             c == n \div 1000000000
  <2>1. a \in Nat /\ n = a * 1000 + units /\ units \in 0 .. 999
    BY SMT, <1>0
  <2>2. a \div 1000 = b /\ thousands = a % 1000
    BY SMT, <1>0
  <2>3. b \div 1000 = c /\ millions = b % 1000
    BY SMT, <1>0
  <2>4. c \in 0 .. 999 /\ billions = c
    <3>1. \A k \in 0 .. 999 : k % 1000 = k
      BY SMT
    <3>2. c \in 0 .. 999 /\ billions = c % 1000
      BY SMT, <1>0
    <3> HIDE DEF billions, c
    <3> QED
      BY SMT, <3>1, <3>2
  <2> HIDE DEF billions, millions, thousands, units, a, b, c
  <2>7. \A k \in Nat : /\ k \div 1000 \in Nat /\ k % 1000 \in 0 .. 999
                      /\ k = (k \div 1000) * 1000 + (k % 1000)
    BY SMT
  <2>5. a = b * 1000 + thousands /\ b \in Nat /\ thousands \in 0 .. 999
    <3>1. /\ a \div 1000 \in Nat /\ a % 1000 \in 0 .. 999
          /\ a = (a \div 1000) * 1000 + (a % 1000)
      BY SMTT(20), <2>1, <2>7
    <3> QED
      BY SMTT(20), <2>2, <3>1
  <2>6. b = c * 1000 + millions /\ millions \in 0 .. 999
    <3>1. /\ b \div 1000 \in Nat /\ b % 1000 \in 0 .. 999
          /\ b = (b \div 1000) * 1000 + (b % 1000)
      BY SMTT(20), <2>5, <2>7
    <3> QED
      BY SMTT(20), <2>3, <3>1
  <2> QED
    BY SMT, <2>1, <2>4, <2>5, <2>6 DEF GroupValues
<1>3. /\ "billion" \in DOMAIN ScaleOf /\ ScaleOf["billion"] = 1000000000
      /\ "million" \in DOMAIN ScaleOf /\ ScaleOf["million"] = 1000000
      /\ "thousand" \in DOMAIN ScaleOf /\ ScaleOf["thousand"] = 1000
  BY SMT DEF ScaleOf
<1>4. Spell(n) = ((B \o M) \o T) \o U
  <2>1. /\ Scaled(n, 1000000000, "billion") = B /\ Scaled(n, 1000000, "million") = M
        /\ Scaled(n, 1000, "thousand") = T
    BY SMT DEF Scaled, Chunk
  <2> DEFINE scaled == (B \o M) \o T
  <2>2. scaled \in Seq(NumberWords)
    <3>1. B \in Seq(NumberWords) /\ M \in Seq(NumberWords) /\ T \in Seq(NumberWords)
      BY SMT, <1>1, <1>3, ChunkWords
    <3> HIDE DEF B, M, T
    <3> QED
      BY SMT, <3>1
  <2>3. Spell(n) = IF units = 0 /\ n > 0 THEN scaled ELSE scaled \o SpellUnderThousand(units)
    BY SMT, <2>1 DEF Spell
  <2> HIDE DEF scaled, units
  <2>4. scaled \o <<>> = scaled
    BY SMT, <2>2
  <2>5. Spell(n) = scaled \o U
    <3>1. CASE units = 0 /\ n > 0
      <4>1. U = <<>>
        BY SMT, <3>1
      <4>2. Spell(n) = scaled
        BY SMT, <2>3, <3>1
      <4> HIDE DEF U
      <4> QED
        BY SMT, <2>4, <4>1, <4>2
    <3>2. CASE ~(units = 0 /\ n > 0)
      BY SMT, <2>3, <3>2
    <3> QED
      BY SMT, <3>1, <3>2
  <2> QED
    BY SMT, <2>5 DEF scaled
<1> HIDE DEF billions, millions, thousands, units
<1>5. /\ B \in Seq(NumberWords) /\ M \in Seq(NumberWords) /\ T \in Seq(NumberWords)
  BY SMT, <1>1, <1>3, ChunkWords
<1>6. U \in Seq(NumberWords)
  <2>1. SpellUnderThousand(units) \in Seq(GroupWords)
    BY SMT, <1>1, WordsUnderThousand
  <2>2. \A S, R, s : S \subseteq R /\ s \in Seq(S) => s \in Seq(R)
    OBVIOUS
  <2>3. GroupWords \subseteq NumberWords
    BY SMT DEF NumberWords
  <2>4. SpellUnderThousand(units) \in Seq(NumberWords)
    BY SMT, <2>1, <2>2, <2>3
  <2> QED
    BY SMT, <2>4
<1> HIDE DEF B, M, T, U
<1> DEFINE third == T \o U
           second == M \o third
<1>8. /\ third \in Seq(NumberWords) /\ second \in Seq(NumberWords)
      /\ Spell(n) = B \o second
  <2>1. Rejoined(B, M, T, U)
    BY SMTT(20), <1>5, <1>6, NumberWordsJoin
  <2>2. /\ ((B \o M) \o T) \o U = B \o second
        /\ third \in Seq(NumberWords) /\ second \in Seq(NumberWords)
    BY SMT, <2>1 DEF Rejoined
  <2> QED
    BY SMT, <1>4, <2>2
<1> HIDE DEF second, third
<1> DEFINE afterB == start + Len(B)
           afterM == afterB + Len(M)
           afterT == afterM + Len(T)
           end == start + Len(Spell(n))
<1>9. CASE n = 0
  <2>1. billions = 0 /\ millions = 0 /\ thousands = 0 /\ units = 0
    <3>1. billions \in Nat /\ millions \in Nat /\ thousands \in Nat /\ units \in Nat
      BY SMT, <1>1 DEF GroupValues
    <3> QED
      BY SMT, <1>1, <1>9, <3>1
  <2>2. B = <<>> /\ M = <<>> /\ T = <<>>
    BY SMT, <2>1 DEF B, M, T, Chunk
  <2>3. U = SpellUnderThousand(0)
    BY SMT, <1>9, <2>1 DEF U
  <2>4. <<>> \o U = U
    BY SMT, <1>6
  <2>5. Spell(n) = SpellUnderThousand(0)
    <3>1. (<<>> \o <<>>) \o <<>> = <<>>
      OBVIOUS
    <3> QED
      BY SMT, <1>4, <2>2, <2>3, <2>4, <3>1
  <2>6. 0 \in GroupValues /\ 0 \in Nat /\ 2000000000 \in Nat
    BY SMT DEF GroupValues
  <2>7. Go(words, start, start, 0, 2000000000) = Parsed(0 + 0, start + Len(SpellUnderThousand(0)))
    BY SMT, <2>5, <2>6, LastGroup
  <2> QED
    BY SMT, <1>9, <2>5, <2>7, CardinalIsFirstGroup DEF Go
<1>10. CASE n > 0
  <2>0. ASSUME NEW s \in Seq(NumberWords) PROVE Len(s) \in Nat
    OBVIOUS
  <2>1. /\ Says(words, start, B) /\ Says(words, afterB, second)
        /\ Len(Spell(n)) = Len(B) + Len(second)
    <3>1. Says(words, start, B \o second)
      BY SMT, <1>8
    <3>2. /\ Says(words, start, B) /\ Says(words, start + Len(B), second)
          /\ Len(B \o second) = Len(B) + Len(second)
      BY SMT, <1>5, <1>8, <3>1, SaysParts
    <3> QED
      BY SMT, <1>8, <3>2
  <2>2. /\ Says(words, afterB, M) /\ Says(words, afterM, third)
        /\ Len(second) = Len(M) + Len(third) /\ afterB \in Nat
    <3>1. Says(words, afterB, M \o third)
      BY SMT, <2>1 DEF second
    <3>2. afterB \in Nat
      BY SMT, <1>5, <2>0
    <3> HIDE DEF afterB
    <3>3. /\ Says(words, afterB, M) /\ Says(words, afterB + Len(M), third)
          /\ Len(M \o third) = Len(M) + Len(third)
      BY SMT, <1>5, <1>8, <3>1, <3>2, SaysParts
    <3> QED
      BY SMT, <3>2, <3>3 DEF second
  <2>3. /\ Says(words, afterM, T) /\ Says(words, afterT, U)
        /\ Len(third) = Len(T) + Len(U) /\ afterM \in Nat
    <3>1. Says(words, afterM, T \o U)
      BY SMT, <2>2 DEF third
    <3>2. afterM \in Nat
      <4>1. Len(M) \in Nat
        BY SMT, <1>5, <2>0
      <4> HIDE DEF afterB
      <4> QED
        BY SMT, <2>2, <4>1
    <3> HIDE DEF afterM
    <3>3. /\ Says(words, afterM, T) /\ Says(words, afterM + Len(T), U)
          /\ Len(T \o U) = Len(T) + Len(U)
      BY SMT, <1>5, <1>6, <3>1, <3>2, SaysParts
    <3> QED
      BY SMT, <3>2, <3>3 DEF third
  <2>4. end = afterT + Len(U) /\ afterT \in Nat /\ EndsNumber(words, end)
    <3>1. Len(B) \in Nat /\ Len(M) \in Nat /\ Len(T) \in Nat /\ Len(U) \in Nat
      BY SMT, <1>5, <1>6, <2>0
    <3>2. EndsNumber(words, end)
      BY SMT
    <3> QED
      BY SMT, <2>1, <2>2, <2>3, <3>1, <3>2
  <2>5. ReadsAs(words, start, afterT, U, units, 0)
    <3>1. CASE units = 0
      <4>1. U = <<>>
        BY SMT, <1>10, <3>1 DEF U
      <4> QED
        BY SMT, <3>1, <4>1 DEF ReadsAs
    <3>2. CASE units # 0
      <4>1. U = SpellUnderThousand(units) /\ units \in GroupValues \ {0}
        BY SMT, <1>1, <3>2 DEF U
      <4> HIDE DEF afterT, end
      <4> QED
        BY SMT, <2>3, <2>4, <4>1, UnitsRead
    <3> QED
      BY SMT, <3>1, <3>2
  <2> DEFINE low == thousands * 1000 + units
             middle == millions * 1000000 + low
  <2>6. low \in Nat /\ middle \in Nat /\ units \in Nat
    BY SMT, <1>1 DEF GroupValues
  <2>7. Len(B) \in Nat /\ Len(M) \in Nat /\ Len(T) \in Nat /\ Len(U) \in Nat
    BY SMT, <1>5, <1>6, <2>0
  <2>8. ReadsAs(words, start, afterM, third, low, 1000)
    <3>1. U = <<>> => EndsNumber(words, afterM + Len(T))
      BY SMT, <2>4, <2>7
    <3> HIDE DEF afterM, end
    <3>2. 0 < ScaleOf["thousand"] /\ 0 \in Nat
      BY SMT, <1>3
    <3>3. ReadsAs(words, start, afterM, Chunk(thousands, "thousand") \o U,
                  thousands * ScaleOf["thousand"] + units, ScaleOf["thousand"])
      BY SMT, <1>1, <1>3, <1>6, <2>3, <2>5, <2>6, <3>1, <3>2, ChunkRead DEF T
    <3> QED
      BY SMT, <1>3, <3>3 DEF third, T
  <2>9. ReadsAs(words, start, afterB, second, middle, 1000000)
    <3>1. third = <<>> => EndsNumber(words, afterB + Len(M))
      <4>1. third = <<>> => Len(T) = 0 /\ Len(U) = 0
        BY SMT, <2>3, <2>7
      <4> QED
        BY SMT, <2>4, <2>7, <4>1
    <3> HIDE DEF afterB, end, low
    <3>2. 1000 < ScaleOf["million"] /\ 1000 \in Nat
      BY SMT, <1>3
    <3>3. ReadsAs(words, start, afterB, Chunk(millions, "million") \o third,
                  millions * ScaleOf["million"] + low, ScaleOf["million"])
      <4>1. /\ millions \in GroupValues /\ "million" \in DOMAIN ScaleOf
            /\ third \in Seq(NumberWords) /\ low \in Nat
            /\ afterB \in Nat /\ Says(words, afterB, M)
        BY SMT, <1>1, <1>3, <1>8, <2>2, <2>6
      <4>2. ReadsAs(words, start, afterB + Len(M), third, low, 1000)
        BY SMT, <2>8
      <4> QED
        BY SMT, <3>1, <3>2, <4>1, <4>2, ChunkRead DEF M
    <3> QED
      BY SMT, <1>3, <3>3 DEF second, M
  <2>10. ReadsAs(words, start, start, Spell(n), n, 1000000000)
    <3>1. second = <<>> => EndsNumber(words, start + Len(B))
      <4>1. second = <<>> => Len(M) = 0 /\ Len(third) = 0
        BY SMT, <2>2, <2>7, <1>8, <2>0
      <4>2. second = <<>> => Len(T) = 0 /\ Len(U) = 0
        BY SMT, <2>3, <2>7, <4>1
      <4> QED
        BY SMT, <2>4, <2>7, <4>1, <4>2
    <3> HIDE DEF end, low, middle
    <3>2. 1000000 < ScaleOf["billion"] /\ 1000000 \in Nat
      BY SMT, <1>3
    <3>3. ReadsAs(words, start, start, Chunk(billions, "billion") \o second,
                  billions * ScaleOf["billion"] + middle, ScaleOf["billion"])
      <4>1. /\ billions \in GroupValues /\ "billion" \in DOMAIN ScaleOf
            /\ second \in Seq(NumberWords) /\ middle \in Nat /\ Says(words, start, B)
        BY SMT, <1>1, <1>3, <1>8, <2>1, <2>6
      <4>2. ReadsAs(words, start, start + Len(B), second, middle, 1000000)
        BY SMT, <2>9
      <4> QED
        BY SMT, <3>1, <3>2, <4>1, <4>2, ChunkRead DEF B
    <3>4. n = billions * 1000000000 + middle
      BY SMT, <1>1 DEF middle, low
    <3> QED
      BY SMT, <1>3, <1>8, <3>3, <3>4 DEF B
  <2>11. Spell(n) # <<>>
    <3>1. Spell(n) = <<>> => n = 0
      BY SMT, <2>10 DEF ReadsAs
    <3> QED
      BY SMT, <1>10, <3>1
  <2>12. 0 \in Nat /\ 2000000000 \in Nat /\ 2000000000 > 1000000000 /\ 0 + n = n
    BY SMT
  <2>13. Go(words, start, start, 0, 2000000000) = Parsed(n, start + Len(Spell(n)))
    BY SMT, <2>10, <2>11, <2>12 DEF ReadsAs
  <2> QED
    BY SMT, <2>13, CardinalIsFirstGroup DEF Go
<1> QED
  BY SMT, <1>9, <1>10
=============================================================================
