------------------------------- MODULE Capture -------------------------------
(***************************************************************************)
(* One recording (audio.rs) and its live preview.  The audio callback must   *)
(* not block: it copies its input into blocks taken from a pool and queues   *)
(* them, or drops the rest of the input when no block is free.  The capture  *)
(* worker resamples the blocks into the sample buffer and gives them back.   *)
(* The preview loop reads windows of the growing buffer.  finish closes the  *)
(* stream, waits for the worker and takes the buffer and the first issue.    *)
(* A frame of the microphone is its number; a sample is the number of the    *)
(* frame it stands for, 0 for padding.                                       *)
(***************************************************************************)
EXTENDS Integers, Sequences, SequencesExt

CONSTANTS
  PoolSize,      \* CAPTURE_QUEUE_DEPTH
  BlockFrames,   \* CAPTURE_BLOCK_FRAMES
  ChunkSize,     \* SAMPLE_CHUNK_SIZE
  MaxSamples,    \* ChunkedSamples::max_len
  Cadence,       \* samples of a second: a preview hears at least that much new
  Speech,        \* the word said at each sample; a word may be said again
  Ratios,        \* source rates, in frames per sample
  MaxFrames,     \* bound on the frames of the microphone
  InputFrames,   \* the sizes of the callback's input
  NoBlock        \* the worker holds no block

ASSUME CaptureAssumption ==
  /\ PoolSize \in Nat \ {0} /\ BlockFrames \in Nat \ {0} /\ ChunkSize \in Nat \ {0}
  /\ Cadence \in Nat \ {0, 1} /\ Ratios \subseteq Nat \ {0}
  /\ DOMAIN Speech = 0 .. MaxFrames
  /\ MaxSamples \in Nat /\ MaxFrames \in Nat /\ InputFrames \subseteq Nat
  /\ NoBlock \notin Seq(Nat)

VARIABLES
  phase,      \* "recording", "closing" (finish waits), "finished", "failed" or "consumed"
  stream,     \* the stream is open
  ratio,      \* frames per sample
  captured,   \* frames the microphone has delivered
  input,      \* what the callback in progress still has to copy
  free,       \* blocks in the pool
  filled,     \* blocks on their way to the worker
  held,       \* the block in the worker's hands, or NoBlock
  worker,     \* "running", "limit" (about to report it) or "done"
  accepting,  \* capture_worker's accepting_audio
  resampler,  \* CaptureResampler
  samples,    \* ChunkedSamples
  issue,      \* the capture issue, "none" at first
  preview     \* the preview loop; missed and repeats are ghosts: a window failed, a
              \* word was said twice within one

callbackVars == <<captured, input, filled>>
workerVars == <<held, worker, accepting, resampler, samples>>
captureVars == <<phase, stream, ratio, callbackVars, free, workerVars, issue, preview>>

-----------------------------------------------------------------------------
(* The resampler.  Its filter delays the output by one sample, which is cut  *)
(* off at the start and flushed out at the end.                              *)

NewResampler(r) ==
  [pending |-> <<>>, line |-> IF r = 1 THEN <<>> ELSE <<0>>,
   trim |-> IF r = 1 THEN 0 ELSE 1, in |-> 0, out |-> 0]

Least(m, n) == IF m < n THEN m ELSE n
Drop(sequence, n) == SubSeq(sequence, n + 1, Len(sequence))

(* push: as many whole chunks as there are.                                  *)
Pushed(r, block) ==
  LET all == resampler.pending \o block
      count == Len(all) \div r
      line == resampler.line \o [k \in 1 .. count |-> all[(k - 1) * r + 1]]
      trim == Least(resampler.trim, count)
  IN [output |-> SubSeq(line, trim + 1, count),
      next |-> [pending |-> Drop(all, count * r), line |-> Drop(line, count),
                trim |-> resampler.trim - trim,
                in |-> resampler.in + Len(block), out |-> resampler.out + count - trim]]

(* finish: the last part of a chunk, and padding up to the target.           *)
Flushed(r) ==
  LET target == (resampler.in + r - 1) \div r
      last == IF resampler.pending = <<>> THEN <<>> ELSE <<resampler.pending[1]>>
      rest == Drop(resampler.line \o last, resampler.trim)
  IN [k \in 1 .. target - resampler.out |-> IF k <= Len(rest) THEN rest[k] ELSE 0]

-----------------------------------------------------------------------------
(* The sample buffer.                                                        *)

Chunks(buffer) ==
  [k \in 1 .. Len(buffer) \div ChunkSize |->
     SubSeq(buffer, (k - 1) * ChunkSize + 1, k * ChunkSize)]
Current(buffer) == Drop(buffer, (Len(buffer) \div ChunkSize) * ChunkSize)

(* snapshot and flatten: the chunks from the one of start on, one after the  *)
(* other (all but the last are full), without what comes before start in the *)
(* first.                                                                    *)
Flatten(buffer, start, length) ==
  LET chunks == Append(Chunks(buffer), Current(buffer))
      from == Drop(chunks, start \div ChunkSize)
      Sample(at) == from[(at \div ChunkSize) + 1][(at % ChunkSize) + 1]
  IN [k \in 1 .. length |-> Sample((start % ChunkSize) + k - 1)]

(* snapshot_range.                                                           *)
SnapshotRange(start, end) ==
  LET to == Least(end, Len(samples))
      from == Least(start, to)
  IN Flatten(samples, from, to - from)

SetIssue(what) == issue' = IF issue = "none" THEN what ELSE issue

-----------------------------------------------------------------------------
(* The callback.                                                             *)

(* The microphone delivers the next frames.                                  *)
CallbackStarts(count) ==
  /\ stream /\ input = <<>>
  /\ captured + count <= MaxFrames
  /\ captured' = captured + count
  /\ input' = [k \in 1 .. count |-> captured + k]
  /\ UNCHANGED <<phase, stream, ratio, filled, free, workerVars, issue, preview>>

(* One block of the input; the queue has room for every block of the pool.   *)
CallbackQueues ==
  /\ input # <<>> /\ free > 0
  /\ LET count == IF Len(input) < BlockFrames THEN Len(input) ELSE BlockFrames
     IN /\ filled' = Append(filled, SubSeq(input, 1, count))
        /\ input' = Drop(input, count)
  /\ free' = free - 1
  /\ UNCHANGED <<phase, stream, ratio, captured, workerVars, issue, preview>>

(* Without a free block the rest of the input is dropped.                    *)
CallbackOverflows ==
  /\ input # <<>> /\ free = 0
  /\ input' = <<>>
  /\ SetIssue("overflow")
  /\ UNCHANGED <<phase, stream, ratio, captured, filled, free, workerVars, preview>>

DeviceFails ==
  /\ stream /\ issue = "none"
  /\ SetIssue("device")
  /\ UNCHANGED <<phase, stream, ratio, callbackVars, free, workerVars, preview>>

-----------------------------------------------------------------------------
(* The capture worker.                                                       *)

WorkerReceives ==
  /\ worker = "running" /\ held = NoBlock /\ filled # <<>>
  /\ held' = Head(filled)
  /\ filled' = Tail(filled)
  /\ UNCHANGED <<phase, stream, ratio, captured, input, free, worker, accepting,
                 resampler, samples, issue, preview>>

(* append_capture_samples: up to the limit.                                  *)
AppendSamples(output, after) ==
  LET room == MaxSamples - Len(samples)
  IN /\ samples' = samples \o SubSeq(output, 1, Least(room, Len(output)))
     /\ accepting' = (Len(output) <= room)
     /\ worker' = IF Len(output) <= room THEN after ELSE "limit"

WorkerAppends ==
  /\ worker = "running" /\ held # NoBlock /\ held # <<>> /\ accepting
  /\ LET pushed == Pushed(ratio, held)
     IN /\ resampler' = pushed.next
        /\ AppendSamples(pushed.output, "running")
  /\ held' = <<>>
  /\ UNCHANGED <<phase, stream, ratio, callbackVars, free, issue, preview>>

\* (Mutant: the block is lost on the way out.)
ResamplingFailsLosingBlock ==
  /\ worker = "running" /\ held # NoBlock /\ held # <<>> /\ accepting /\ ratio > 1
  /\ accepting' = FALSE
  /\ SetIssue("device")
  /\ held' = NoBlock
  /\ UNCHANGED <<phase, stream, ratio, callbackVars, free, worker, resampler, samples, preview>>

ResamplingFails ==
  /\ worker = "running" /\ held # NoBlock /\ held # <<>> /\ accepting /\ ratio > 1
  /\ accepting' = FALSE
  /\ SetIssue("device")
  /\ held' = <<>>
  /\ UNCHANGED <<phase, stream, ratio, callbackVars, free, worker, resampler, samples, preview>>

(* The buffer is unlocked before the limit is reported.                      *)
WorkerReportsLimit ==
  /\ worker = "limit"
  /\ SetIssue("limit")
  /\ worker' = IF held = NoBlock THEN "done" ELSE "running"
  /\ UNCHANGED <<phase, stream, ratio, callbackVars, free, held, accepting,
                 resampler, samples, preview>>

WorkerReturnsBlock ==
  /\ worker = "running" /\ held # NoBlock
  /\ held = <<>> \/ ~accepting
  /\ held' = NoBlock
  /\ free' = free + 1
  /\ UNCHANGED <<phase, stream, ratio, callbackVars, worker, accepting, resampler,
                 samples, issue, preview>>

(* The stream has closed and the queue is empty: the resampler is flushed,   *)
(* which may fail.                                                           *)
WorkerEnds ==
  /\ worker = "running" /\ held = NoBlock /\ filled = <<>> /\ ~stream
  /\ \/ accepting /\ AppendSamples(Flushed(ratio), "done") /\ UNCHANGED issue
     \/ ~accepting /\ worker' = "done" /\ UNCHANGED <<samples, accepting, issue>>
     \/ accepting /\ ratio > 1 /\ worker' = "done" /\ SetIssue("device")
        /\ UNCHANGED <<samples, accepting>>
  /\ UNCHANGED <<phase, stream, ratio, callbackVars, free, held, resampler, preview>>

-----------------------------------------------------------------------------
(* finish.                                                                   *)

(* Dropping the stream waits for a callback in progress.                     *)
CloseStream ==
  /\ phase = "recording" /\ input = <<>>
  /\ phase' = "closing"
  /\ stream' = FALSE
  /\ UNCHANGED <<ratio, callbackVars, free, workerVars, issue, preview>>

\* (Mutant: the worker is not waited for.)
JoinWorkerAtOnce ==
  /\ phase = "closing"
  /\ phase' = IF samples = <<>> THEN "failed" ELSE "finished"
  /\ UNCHANGED <<stream, ratio, callbackVars, free, workerVars, issue, preview>>

JoinWorker ==
  /\ phase = "closing" /\ worker = "done"
  /\ phase' = IF samples = <<>> THEN "failed" ELSE "finished"
  /\ UNCHANGED <<stream, ratio, callbackVars, free, workerVars, issue, preview>>

(* What the pipeline gets: finish_capture.                                   *)
Audio == Flatten(samples, 0, Len(samples))

-----------------------------------------------------------------------------
(* The preview loop.                                                         *)

Overlap == Cadence \div 2
WindowStart(last) == IF last < Overlap THEN 0 ELSE last - Overlap

PreviewCounts ==
  /\ phase = "recording" /\ preview.step = "sleeping"
  /\ Len(samples) >= Cadence /\ Len(samples) - preview.last >= Cadence
  /\ preview' = [preview EXCEPT !.step = "counted", !.end = Len(samples)]
  /\ UNCHANGED <<phase, stream, ratio, callbackVars, free, workerVars, issue>>

(* What is heard at a sample, and whether the recogniser put a full stop     *)
(* after it, as it does at the end; merge_preview compares the words alone.  *)
Recognise(window) ==
  [k \in DOMAIN window |-> [sample |-> window[k], stop |-> k = Len(window)]]
NormalizeWord(heard) == Speech[heard.sample]

(* A word is said twice within a window.                                     *)
Repeats(segment) ==
  \E i, j \in DOMAIN segment :
     i # j /\ NormalizeWord(segment[i]) = NormalizeWord(segment[j])

\* (Mutant: the next window starts at what has been captured by now.)
PreviewListensLate ==
  /\ phase = "recording" /\ preview.step = "counted"
  /\ preview' = [preview EXCEPT !.step = "listening", !.last = Len(samples),
                   !.segment = Recognise(SnapshotRange(WindowStart(preview.last), preview.end))]
  /\ UNCHANGED <<phase, stream, ratio, callbackVars, free, workerVars, issue>>

(* The window is taken from a buffer that may have grown since.              *)
PreviewListens ==
  /\ phase = "recording" /\ preview.step = "counted"
  /\ preview' = [preview EXCEPT !.step = "listening", !.last = preview.end,
                   !.segment = Recognise(SnapshotRange(WindowStart(preview.last), preview.end))]
  /\ UNCHANGED <<phase, stream, ratio, callbackVars, free, workerVars, issue>>

(* merge_preview: the longest overlap of the end of one with the start of    *)
(* the other, which takes a word said again for the one before.              *)
Merge(existing, next) ==
  LET overlaps == {k \in 0 .. Least(Len(existing), Len(next)) :
                     \A i \in 1 .. k : NormalizeWord(existing[Len(existing) - k + i])
                                         = NormalizeWord(next[i])}
  IN existing \o Drop(next, Max(overlaps))

PreviewHears ==
  /\ phase = "recording" /\ preview.step = "listening"
  /\ preview' = [preview EXCEPT !.step = "sleeping", !.segment = <<>>,
                                !.merged = Merge(@, preview.segment),
                                !.repeats = @ \/ Repeats(preview.segment)]
  /\ UNCHANGED <<phase, stream, ratio, callbackVars, free, workerVars, issue>>

(* A failed or empty preview: the words of the window are missing for good.  *)
PreviewFails ==
  /\ phase = "recording" /\ preview.step = "listening"
  /\ preview' = [preview EXCEPT !.step = "sleeping", !.segment = <<>>, !.missed = TRUE]
  /\ UNCHANGED <<phase, stream, ratio, callbackVars, free, workerVars, issue>>

(* The samples whose words are shown.                                        *)
Heard == [k \in DOMAIN preview.merged |-> preview.merged[k].sample]

-----------------------------------------------------------------------------
NewPreview ==
  [step |-> "sleeping", last |-> 0, end |-> 0, segment |-> <<>>, merged |-> <<>>,
   missed |-> FALSE, repeats |-> FALSE]

CaptureInit ==
  /\ phase = "recording" /\ stream = TRUE
  /\ ratio \in Ratios
  /\ captured = 0 /\ input = <<>>
  /\ free = PoolSize /\ filled = <<>>
  /\ held = NoBlock /\ worker = "running" /\ accepting = TRUE
  /\ resampler = NewResampler(ratio)
  /\ samples = <<>>
  /\ issue = "none"
  /\ preview = NewPreview

CaptureNext ==
  \/ \E count \in InputFrames : CallbackStarts(count)
  \/ CallbackQueues \/ CallbackOverflows \/ DeviceFails
  \/ WorkerReceives \/ WorkerAppends \/ ResamplingFails \/ WorkerReportsLimit
  \/ WorkerReturnsBlock \/ WorkerEnds
  \/ CloseStream \/ JoinWorker
  \/ PreviewCounts \/ PreviewListens \/ PreviewHears \/ PreviewFails
===============================================================================
