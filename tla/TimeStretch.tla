----------------------------- MODULE TimeStretch -----------------------------
(***************************************************************************)
(* The streaming time stretcher of the Qwen runner                         *)
(* (src/src/time_stretch.cpp): which samples it keeps, reads, discards and *)
(* emits.  What a sample is worth is left out; where the correlation finds *)
(* its best match is any position the search allows.                       *)
(***************************************************************************)
EXTENDS Integers

CONSTANTS
  Hop,        \* half a frame, in samples
  Tolerance,  \* how far from its nominal position a frame may be taken
  Ratios,     \* speeds, as records of num and den
  MaxInput    \* bound on the input, in samples

ASSUME StretchBounds ==
  /\ Hop \in Nat \ {0} /\ Tolerance \in Nat /\ MaxInput \in Nat
  /\ \A r \in Ratios : /\ r.num \in Nat \ {0} /\ r.den \in Nat \ {0}
                       /\ r.den <= 2 * r.num /\ r.num <= 2 * r.den

VARIABLES
  ratio,        \* speed_
  stretching,   \* where the caller is: push() and finish() loop over frames
  inputTotal,   \* input_total_
  inputStart,   \* input_start_: earlier samples are discarded
  outputStart,  \* output_start_: earlier samples were returned
  frameIndex,   \* frame_index_
  previous      \* previous_position_

stretchVars == <<ratio, stretching, inputTotal, inputStart, outputStart, frameIndex, previous>>

FrameLength == 2 * Hop
AtLeast(a, b) == IF a > b THEN a ELSE b
AtMost(a, b) == IF a < b THEN a ELSE b

\* llround of a quotient of naturals.
Rounded(n, d) == (2 * n + d) \div (2 * d)

\* nominal_position()
Nominal(k) == Rounded(k * Hop * ratio.num, ratio.den)

Plain == ratio.num = ratio.den

\* frame_ready()
FrameReady(final) ==
  IF final THEN Nominal(frameIndex) < inputTotal
  ELSE IF frameIndex = 0 THEN FrameLength <= inputTotal
  ELSE Nominal(frameIndex) + Tolerance + FrameLength <= inputTotal

\* Where the next frame may be taken from.
Candidates ==
  IF frameIndex = 0 THEN {0}
  ELSE AtLeast(0, Nominal(frameIndex) - Tolerance) .. Nominal(frameIndex) + Tolerance

\* take_output(), which returns nothing when it has returned more already.
Taken(end) == AtLeast(end, outputStart)

\* discard_consumed_input()
KeepFrom == AtLeast(0, AtMost(Nominal(frameIndex) - Tolerance, previous + Hop))

StretchInit ==
  /\ ratio \in Ratios /\ stretching = "open"
  /\ inputTotal = 0 /\ inputStart = 0 /\ outputStart = 0
  /\ frameIndex = 0 /\ previous = 0

\* push(): the samples arrive; at speed one they are returned as they are.
Push(n) ==
  /\ stretching = "open"
  /\ inputTotal + n <= MaxInput
  /\ inputTotal' = inputTotal + n
  /\ IF Plain
     THEN outputStart' = outputStart + n /\ UNCHANGED stretching
     ELSE stretching' = "pushing" /\ UNCHANGED outputStart
  /\ UNCHANGED <<ratio, inputStart, frameIndex, previous>>

\* process_frame(), in the loop of push() or finish().
ProcessFrame ==
  /\ stretching \in {"pushing", "finishing"}
  /\ FrameReady(stretching = "finishing")
  /\ previous' \in Candidates
  /\ frameIndex' = frameIndex + 1
  /\ UNCHANGED <<ratio, stretching, inputTotal, inputStart, outputStart>>

\* Mutant: the second half of the last frame is returned as well.
PushReturnsAll ==
  /\ stretching = "pushing" /\ ~FrameReady(FALSE)
  /\ stretching' = "open"
  /\ inputStart' = AtMost(inputTotal, AtLeast(inputStart, KeepFrom))
  /\ outputStart' = IF frameIndex = 0 THEN 0 ELSE Taken(frameIndex * Hop + Hop)
  /\ UNCHANGED <<ratio, inputTotal, frameIndex, previous>>

\* The rest of push().
PushReturns ==
  /\ stretching = "pushing" /\ ~FrameReady(FALSE)
  /\ stretching' = "open"
  /\ inputStart' = AtMost(inputTotal, AtLeast(inputStart, KeepFrom))
  /\ outputStart' = Taken(frameIndex * Hop)
  /\ UNCHANGED <<ratio, inputTotal, frameIndex, previous>>

\* finish()
Finish ==
  /\ stretching = "open"
  /\ stretching' = IF Plain THEN "done" ELSE "finishing"
  /\ UNCHANGED <<ratio, inputTotal, inputStart, outputStart, frameIndex, previous>>

\* The rest of finish(): the output is cut or filled to its length.
FinishReturns ==
  /\ stretching = "finishing" /\ ~FrameReady(TRUE)
  /\ stretching' = "done"
  /\ outputStart' = Taken(Rounded(inputTotal * ratio.den, ratio.num))
  /\ UNCHANGED <<ratio, inputTotal, inputStart, frameIndex, previous>>

StretchNext ==
  \/ \E n \in 0 .. MaxInput : Push(n)
  \/ ProcessFrame \/ PushReturns \/ Finish \/ FinishReturns

-----------------------------------------------------------------------------

\* A frame reads only samples that are there: none that was discarded, and
\* before finish() none that has not arrived, so that the result cannot depend
\* on how the input was split.  (frame_ready against discard_consumed_input;
\* input_at() would silently read zero.)
FrameReadsInput ==
  stretching \in {"pushing", "finishing"} /\ FrameReady(stretching = "finishing") =>
    /\ \A p \in Candidates :
         /\ p >= inputStart
         /\ stretching = "pushing" => p + FrameLength <= inputTotal
    /\ frameIndex > 0 =>
         /\ previous + Hop >= inputStart
         /\ stretching = "pushing" => previous + FrameLength <= inputTotal

\* Samples that were returned are never added to afterwards: a frame overlaps
\* only what is still held.  (process_frame against take_output.)
ReturnedIsFinal ==
  ~Plain /\ stretching \in {"pushing", "finishing"} => frameIndex * Hop >= outputStart

\* Streaming never returns more than the whole will have, and in the end the
\* length is that of the input divided by the speed.  (take_output.)
LengthIsExact ==
  /\ outputStart <= Rounded(inputTotal * ratio.den, ratio.num)
  /\ stretching = "done" => outputStart = Rounded(inputTotal * ratio.den, ratio.num)

\* Changing the speed of a stream is the same as changing that of its whole:
\* nothing is read too early, rewritten too late or left over.
StreamingIsExact == FrameReadsInput /\ ReturnedIsFinal /\ LengthIsExact

=============================================================================
