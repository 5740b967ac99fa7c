------------------------- MODULE SynthesisPipeline -------------------------
(***************************************************************************)
(* The synthesis pipeline of one spoken utterance                          *)
(* (src/src/synthesis_pipeline.cpp, with lookahead.hpp and the audio       *)
(* stream of playback_sink.cpp): a coordinator splits the text into        *)
(* sentences, keeps one synthesis request in flight, retains every         *)
(* synthesized sentence, and plays the retained ones on a playback thread. *)
(* Meanwhile the user stops, pauses, resumes, seeks and changes the speed  *)
(* through the PlaybackController and the utterance's token.               *)
(*                                                                         *)
(* Four threads interleave: the coordinator (one action per group of       *)
(* statements between two reads of shared state), the synthesis task, the  *)
(* playback thread (sentence or final drain) and the user.                 *)
(*                                                                         *)
(* Audio time is counted in abstract frames; a synthesized sentence lasts  *)
(* some number of them.  Only the desktop mode is modelled: there is a     *)
(* controller and an endpoint stream.  What is queued to the endpoint      *)
(* counts as heard.  The displayed position is left out, so a seek may     *)
(* target any generated position.                                          *)
(***************************************************************************)
EXTENDS PlaybackController, Sequences, FiniteSetsExt

CONSTANTS
  Control,        \* the token of the utterance
  Texts,          \* how many sentences the text has
  Lookahead,      \* lookahead_sentences()
  Durations,      \* possible durations of a synthesized sentence, in frames
  MaxSeeks,       \* bound on seek requests
  MaxGeneration   \* bound on speed changes, counted by the speed generation

ASSUME PipelineAssumption ==
  /\ Control \in Utterances
  /\ Texts \in Nat \ {0}
  /\ Lookahead \in Nat \ {0}
  /\ Durations \subseteq Nat \ {0}
  /\ MaxSeeks \in Nat
  /\ MaxGeneration \in Nat

VARIABLES
  pc,           \* the coordinator's next statement
  ret,          \* where it goes on after servicing playback
  nextText,     \* next_text, from 1
  retained,     \* retained_chunks
  launched,     \* launched_chunks
  generated,    \* generated_seconds, also the token's copy
  textIndex,    \* text_index of the sentence in flight
  chunkSpeed,   \* speech_speed it is synthesized at
  chunkGen,     \* speed_generation read for it
  synth,        \* the synthesis task behind `pending`
  nextPlay,     \* next_playback_chunk, from 1
  nextFrame,    \* next_playback_frame
  handled,      \* handled_seek_generation
  seekRead,     \* the seek generation apply_pending_seek has read
  player,       \* playback_thread: none (not joinable), playing, draining, ended
  playIndex,    \* playback_chunk_index
  playPos,      \* next frame the playback thread queues
  playSeek,     \* the seek generation the playback thread was started with
  interrupted,  \* playback_interrupted_for_seek
  playFailed,   \* playback_error
  seekGen,      \* the token's seek_generation_
  seekTarget,   \* the token's seek_seconds_
  expect,       \* history: the frame the listener must hear next
  pauseMark     \* history: how much was retained when the pause began

coordinatorVars == <<pc, ret, nextText, retained, launched, generated,
                     textIndex, chunkSpeed, chunkGen, nextPlay, nextFrame,
                     handled, seekRead>>
playerVars == <<player, playIndex, playPos, playSeek, interrupted, playFailed>>
seekVars == <<seekGen, seekTarget>>
vars == <<controllerVars, coordinatorVars, synth, playerVars, seekVars,
          expect, pauseMark>>

Chunks == [text : 1 .. Texts, start : Nat, duration : Durations,
           speed : Speeds, gen : Nat]

TypeOK ==
  /\ ControllerTypeOK
  /\ pc \in {"loop", "gate", "readgen", "await", "merge", "service", "join",
             "seek", "reseek", "launch", "playout", "finish", "abort",
             "unwind", "done", "aborted"}
  /\ ret \in {"gate", "await", "merge", "loop", "playout", "drained"}
  /\ nextText \in 1 .. Texts + 1
  /\ retained \in Seq(Chunks)
  /\ launched \in 0 .. Len(retained)
  /\ generated \in Nat
  /\ textIndex \in 1 .. Texts
  /\ chunkSpeed \in Speeds
  /\ chunkGen \in Nat
  /\ synth \in {"none", "running", "ready", "failed", "cancelled"}
  /\ nextPlay \in 1 .. Len(retained) + 1
  /\ nextFrame \in Nat
  /\ handled \in 0 .. seekGen
  /\ seekRead \in 0 .. seekGen
  /\ player \in {"none", "playing", "draining", "ended"}
  /\ playIndex \in 0 .. launched
  /\ playPos \in Nat
  /\ playSeek \in 0 .. handled
  /\ interrupted \in BOOLEAN
  /\ playFailed \in BOOLEAN
  /\ seekGen \in 0 .. MaxSeeks
  /\ seekTarget \in Nat
  /\ expect \in [text : 1 .. Texts + 1, frame : Nat]
  /\ pauseMark \in 0 .. Texts

\* The worker has just begun the utterance.
Init ==
  /\ active = Control
  /\ state = "Preparing"
  /\ cancelled = {}
  /\ paused = {}
  /\ speed \in Speeds
  /\ defaultSpeed = speed
  /\ generation = 1
  /\ pc = "loop" /\ ret = "loop"
  /\ nextText = 1 /\ retained = <<>> /\ launched = 0 /\ generated = 0
  /\ textIndex = 1 /\ chunkSpeed = speed /\ chunkGen = 0 /\ synth = "none"
  /\ nextPlay = 1 /\ nextFrame = 0 /\ handled = 0 /\ seekRead = 0
  /\ player = "none" /\ playIndex = 0 /\ playPos = 0 /\ playSeek = 0
  /\ interrupted = FALSE /\ playFailed = FALSE
  /\ seekGen = 0 /\ seekTarget = 0
  /\ expect = [text |-> 1, frame |-> 0]
  /\ pauseMark = 0

Cancelled == Control \in cancelled
Joinable == player # "none"
Unplayed == Len(retained) - launched
SeekPending == seekGen # handled

\* The place after p frames of a sentence lasting d.
Place(t, p, d) == IF p < d THEN [text |-> t, frame |-> p]
                           ELSE [text |-> t + 1, frame |-> 0]

-----------------------------------------------------------------------------
(* The coordinator: servicing playback without blocking.                   *)

\* service_playback: stop, or collect a finished or seek-interrupted sentence.
ServicePlayback ==
  /\ pc = "service"
  /\ pc' = IF Cancelled THEN "abort"
           ELSE IF Joinable /\ (SeekPending \/ player = "ended") THEN "join"
           ELSE "seek"
  /\ UNCHANGED <<controllerVars, ret, nextText, retained, launched, generated,
                 textIndex, chunkSpeed, chunkGen, nextPlay, nextFrame, handled,
                 seekRead, synth, playerVars, seekVars, expect, pauseMark>>

\* join_playback, then advance past a sentence that was played to its end.
JoinPlayback ==
  /\ pc = "join" /\ player = "ended"
  /\ player' = "none"
  /\ playFailed' = FALSE
  /\ pc' = IF playFailed THEN "abort"
           ELSE IF ret = "drained" /\ ~interrupted THEN "finish"
           ELSE "seek"
  /\ nextPlay' = IF playFailed \/ interrupted \/ ret = "drained"
                   THEN nextPlay ELSE playIndex + 1
  /\ UNCHANGED <<controllerVars, ret, nextText, retained, launched, generated,
                 textIndex, chunkSpeed, chunkGen, nextFrame, handled, seekRead,
                 synth, playIndex, playPos, playSeek, interrupted, seekVars,
                 expect, pauseMark>>

\* Where apply_pending_seek returns to.  The play-out loop and the drain look
\* at the token once more.
AfterSeek == IF ret \in {"playout", "drained"} /\ Cancelled THEN "abort"
             ELSE IF ret = "drained" THEN "loop"
             ELSE "launch"

\* apply_pending_seek reads the seek generation...
ApplyPendingSeek ==
  /\ pc = "seek"
  /\ IF retained = <<>> \/ ~SeekPending
       THEN pc' = AfterSeek /\ UNCHANGED seekRead
       ELSE pc' = "reseek" /\ seekRead' = seekGen
  /\ UNCHANGED <<controllerVars, ret, nextText, retained, launched, generated,
                 textIndex, chunkSpeed, chunkGen, nextPlay, nextFrame, handled,
                 synth, playerVars, seekVars, expect, pauseMark>>

\* The retained sentence that holds a position, the last one if none does.
SegmentAt(target) ==
  Min({i \in 1 .. Len(retained) :
         \/ i = Len(retained)
         \/ target < retained[i].start + retained[i].duration})

\* Mutant: handled_seek_generation is not updated.
ApplySeekTargetUnhandled ==
  /\ pc = "reseek"
  /\ pc' = AfterSeek
  /\ LET segment == SegmentAt(Min({seekTarget, generated}))
     IN  /\ nextPlay' = segment
         /\ nextFrame' = Min({seekTarget, generated}) - retained[segment].start
  /\ UNCHANGED <<controllerVars, ret, nextText, retained, launched, generated,
                 textIndex, chunkSpeed, chunkGen, handled, seekRead, synth,
                 playerVars, seekVars, expect, pauseMark>>

\* ... and then the target, which may already be that of a later seek.
ApplySeekTarget ==
  /\ pc = "reseek"
  /\ pc' = AfterSeek
  /\ handled' = seekRead
  /\ LET target == Min({seekTarget, generated})
         segment == SegmentAt(target)
         chunk == retained[segment]
         within == Min({chunk.duration, target - chunk.start})
     IN  /\ nextPlay' = segment
         /\ nextFrame' = within
         /\ expect' = Place(chunk.text, within, chunk.duration)
  /\ UNCHANGED <<controllerVars, ret, nextText, retained, launched, generated,
                 textIndex, chunkSpeed, chunkGen, seekRead, synth, playerVars,
                 seekVars, pauseMark>>

\* Forget the sentences after the first `kept`, and resume at a text, a start
\* time and a next sentence to play.
Rewind(kept, text, start, play) ==
  /\ retained' = SubSeq(retained, 1, kept)
  /\ nextText' = text
  /\ generated' = start
  /\ nextPlay' = play
  /\ expect' = IF expect.text > retained[kept + 1].text
                 THEN [text |-> retained[kept + 1].text, frame |-> 0]
                 ELSE expect

FirstUnplayed == retained[launched + 1]
NextPlayAfter(kept) == Min({nextPlay, kept + 1})
NothingRewound == UNCHANGED <<nextText, generated, retained, nextPlay, expect>>

\* Mutants of discard_unplayed: generated_seconds or next_text is not rewound, or
\* everything from the next sentence to play is dropped, an old one included.
DiscardKeepsGenerated ==
  IF Unplayed = 0 THEN NothingRewound
    ELSE Rewind(launched, FirstUnplayed.text, generated, NextPlayAfter(launched))
DiscardKeepsNextText ==
  IF Unplayed = 0 THEN NothingRewound
    ELSE Rewind(launched, nextText, FirstUnplayed.start, NextPlayAfter(launched))
DiscardFromNextPlay ==
  IF nextPlay > Len(retained) THEN NothingRewound
    ELSE Rewind(nextPlay - 1, retained[nextPlay].text, retained[nextPlay].start,
                nextPlay)

\* discard_unplayed: forget every sentence that was never launched.
DiscardUnplayed ==
  IF Unplayed = 0 THEN NothingRewound
    ELSE Rewind(launched, FirstUnplayed.text, FirstUnplayed.start,
                NextPlayAfter(launched))

FirstPlayback == nextPlay > launched
CanLaunch == ~Joinable /\ nextPlay <= Len(retained)

LaunchNothing ==
  /\ pc = "launch" /\ ~CanLaunch
  /\ pc' = ret
  /\ UNCHANGED <<controllerVars, ret, nextText, retained, launched, generated,
                 textIndex, chunkSpeed, chunkGen, nextPlay, nextFrame, handled,
                 seekRead, synth, playerVars, seekVars, expect, pauseMark>>

\* Lookahead synthesized at a stale speed, or for a stopped utterance.
LaunchRefused ==
  /\ pc = "launch" /\ CanLaunch /\ FirstPlayback
  /\ ~SentenceAllowed(Control, retained[nextPlay].gen)
  /\ DiscardUnplayed
  /\ pc' = ret
  /\ UNCHANGED <<controllerVars, ret, launched, textIndex, chunkSpeed,
                 chunkGen, nextFrame, handled, seekRead, synth, playerVars,
                 seekVars, pauseMark>>

LaunchAllowed ==
  IF FirstPlayback THEN PrepareSentence(Control, retained[nextPlay].gen)
                   ELSE UNCHANGED controllerVars

LaunchRetainedChunk ==
  /\ pc = "launch" /\ CanLaunch
  /\ LaunchAllowed
  /\ pc' = ret
  /\ launched' = Max({launched, nextPlay})
  /\ nextFrame' = 0
  /\ player' = "playing"
  /\ playIndex' = nextPlay
  /\ playPos' = nextFrame
  /\ playSeek' = handled
  /\ interrupted' = FALSE
  /\ UNCHANGED <<ret, nextText, retained, generated, textIndex, chunkSpeed,
                 chunkGen, nextPlay, handled, seekRead, synth, playFailed,
                 seekVars, expect, pauseMark>>

\* The spool cannot be read back.
LaunchFails ==
  /\ pc = "launch" /\ CanLaunch
  /\ LaunchAllowed
  /\ pc' = "abort"
  /\ launched' = Max({launched, nextPlay})
  /\ UNCHANGED <<ret, nextText, retained, generated, textIndex, chunkSpeed,
                 chunkGen, nextPlay, nextFrame, handled, seekRead, synth,
                 playerVars, seekVars, expect, pauseMark>>

-----------------------------------------------------------------------------
(* The coordinator: synthesis.                                             *)

Loop ==
  /\ pc = "loop"
  /\ IF nextText <= Texts THEN pc' = "service" /\ ret' = "gate"
                          ELSE pc' = "playout" /\ UNCHANGED ret
  /\ UNCHANGED <<controllerVars, nextText, retained, launched, generated,
                 textIndex, chunkSpeed, chunkGen, nextPlay, nextFrame, handled,
                 seekRead, synth, playerVars, seekVars, expect, pauseMark>>


MustWait == /\ retained # <<>>
            /\ Control \in paused \/ Unplayed >= Lookahead

\* Sleep while paused or far enough ahead; else fix the sentence and its speed.
Gate ==
  /\ pc = "gate"
  /\ IF MustWait
       THEN pc' = "loop" /\ UNCHANGED <<textIndex, chunkSpeed>>
       ELSE pc' = "readgen" /\ textIndex' = nextText /\ chunkSpeed' = speed
  /\ UNCHANGED <<controllerVars, ret, nextText, retained, launched, generated,
                 chunkGen, nextPlay, nextFrame, handled, seekRead, synth,
                 playerVars, seekVars, expect, pauseMark>>

\* Read the speed generation and start the synthesis task.
StartSynthesis ==
  /\ pc = "readgen"
  /\ pc' = "await"
  /\ chunkGen' = generation
  /\ synth' = "running"
  /\ UNCHANGED <<controllerVars, ret, nextText, retained, launched, generated,
                 textIndex, chunkSpeed, nextPlay, nextFrame, handled, seekRead,
                 playerVars, seekVars, expect, pauseMark>>

\* await_lookahead: pump until the task is ready, and once more after that.
AwaitLookahead ==
  /\ pc = "await"
  /\ pc' = "service"
  /\ ret' = IF synth = "running" THEN "await" ELSE "merge"
  /\ UNCHANGED <<controllerVars, nextText, retained, launched, generated,
                 textIndex, chunkSpeed, chunkGen, nextPlay, nextFrame, handled,
                 seekRead, synth, playerVars, seekVars, expect, pauseMark>>

SynthesisThrew ==
  /\ pc = "merge" /\ synth \in {"failed", "cancelled"}
  /\ pc' = "abort"
  /\ UNCHANGED <<controllerVars, ret, nextText, retained, launched, generated,
                 textIndex, chunkSpeed, chunkGen, nextPlay, nextFrame, handled,
                 seekRead, synth, playerVars, seekVars, expect, pauseMark>>

\* Lookahead was rewound meanwhile, or the sentence became stale.
DropStale ==
  /\ pc = "merge" /\ synth = "ready"
  /\ nextText # textIndex \/ generation # chunkGen
  /\ IF nextText # textIndex
       THEN NothingRewound
       ELSE DiscardUnplayed
  /\ synth' = "none"
  /\ pc' = "loop"
  /\ UNCHANGED <<controllerVars, ret, launched, textIndex, chunkSpeed,
                 chunkGen, nextFrame, handled, seekRead, playerVars, seekVars,
                 pauseMark>>

RetainChunk ==
  /\ pc = "merge" /\ synth = "ready"
  /\ nextText = textIndex /\ generation = chunkGen
  /\ \E d \in Durations :
       /\ retained' = Append(retained, [text |-> textIndex, start |-> generated,
                                        duration |-> d, speed |-> chunkSpeed,
                                        gen |-> chunkGen])
       /\ generated' = generated + d
  /\ nextText' = nextText + 1
  /\ synth' = "none"
  /\ pc' = "service" /\ ret' = "loop"
  /\ UNCHANGED <<controllerVars, launched, textIndex, chunkSpeed, chunkGen,
                 nextPlay, nextFrame, handled, seekRead, playerVars, seekVars,
                 expect, pauseMark>>

\* The spool is full.
RetainFails ==
  /\ pc = "merge" /\ synth = "ready"
  /\ nextText = textIndex /\ generation = chunkGen
  /\ synth' = "none"
  /\ pc' = "abort"
  /\ UNCHANGED <<controllerVars, ret, nextText, retained, launched, generated,
                 textIndex, chunkSpeed, chunkGen, nextPlay, nextFrame, handled,
                 seekRead, playerVars, seekVars, expect, pauseMark>>

-----------------------------------------------------------------------------
(* The coordinator: playing out, draining, and leaving.                    *)

PlayOutOne ==
  /\ pc = "playout"
  /\ nextText > Texts
  /\ Joinable \/ nextPlay <= Len(retained)
  /\ pc' = IF Joinable THEN "join" ELSE "seek"
  /\ ret' = "playout"
  /\ UNCHANGED <<controllerVars, nextText, retained, launched, generated,
                 textIndex, chunkSpeed, chunkGen, nextPlay, nextFrame, handled,
                 seekRead, synth, playerVars, seekVars, expect, pauseMark>>

\* A speed change discarded sentences while playing out.
PlayOutRewound ==
  /\ pc = "playout"
  /\ nextText <= Texts
  /\ pc' = "loop"
  /\ UNCHANGED <<controllerVars, ret, nextText, retained, launched, generated,
                 textIndex, chunkSpeed, chunkGen, nextPlay, nextFrame, handled,
                 seekRead, synth, playerVars, seekVars, expect, pauseMark>>

\* Everything was queued: drain the stream on a thread and join it.
DrainStream ==
  /\ pc = "playout"
  /\ nextText > Texts /\ ~Joinable /\ nextPlay > Len(retained)
  /\ IF Cancelled
       THEN pc' = "abort" /\ UNCHANGED <<ret, player, playSeek, interrupted>>
       ELSE /\ pc' = "join" /\ ret' = "drained"
            /\ player' = "draining"
            /\ playSeek' = handled
            /\ interrupted' = FALSE
  /\ UNCHANGED <<controllerVars, nextText, retained, launched, generated,
                 textIndex, chunkSpeed, chunkGen, nextPlay, nextFrame, handled,
                 seekRead, synth, playIndex, playPos, playFailed, seekVars,
                 expect, pauseMark>>

FinishUtterance ==
  /\ pc = "finish"
  /\ pc' = IF Cancelled THEN "abort" ELSE "done"
  /\ UNCHANGED <<controllerVars, ret, nextText, retained, launched, generated,
                 textIndex, chunkSpeed, chunkGen, nextPlay, nextFrame, handled,
                 seekRead, synth, playerVars, seekVars, expect, pauseMark>>

\* An exception unwinds: whoever still runs is cancelled...
Abort ==
  /\ pc = "abort"
  /\ pc' = "unwind"
  /\ IF Joinable \/ synth # "none" THEN CancelToken(Control)
                                   ELSE UNCHANGED controllerVars
  /\ UNCHANGED <<ret, nextText, retained, launched, generated, textIndex,
                 chunkSpeed, chunkGen, nextPlay, nextFrame, handled, seekRead,
                 synth, playerVars, seekVars, expect, pauseMark>>

\* ... and joined before the shared resources go away.
Unwind ==
  /\ pc = "unwind"
  /\ player \in {"none", "ended"} /\ synth # "running"
  /\ pc' = "aborted"
  /\ player' = "none"
  /\ synth' = "none"
  /\ UNCHANGED <<controllerVars, ret, nextText, retained, launched, generated,
                 textIndex, chunkSpeed, chunkGen, nextPlay, nextFrame, handled,
                 seekRead, playIndex, playPos, playSeek, interrupted,
                 playFailed, seekVars, expect, pauseMark>>

-----------------------------------------------------------------------------
(* The synthesis task.                                                     *)

SynthesisEnds(result) ==
  /\ synth = "running"
  /\ synth' = result
  /\ UNCHANGED <<controllerVars, coordinatorVars, playerVars, seekVars,
                 expect, pauseMark>>

SynthesisReturns == SynthesisEnds("ready")
SynthesisFails == SynthesisEnds("failed")
SynthesisCancelled == Cancelled /\ SynthesisEnds("cancelled")

-----------------------------------------------------------------------------
(* The playback thread.                                                    *)

Unobstructed == ~Cancelled /\ playSeek = seekGen /\ Control \notin paused

\* play_from queues the next frame; after the last one it returns at once.
PlayFrame ==
  /\ player = "playing" /\ Unobstructed
  /\ LET chunk == retained[playIndex]
     IN  /\ playPos' = Min({playPos + 1, chunk.duration})
         /\ player' = IF playPos' = chunk.duration THEN "ended" ELSE "playing"
         /\ expect' = IF playSeek = handled
                        THEN Place(chunk.text, playPos', chunk.duration)
                        ELSE expect
  /\ UNCHANGED <<controllerVars, coordinatorVars, synth, playIndex, playSeek,
                 interrupted, playFailed, seekVars, pauseMark>>

PlayerReturns(forSeek, failed) ==
  /\ player' = "ended"
  /\ interrupted' = forSeek
  /\ playFailed' = failed
  /\ UNCHANGED <<controllerVars, coordinatorVars, synth, playIndex, playPos,
                 playSeek, seekVars, expect, pauseMark>>

DrainEnds == player = "draining" /\ Unobstructed /\ PlayerReturns(FALSE, FALSE)

\* observe_controls, also from a paused wait.
PlayerStops ==
  /\ player \in {"playing", "draining"} /\ Cancelled
  /\ PlayerReturns(FALSE, FALSE)

PlayerSeeks ==
  /\ player \in {"playing", "draining"} /\ ~Cancelled /\ playSeek # seekGen
  /\ PlayerReturns(TRUE, FALSE)

EndpointFails ==
  /\ player \in {"playing", "draining"}
  /\ PlayerReturns(FALSE, TRUE)

-----------------------------------------------------------------------------
(* The user, until the worker takes the utterance away.                    *)

Running == pc \notin {"done", "aborted"}

UserUnchanged == UNCHANGED <<coordinatorVars, synth, playerVars, expect>>

UserStops == Running /\ StopPlayback /\ UserUnchanged
                     /\ UNCHANGED <<seekVars, pauseMark>>
UserPauses == Running /\ PausePlayback /\ UserUnchanged
                      /\ pauseMark' = Len(retained) /\ UNCHANGED seekVars
UserResumes == Running /\ ResumePlayback /\ UserUnchanged
                       /\ UNCHANGED <<seekVars, pauseMark>>
UserChangesSpeed == /\ Running /\ generation < MaxGeneration
                    /\ \E s \in Speeds : SetActiveSpeed(s)
                    /\ UserUnchanged /\ UNCHANGED <<seekVars, pauseMark>>

\* seek_by_interval and request_seek: within what was generated.
UserSeeks ==
  /\ Running
  /\ seekGen < MaxSeeks
  /\ state \in {"Playing", "Paused"}
  /\ seekTarget' \in 0 .. generated
  /\ seekGen' = seekGen + 1
  /\ UserUnchanged
  /\ UNCHANGED <<controllerVars, pauseMark>>

-----------------------------------------------------------------------------

Coordinator ==
  \/ ServicePlayback \/ JoinPlayback \/ ApplyPendingSeek \/ ApplySeekTarget
  \/ LaunchNothing \/ LaunchRefused \/ LaunchRetainedChunk
  \/ Loop \/ Gate \/ StartSynthesis \/ AwaitLookahead
  \/ SynthesisThrew \/ DropStale \/ RetainChunk
  \/ PlayOutOne \/ PlayOutRewound \/ DrainStream
  \/ FinishUtterance \/ Abort \/ Unwind

SynthesisTask == SynthesisReturns \/ SynthesisCancelled

PlaybackThread == PlayFrame \/ DrainEnds \/ PlayerStops \/ PlayerSeeks

Failures == LaunchFails \/ RetainFails \/ SynthesisFails \/ EndpointFails

User == UserStops \/ UserPauses \/ UserResumes \/ UserChangesSpeed \/ UserSeeks

Next == Coordinator \/ SynthesisTask \/ PlaybackThread \/ Failures \/ User

Spec == Init /\ [][Next]_vars

\* The threads keep running, and the synthesis task ends: every runner wait has
\* a deadline and watches the token.
FairSpec == Spec /\ WF_vars(Coordinator) /\ WF_vars(SynthesisTask)
                 /\ WF_vars(PlaybackThread)

-----------------------------------------------------------------------------
(* Safety.                                                                 *)

\* The retained audio is one gapless timeline of the text: sentence after
\* sentence, each starting where the previous one ends, and the next text to
\* synthesize is the one after it.  (discard_unplayed must rewind next_text,
\* generated_seconds, retained_chunks and next_playback_chunk together.)
TimelineIsGapless ==
  /\ nextText = Len(retained) + 1
  /\ \A i \in 1 .. Len(retained) :
       /\ retained[i].text = i
       /\ LET end == retained[i].start + retained[i].duration
          IN  end = IF i = Len(retained) THEN generated ELSE retained[i + 1].start

\* Synthesis never runs further ahead of playback than the lookahead setting,
\* whatever is rewound or sought while a request is in flight.
LookaheadIsBounded == Unplayed <= Lookahead

\* "Pause also applies backpressure: finish at most the in-flight synthesis
\* request, then stop lookahead until playback resumes."
PauseStopsLookahead ==
  Control \in paused => Len(retained) <= pauseMark + 1

\* The retained timeline is sound, and synthesis keeps to its distance from what
\* is being heard, paused or not.
TimelineIsKept ==
  TypeOK /\ TimelineIsGapless /\ LookaheadIsBounded /\ PauseStopsLookahead

Launching == player # "playing" /\ player' = "playing"

\* A speed change leaves audible PCM alone: a sentence that was launched stays
\* in the timeline for as long as the utterance runs.
HeardAudioStays ==
  [][/\ launched' >= launched
     /\ Len(retained') >= launched
     /\ \A i \in 1 .. launched : retained'[i] = retained[i]]_vars

\* The utterance is only done once every frame of every sentence was queued,
\* in spite of any number of rewinds, if nothing was sought.
DoneMeansHeard ==
  pc = "done" /\ seekGen = 0 => expect = [text |-> Texts + 1, frame |-> 0]

\* "It never skips text": until the first seek, playback starts exactly where it
\* ended, a sentence that has to be synthesized again starts at its beginning,
\* and the end is only reached when everything was heard.
NothingSkipped ==
  /\ []DoneMeansHeard
  /\ [][Launching /\ seekGen = 0 =>
          Place(retained[playIndex'].text, playPos', retained[playIndex'].duration)
            = expect]_vars

\* The seek half of NothingSkipped: after a seek was taken up, playback goes on
\* at its target.
SeekIsNotLost ==
  [][Launching /\ playSeek' > playSeek =>
       Place(retained[playIndex'].text, playPos', retained[playIndex'].duration)
         = expect]_vars

-----------------------------------------------------------------------------
(* Liveness.                                                               *)

\* A stop brings all four threads to rest, also when paused, in a drain, or with
\* a request in flight; and unless it stays paused, an utterance ends, however it
\* was sought and however often its speed changed.
UtteranceEnds ==
  /\ Cancelled ~> ~Running
  /\ <>[](Control \notin paused) => <>~Running

=============================================================================
