----------------------------- MODULE MCReading -----------------------------
(***************************************************************************)
(* What a read needs below the queue: the threads of its utterance and the *)
(* lease of the model session it speaks under.  A behaviour exercises one  *)
(* of the two, and the other stays as it began.                            *)
(***************************************************************************)
EXTENDS ModelSession

CONSTANTS Utterances, Speeds, Control, Texts, Lookahead, Durations, MaxSeeks, MaxGeneration

VARIABLES
  active, state, stopped, paused, speed, defaultSpeed, generation,
  pc, ret, nextText, retained, launched, generated, textIndex, chunkSpeed, chunkGen,
  synth, nextPlay, nextFrame, handled, seekRead, player, playIndex, playPos, playSeek,
  interrupted, playFailed, seekGen, seekTarget, expect, pauseMark,
  part  \* which of the two

utteranceVars ==
  <<active, state, stopped, paused, speed, defaultSpeed, generation,
    pc, ret, nextText, retained, launched, generated, textIndex, chunkSpeed, chunkGen,
    synth, nextPlay, nextFrame, handled, seekRead, player, playIndex, playPos, playSeek,
    interrupted, playFailed, seekGen, seekTarget, expect, pauseMark>>

Pipeline == INSTANCE SynthesisPipeline WITH cancelled <- stopped

\* Speeds are only compared for equality: which of them is the first makes no
\* difference.
ReadingInit ==
  /\ part \in {"utterance", "session"}
  /\ Init
  /\ Pipeline!Init /\ speed = CHOOSE s \in Speeds : TRUE

Utterance == part = "utterance" /\ Pipeline!Next /\ UNCHANGED <<part, vars>>

Session == part = "session" /\ Next /\ UNCHANGED <<part, utteranceVars>>

\* An utterance may stop for good once its threads have ended, and the session never.
Ended == part = "utterance" /\ ~Pipeline!Running /\ UNCHANGED <<part, vars, utteranceVars>>

ReadingNext == Utterance \/ Session \/ Ended

\* The fairness of the two modules, each for its part.
FairReading ==
  /\ ReadingInit /\ [][ReadingNext]_<<part, vars, utteranceVars>>
  /\ WF_utteranceVars(part = "utterance" /\ Pipeline!Coordinator)
  /\ WF_utteranceVars(part = "utterance" /\ Pipeline!SynthesisTask)
  /\ WF_utteranceVars(part = "utterance" /\ Pipeline!PlaybackThread)
  /\ WF_vars(part = "session" /\ SpeechStep)
  /\ SF_vars(part = "session" /\ Acquire)
  /\ WF_vars(part = "session" /\ UiStep)
  /\ WF_vars(part = "session" /\ PackageSwitched)

\* A stop brings all threads of an utterance to rest, and an utterance that is not
\* left paused ends (Pipeline!UtteranceEnds), where there is one.
UtteranceEnds == part = "utterance" => Pipeline!UtteranceEnds

=============================================================================
