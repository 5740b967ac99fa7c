------------------------- MODULE PlaybackController -------------------------
(***************************************************************************)
(* The PlaybackController: the observable lifecycle of the one active      *)
(* desktop utterance (src/src/playback_controller.cpp).  It is shared by   *)
(* the speech worker, the tray thread and the Local API thread.            *)
(*                                                                         *)
(* Every operation holds the controller's mutex for its whole body, so     *)
(* each is one atomic step here.  The operators below are the effects of   *)
(* the operations on the controller's own variables; the modules that      *)
(* EXTEND this one decide which thread calls them and when.                *)
(*                                                                         *)
(* A PlaybackControl token is identified with the utterance begin()        *)
(* created it for.  Not kept here: the seek timeline (SynthesisPipeline),  *)
(* the source label and the error text, which nothing branches on.         *)
(***************************************************************************)
EXTENDS Naturals

CONSTANTS
  Utterances,   \* every utterance a behaviour may begin
  None,         \* the null active_ pointer
  Speeds        \* requested speech speeds

ASSUME NoneAssumption == None \notin Utterances

VARIABLES
  active,       \* active_: the utterance being prepared or played, or None
  state,        \* state_
  cancelled,    \* the tokens whose cancelled_ flag is set
  paused,       \* the tokens whose paused_ flag is set
  defaultSpeed, \* default_speech_speed_
  speed,        \* speech_speed_
  generation    \* speech_speed_generation_

controllerVars ==
  <<active, state, cancelled, paused, defaultSpeed, speed, generation>>

States == {"Idle", "Preparing", "Playing", "Paused", "Stopping", "Error"}

ControllerTypeOK ==
  /\ active \in Utterances \union {None}
  /\ state \in States
  /\ cancelled \subseteq Utterances
  /\ paused \subseteq Utterances
  /\ defaultSpeed \in Speeds
  /\ speed \in Speeds
  /\ generation \in Nat

ControllerInit ==
  /\ active = None
  /\ state = "Idle"
  /\ cancelled = {}
  /\ paused = {}
  /\ defaultSpeed \in Speeds
  /\ speed \in Speeds
  /\ generation = 0

-----------------------------------------------------------------------------
(* Worker operations.                                                      *)

\* begin() replaces whatever token was active and adopts the default speed.
Begin(u) ==
  /\ cancelled' = cancelled \union ({active} \ {None})
  /\ active' = u
  /\ state' = "Preparing"
  /\ speed' = defaultSpeed
  /\ generation' = generation + 1
  /\ UNCHANGED <<paused, defaultSpeed>>

\* Mutant: the token's cancellation and the Stopping state are not looked at.
SentenceAllowedDespiteStop(u, g) ==
  /\ active = u
  /\ generation = g

\* The condition under which prepare_sentence_for_playback() returns true for
\* a sentence synthesized at speed generation g; when false it has no effect.
SentenceAllowed(u, g) ==
  /\ active = u
  /\ u \notin cancelled
  /\ generation = g
  /\ state \in {"Preparing", "Playing", "Paused"}

\* prepare_sentence_for_playback() returning true.
PrepareSentence(u, g) ==
  /\ SentenceAllowed(u, g)
  /\ state' = IF state = "Preparing" THEN "Playing" ELSE state
  /\ UNCHANGED <<active, cancelled, paused, defaultSpeed, speed, generation>>

\* PlaybackControl::cancel(), called on the token by a failing pipeline.
CancelToken(u) ==
  /\ cancelled' = cancelled \union {u}
  /\ UNCHANGED <<active, state, paused, defaultSpeed, speed, generation>>

\* Mutant: the status is reset but the token stays active.
FinishKeepsActive(u) ==
  /\ state' = IF active = u /\ state # "Error" THEN "Idle" ELSE state
  /\ UNCHANGED <<active, cancelled, paused, defaultSpeed, speed, generation>>

\* The last reference to a finished utterance.  A token that is no longer the
\* active one changes nothing, and an error stays on display.
Finish(u) ==
  /\ IF active = u
       THEN /\ active' = None
            /\ state' = IF state = "Error" THEN "Error" ELSE "Idle"
       ELSE UNCHANGED <<active, state>>
  /\ UNCHANGED <<cancelled, paused, defaultSpeed, speed, generation>>

Fail(u) ==
  /\ IF active = u
       THEN /\ cancelled' = cancelled \union {u}
            /\ active' = None
            /\ state' = "Error"
       ELSE UNCHANGED <<cancelled, active, state>>
  /\ UNCHANGED <<paused, defaultSpeed, speed, generation>>

-----------------------------------------------------------------------------
(* Operations of the tray and Local API threads.                           *)

PausePlayback ==
  /\ active # None
  /\ state \in {"Preparing", "Playing"}
  /\ paused' = paused \union {active}
  /\ state' = "Paused"
  /\ UNCHANGED <<active, cancelled, defaultSpeed, speed, generation>>

ResumePlayback ==
  /\ active # None
  /\ state = "Paused"
  /\ paused' = paused \ {active}
  /\ state' = "Playing"
  /\ UNCHANGED <<active, cancelled, defaultSpeed, speed, generation>>

\* Mutant: only an utterance that is already playing is cancelled.
StopOnlyWhilePlaying ==
  /\ IF active = None \/ state # "Playing"
       THEN UNCHANGED <<cancelled, state>>
       ELSE /\ cancelled' = cancelled \union {active}
            /\ state' = "Stopping"
  /\ UNCHANGED <<active, paused, defaultSpeed, speed, generation>>

StopPlayback ==
  /\ IF active = None
       THEN UNCHANGED <<cancelled, state>>
       ELSE /\ cancelled' = cancelled \union {active}
            /\ state' = "Stopping"
  /\ UNCHANGED <<active, paused, defaultSpeed, speed, generation>>

\* set_active_speech_speed(): ignored when idle or when nothing changes.
SetActiveSpeed(s) ==
  /\ active # None
  /\ s # speed
  /\ speed' = s
  /\ generation' = generation + 1
  /\ UNCHANGED <<active, state, cancelled, paused, defaultSpeed>>

SetDefaultSpeed(s) ==
  /\ defaultSpeed' = s
  /\ UNCHANGED <<active, state, cancelled, paused, speed, generation>>

=============================================================================
