---------------------------- MODULE SpeechQueue ----------------------------
(***************************************************************************)
(* The speech queue of the tray-mode Host (src/src/speech_queue.cpp): one  *)
(* worker thread takes requests in order, and the tray thread and the      *)
(* Local API thread submit, stop, pause and reconfigure concurrently.      *)
(*                                                                         *)
(* Atomicity.  submit, stop and the destructor's first block run under the *)
(* queue mutex and are one action each.  The worker tests its wait         *)
(* condition, takes a request, begins it and reads the configuration under *)
(* that mutex too, but publish_config takes no lock across its steps, so   *)
(* publish_config is three actions of the tray thread and the worker reads *)
(* the configuration in an action of its own, with the mutex held.         *)
(* Everything the worker does outside the mutex is its own action:         *)
(* speaking, failing, finishing, warming, unloading.                       *)
(*                                                                         *)
(* The speech engine is known here only by its seam: speak() starts        *)
(* sentences through the controller and then returns, throws               *)
(* RunnerCancelled once its token is cancelled, or throws another error.   *)
(***************************************************************************)
EXTENDS PlaybackController, Sequences

CONSTANTS
  MaxRequests,    \* bound on submitted requests; they are numbered in order
  MaxGeneration,  \* bound on speed changes, counted by the speed generation
  MaxPublishes,   \* bound on published configuration documents
  Profiles        \* values of a document's "profiles"/"languageDefaults"

Requests == 1 .. MaxRequests

ASSUME QueueAssumption ==
  /\ MaxRequests \in Nat
  /\ MaxGeneration \in Nat
  /\ MaxPublishes \in Nat
  /\ Utterances = Requests

VARIABLES
  pending,    \* pending_: the requests waiting for the worker, in order
  submitted,  \* how many requests were ever submitted
  stopping,   \* stopping_
  eager,      \* eager_pending_
  published,  \* config_.current()
  tray,       \* where the tray thread is in publish_config
  draft,      \* the document the tray thread is publishing
  publishes,  \* how many documents were published
  worker,     \* where the worker thread is in run()
  current,    \* the request whose token the worker holds, or None
  snapshot,   \* the document taken in this turn of the worker's loop, or None
  heard,      \* history: requests of which some sentence was started
  revoked,    \* history: requests a stop, an interrupt or Quit discarded
  outcome     \* history: how each request left the worker

queueVars == <<pending, submitted, stopping, eager, published, tray, draft,
               publishes, worker, current, snapshot>>
historyVars == <<heard, revoked, outcome>>
vars == <<controllerVars, queueVars, historyVars>>

Documents == [profiles : Profiles, speed : Speeds]

Elements(s) == {s[i] : i \in 1 .. Len(s)}

TypeOK ==
  /\ ControllerTypeOK
  /\ pending \in Seq(Requests)
  /\ submitted \in 0 .. MaxRequests
  /\ stopping \in BOOLEAN
  /\ eager \in BOOLEAN
  /\ published \in Documents
  /\ tray \in {"idle", "applied", "swapped", "quit"}
  /\ draft \in Documents
  /\ publishes \in 0 .. MaxPublishes
  /\ worker \in {"wait", "begun", "speak", "aborting", "finish", "warm", "unload",
                 "exited"}
  /\ current \in Requests \union {None}
  /\ snapshot \in Documents \union {None}
  /\ heard \subseteq Requests
  /\ revoked \subseteq Requests
  /\ outcome \in [Requests -> {"none", "spoken", "cancelled", "failed"}]

\* The constructor applies the document and warms the model before the worker
\* starts, so the first state is the one after it.
Init ==
  /\ ControllerInit
  /\ published \in Documents
  /\ defaultSpeed = published.speed
  /\ speed = defaultSpeed
  /\ draft = published
  /\ pending = <<>>
  /\ submitted = 0
  /\ publishes = 0
  /\ stopping = FALSE
  /\ eager = FALSE
  /\ tray = "idle"
  /\ worker = "wait"
  /\ current = None
  /\ snapshot = None
  /\ heard = {}
  /\ revoked = {}
  /\ outcome = [r \in Requests |-> "none"]

-----------------------------------------------------------------------------
(* Requests and commands of the tray and Local API threads.                *)

\* The tray thread can run a handler; the Local API thread always can until
\* its server is destroyed, which is before the queue's destructor runs.
TrayReady == tray = "idle"
ApiReady == tray # "quit"

\* The worker holds the queue mutex from taking a request until it has read the
\* configuration for it.
MutexFree == worker # "begun"

\* What a stop takes back: everything waiting and the request being spoken.
Outstanding == Elements(pending) \union ({current} \ {None})

SubmitInterrupt ==
  /\ ApiReady /\ MutexFree
  /\ submitted < MaxRequests
  /\ submitted' = submitted + 1
  /\ pending' = <<submitted + 1>>
  /\ StopPlayback
  /\ revoked' = revoked \union Outstanding
  /\ UNCHANGED <<stopping, eager, published, tray, draft, publishes, worker,
                 current, snapshot, heard, outcome>>

\* Queue a request: the waiting ones become the given sequence.
EnqueueAs(waiting) ==
  /\ TrayReady /\ MutexFree
  /\ submitted < MaxRequests
  /\ submitted' = submitted + 1
  /\ pending' = waiting
  /\ UNCHANGED <<controllerVars, stopping, eager, published, tray, draft,
                 publishes, worker, current, snapshot, historyVars>>

\* Mutant: the request is numbered too low.
SubmitEnqueueMisnumbered == EnqueueAs(Append(pending, submitted))

SubmitEnqueue == EnqueueAs(Append(pending, submitted + 1))

StopSpeech ==
  /\ ApiReady /\ MutexFree
  /\ pending' = <<>>
  /\ StopPlayback
  /\ revoked' = revoked \union Outstanding
  /\ UNCHANGED <<submitted, stopping, eager, published, tray, draft,
                 publishes, worker, current, snapshot, heard, outcome>>

Pause == ApiReady /\ PausePlayback /\ UNCHANGED <<queueVars, historyVars>>

Resume == ApiReady /\ ResumePlayback /\ UNCHANGED <<queueVars, historyVars>>

ChangeSpeed(s) ==
  /\ TrayReady
  /\ generation < MaxGeneration
  /\ SetActiveSpeed(s)
  /\ UNCHANGED <<queueVars, historyVars>>

\* Mutant: Quit leaves the running utterance to end by itself.
QuitWithoutStop ==
  /\ TrayReady /\ MutexFree
  /\ tray' = "quit"
  /\ stopping' = TRUE
  /\ pending' = <<>>
  /\ revoked' = revoked \union Outstanding
  /\ UNCHANGED <<controllerVars, submitted, eager, published, draft, publishes,
                 worker, current, snapshot, heard, outcome>>

\* Quit leaves the tray's message loop, destroys the Local API server and
\* enters the queue's destructor, which then joins the worker.
Quit ==
  /\ TrayReady /\ MutexFree
  /\ tray' = "quit"
  /\ stopping' = TRUE
  /\ pending' = <<>>
  /\ StopPlayback
  /\ revoked' = revoked \union Outstanding
  /\ UNCHANGED <<submitted, eager, published, draft, publishes, worker,
                 current, snapshot, heard, outcome>>

-----------------------------------------------------------------------------
(* publish_config on the tray thread.                                      *)

\* apply_playback_settings: live settings reach the controller first.
ApplySettings(d) ==
  /\ TrayReady
  /\ publishes < MaxPublishes
  /\ publishes' = publishes + 1
  /\ draft' = d
  /\ tray' = "applied"
  /\ SetDefaultSpeed(d.speed)
  /\ UNCHANGED <<pending, submitted, stopping, eager, published, worker,
                 current, snapshot, historyVars>>

\* config_.publish swaps the snapshot pointer.
SwapSnapshot ==
  /\ tray = "applied"
  /\ published' = draft
  /\ tray' = IF draft.profiles # published.profiles THEN "swapped" ELSE "idle"
  /\ UNCHANGED <<controllerVars, pending, submitted, stopping, eager, draft,
                 publishes, worker, current, snapshot, historyVars>>

RequestWarm ==
  /\ tray = "swapped" /\ MutexFree
  /\ eager' = TRUE
  /\ tray' = "idle"
  /\ UNCHANGED <<controllerVars, pending, submitted, stopping, published,
                 draft, publishes, worker, current, snapshot, historyVars>>

-----------------------------------------------------------------------------
(* The worker thread.                                                      *)

\* Take the oldest request and begin it.
TakeRequest ==
  /\ worker = "wait" /\ ~stopping /\ pending # <<>>
  /\ worker' = "begun"
  /\ current' = Head(pending)
  /\ pending' = Tail(pending)
  /\ Begin(Head(pending))
  /\ UNCHANGED <<submitted, stopping, eager, published, tray, draft,
                 publishes, snapshot, historyVars>>

\* Read the configuration for the request and release the mutex.
TakeSnapshot ==
  /\ worker = "begun"
  /\ worker' = "speak"
  /\ snapshot' = published
  /\ UNCHANGED <<controllerVars, pending, submitted, stopping, eager,
                 published, tray, draft, publishes, current, historyVars>>

\* Mutant: the warm-up request is consumed without warming.
GoIdleForgetsWarm ==
  /\ worker = "wait" /\ ~stopping /\ pending = <<>>
  /\ worker' = "unload"
  /\ eager' = FALSE
  /\ snapshot' = published
  /\ UNCHANGED <<controllerVars, pending, submitted, stopping, published,
                 tray, draft, publishes, current, historyVars>>

\* Nothing is waiting: warm the eager model if a profile change asked for it,
\* then poll for an idle unload.  Both read one snapshot.
GoIdle ==
  /\ worker = "wait" /\ ~stopping /\ pending = <<>>
  /\ worker' = IF eager THEN "warm" ELSE "unload"
  /\ eager' = FALSE
  /\ snapshot' = published
  /\ UNCHANGED <<controllerVars, pending, submitted, stopping, published,
                 tray, draft, publishes, current, historyVars>>

\* warm() ends by itself: the model is loaded, or the failure is reported.
WarmEnds ==
  /\ worker = "warm"
  /\ worker' = "unload"
  /\ UNCHANGED <<controllerVars, pending, submitted, stopping, eager,
                 published, tray, draft, publishes, current, snapshot, historyVars>>

\* Mutant: the cancel predicate looks at stopping_ alone.
WarmCancelledByQuitOnly ==
  /\ worker = "warm"
  /\ stopping
  /\ worker' = "unload"
  /\ UNCHANGED <<controllerVars, pending, submitted, stopping, eager,
                 published, tray, draft, publishes, current, snapshot, historyVars>>

\* warm() observes its cancel predicate and throws RunnerCancelled.
WarmCancelled ==
  /\ worker = "warm"
  /\ stopping \/ pending # <<>>
  /\ worker' = "unload"
  /\ UNCHANGED <<controllerVars, pending, submitted, stopping, eager,
                 published, tray, draft, publishes, current, snapshot, historyVars>>

UnloadIfIdle ==
  /\ worker = "unload"
  /\ worker' = "wait"
  /\ snapshot' = None
  /\ UNCHANGED <<controllerVars, pending, submitted, stopping, eager,
                 published, tray, draft, publishes, current, historyVars>>

\* The engine starts a sentence synthesized at the current speed generation.
StartSentence ==
  /\ worker = "speak"
  /\ PrepareSentence(current, generation)
  /\ heard' = heard \union {current}
  /\ UNCHANGED <<queueVars, revoked, outcome>>

\* speak() returns: everything was played.  A stop or a pause may still slip
\* in between the engine's last look at its token and the return.
SpeakReturns ==
  /\ worker = "speak"
  /\ current \in heard
  /\ worker' = "finish"
  /\ outcome' = [outcome EXCEPT ![current] = "spoken"]
  /\ UNCHANGED <<controllerVars, pending, submitted, stopping, eager,
                 published, tray, draft, publishes, current, snapshot, heard, revoked>>

\* speak() throws RunnerCancelled, which the worker swallows.
SpeakCancelled ==
  /\ worker = "speak"
  /\ current \in cancelled
  /\ worker' = "finish"
  /\ outcome' = [outcome EXCEPT ![current] = "cancelled"]
  /\ UNCHANGED <<controllerVars, pending, submitted, stopping, eager,
                 published, tray, draft, publishes, current, snapshot, heard, revoked>>

\* A failing pipeline cancels the token so that its own threads can be joined,
\* and lets the original error propagate.
EngineAborts ==
  /\ worker = "speak"
  /\ worker' = "aborting"
  /\ CancelToken(current)
  /\ UNCHANGED <<pending, submitted, stopping, eager, published, tray, draft,
                 publishes, current, snapshot, historyVars>>

\* speak() throws any other error.
SpeakFails ==
  /\ worker \in {"speak", "aborting"}
  /\ worker' = "finish"
  /\ Fail(current)
  /\ outcome' = [outcome EXCEPT ![current] = "failed"]
  /\ UNCHANGED <<pending, submitted, stopping, eager, published, tray, draft,
                 publishes, current, snapshot, heard, revoked>>

FinishRequest ==
  /\ worker = "finish"
  /\ worker' = "wait"
  /\ Finish(current)
  /\ current' = None
  /\ snapshot' = None
  /\ UNCHANGED <<pending, submitted, stopping, eager, published, tray, draft,
                 publishes, historyVars>>

\* run() returns and the destructor's join completes.
WorkerExits ==
  /\ worker = "wait" /\ stopping
  /\ worker' = "exited"
  /\ UNCHANGED <<controllerVars, pending, submitted, stopping, eager,
                 published, tray, draft, publishes, current, snapshot, historyVars>>

-----------------------------------------------------------------------------

Publish ==
  \/ \E d \in Documents : ApplySettings(d)
  \/ SwapSnapshot
  \/ RequestWarm

Clients ==
  \/ SubmitInterrupt
  \/ SubmitEnqueue
  \/ StopSpeech
  \/ Pause
  \/ Resume
  \/ \E s \in Speeds : ChangeSpeed(s)
  \/ Quit

Worker ==
  \/ TakeRequest
  \/ TakeSnapshot
  \/ GoIdle
  \/ WarmEnds
  \/ WarmCancelled
  \/ UnloadIfIdle
  \/ StartSentence
  \/ SpeakReturns
  \/ SpeakCancelled
  \/ EngineAborts
  \/ SpeakFails
  \/ FinishRequest
  \/ WorkerExits

Next == Clients \/ Publish \/ Worker

Spec == Init /\ [][Next]_vars

\* The worker thread and the tray thread keep running, every wait inside the
\* engine has a deadline or observes its token, and playback has an end unless
\* it is paused.  Warming is not assumed to end by itself: a load may take
\* minutes.  Users owe nothing.
Fairness ==
  /\ WF_vars(TakeRequest)
  /\ WF_vars(TakeSnapshot)
  /\ WF_vars(GoIdle)
  /\ WF_vars(WarmCancelled)
  /\ WF_vars(UnloadIfIdle)
  /\ WF_vars(StartSentence /\ current \notin heard)
  /\ WF_vars(SpeakReturns /\ current \notin paused)
  /\ WF_vars(SpeakCancelled)
  /\ WF_vars(SpeakFails /\ worker = "aborting")
  /\ WF_vars(FinishRequest)
  /\ WF_vars(WorkerExits)
  /\ WF_vars(SwapSnapshot)
  /\ WF_vars(RequestWarm)

FairSpec == Spec /\ Fairness

-----------------------------------------------------------------------------
(* Safety.                                                                 *)

\* A stop, an interrupting read or Quit is final: a request outstanding at
\* that moment is off the queue, and if the worker still holds it, its token
\* stays cancelled.  (submit, stop and ~SpeechQueue against the worker's pop
\* and begin.)
StopIsFinal ==
  \A r \in revoked : /\ r \notin Elements(pending)
                     /\ r = active => r \in cancelled

\* The published status never contradicts the worker: an utterance is active
\* exactly while the worker owns its token, and Idle or Error is shown exactly
\* when nothing is active.  (begin, finish and fail against run().)
StatusMatchesWorker ==
  /\ worker \in {"begun", "speak", "aborting"} => active = current
  /\ active # None => /\ active = current
                      /\ worker \in {"begun", "speak", "aborting", "finish"}
  /\ state \in {"Idle", "Error"} <=> active = None

\* The controller's state and the token's own pause flag, which are guarded by
\* different mutexes, agree: otherwise the window would show Playing while the
\* audio thread sleeps, or the reverse.  (pause, resume, begin, stop.)
PauseFlagMatchesState ==
  active # None => /\ state = "Paused" => active \in paused
                   /\ state \in {"Preparing", "Playing"} => active \notin paused

\* Requests are spoken in the order they were submitted: what waits is newer
\* than everything the worker ever took, and waits in order.
ServedInOrder ==
  /\ \A i, j \in 1 .. Len(pending) : i < j => pending[i] < pending[j]
  /\ \A r \in Elements(pending), t \in Requests :
       t = current \/ outcome[t] # "none" => t < r

\* Only a stop, an interrupt or Quit drops a request: any other one is
\* waiting, being spoken, or was spoken or reported as failed.  (The worker
\* swallows RunnerCancelled silently.)
OnlyStopsDropRequests ==
  \A r \in (1 .. submitted) \ revoked :
    \/ r \in Elements(pending)
    \/ r = current
    \/ outcome[r] \in {"spoken", "failed"}

\* What is promised about a request from its submission to its end: a stop is
\* final, the others are served in order, and none of them is lost.
RequestsAreKept == StopIsFinal /\ ServedInOrder /\ OnlyStopsDropRequests

\* What the windows and the Local API show of the worker and of the pause flag
\* is true, whichever thread wrote it last.
StatusIsTrue == StatusMatchesWorker /\ PauseFlagMatchesState

\* No request is first heard after it was discarded: "Two utterances never
\* play simultaneously" needs the replaced one to stay silent.
NoSoundAfterStop ==
  [][\A r \in heard' \ heard : r \notin revoked]_vars

\* An error stays on display until the next request begins; the failed
\* request's own finish() must not wipe it.
ErrorStaysUntilNextRead ==
  [][state = "Error" /\ state' # "Error" => active' # None /\ worker' = "begun"]_vars

-----------------------------------------------------------------------------
(* Liveness.                                                               *)

\* Once nobody pauses any more, every waiting request is taken or discarded, also
\* one that finds the worker warming a model: a read preempts the warm-up.
ReadsAreServed ==
  <>[](state # "Paused") =>
    \A r \in Requests : r \in Elements(pending) ~> r \notin Elements(pending)

\* A stop ends the utterance whatever the engine is doing, paused or not, and
\* Quit joins the worker, also from a paused read or a long warm-up.
StopsTakeEffect ==
  /\ state = "Stopping" ~> state # "Stopping"
  /\ stopping ~> worker = "exited"

\* A published profile change leads to a warm-up between utterances.
ProfileChangeWarms ==
  <>[](state # "Paused") => (eager ~> worker = "warm" \/ stopping)

-----------------------------------------------------------------------------
(* Refinement.                                                             *)

\* The request callers may still hear: begun and not cancelled.  A cancelled
\* utterance the worker is still winding down is already over for them.
Speaking == IF active # None /\ active \notin cancelled THEN active ELSE None

Service == INSTANCE SpeechService WITH
             accepted <- submitted,
             waiting <- pending,
             speaking <- Speaking,
             sounded <- heard

\* The queue with its threads implements the sequential service: a worker that
\* is late in noticing a cancellation can neither be heard nor let a second
\* utterance overlap.
ImplementsService == Service!Spec

=============================================================================
