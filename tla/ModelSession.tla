---------------------------- MODULE ModelSession ----------------------------
(***************************************************************************)
(* The one resident runner process of the Host and its users               *)
(* (src/src/model_session.cpp, src/src/recovering_runner.cpp and           *)
(* run_synthesis in src/src/main.cpp).                                     *)
(*                                                                         *)
(* The speech worker holds a lease, which is the operation mutex, for the  *)
(* length of a read or a warm-up; the Settings thread loads and unloads;   *)
(* the model task of Settings switches a package's files; both timers      *)
(* unload an idle runner.  All but the worker only try the mutex.          *)
(*                                                                         *)
(* A runner may refuse to load a model (RunnerLoadRejected), or break: die, *)
(* miss a deadline or answer nonsense (RunnerLaunchError and               *)
(* RunnerProtocolError).  A broken runner is restarted once for each       *)
(* chunk that was not played.  A runner that dies unobserved is one whose  *)
(* next request breaks.                                                    *)
(***************************************************************************)
EXTENDS Naturals

CONSTANTS
  Models,      \* installed model packages
  None,        \* no model
  MaxChunks,   \* bound on the chunks of a read
  MaxSwitches, \* bound on package switches, counted by the revisions
  MaxLoads     \* bound on loads from the Settings window

ASSUME ModelsAssumption == None \notin Models
ASSUME BoundsAssumption ==
  MaxChunks \in Nat /\ MaxSwitches \in Nat /\ MaxLoads \in Nat

VARIABLES
  owner,     \* who holds operation_mutex_
  resident,  \* selection_ of session_, or None
  live,      \* session_->loaded(): there is a runner session
  spent,     \* restart_spent_
  opened,    \* the revision of the files the runner has loaded
  status,    \* status_: the model shown as loaded, or None
  failures,  \* keys of load_failures_
  speech,    \* where the speech worker is
  job,       \* what for: a read or a warm-up
  wanted,    \* the model it selected
  fallback,  \* the model of the profile's fallback, or None
  retried,   \* prepare()'s `retried`, synthesize()'s `attempt` being 1
  chunks,    \* chunks left to synthesize
  cancelled, \* the worker's cancel predicate
  result,    \* how the lease ends
  ui,        \* where the Settings thread is in load()
  uiRetried, \* its prepare()'s `retried`
  loads,     \* how many loads Settings has started
  switching, \* the package being switched under replace_package, or None
  disk,      \* the revision of every package on disk
  restarts,  \* history: restarts since a chunk was last completed
  refused    \* history: models that were rejected during this job

runnerVars == <<resident, live, spent, opened, status, failures>>
speechVars == <<speech, job, wanted, fallback, retried, chunks, cancelled, result>>
uiVars == <<ui, uiRetried, loads>>
diskVars == <<switching, disk>>
historyVars == <<restarts, refused>>
vars == <<owner, runnerVars, speechVars, uiVars, diskVars, historyVars>>

OptionalModel == Models \union {None}

TypeOK ==
  /\ owner \in {"none", "speech", "ui", "task"}
  /\ resident \in OptionalModel
  /\ live \in BOOLEAN
  /\ spent \in BOOLEAN
  /\ opened \in 0 .. MaxSwitches
  /\ status \in OptionalModel
  /\ failures \subseteq Models
  /\ speech \in {"idle", "acquire", "prepare", "synth", "attempt", "release"}
  /\ job \in {"read", "warm"}
  /\ wanted \in OptionalModel
  /\ fallback \in OptionalModel
  /\ retried \in BOOLEAN
  /\ chunks \in 0 .. MaxChunks
  /\ cancelled \in BOOLEAN
  /\ result \in {"none", "done", "failed", "gaveUp", "cancelled", "rejected"}
  /\ ui \in {"idle", "prepare"}
  /\ uiRetried \in BOOLEAN
  /\ loads \in 0 .. MaxLoads
  /\ switching \in OptionalModel
  /\ disk \in [Models -> 0 .. MaxSwitches]
  /\ restarts \in Nat
  /\ refused \subseteq Models

Init ==
  /\ owner = "none"
  /\ resident = None /\ live = FALSE /\ spent = FALSE /\ opened = 0
  /\ status = None /\ failures = {}
  /\ speech = "idle" /\ job = "read" /\ wanted = None /\ fallback = None
  /\ retried = FALSE /\ chunks = 0 /\ cancelled = FALSE /\ result = "none"
  /\ ui = "idle" /\ uiRetried = FALSE /\ loads = 0
  /\ switching = None /\ disk = [m \in Models |-> 0]
  /\ restarts = 0 /\ refused = {}

-----------------------------------------------------------------------------
(* Effects on the runner, whoever holds the mutex.                         *)

\* unload_locked()
Unloaded ==
  /\ resident' = None /\ live' = FALSE /\ spent' = FALSE /\ opened' = 0
  /\ status' = None
  /\ UNCHANGED failures

\* select_locked() when it replaces the resident runner.
Replaced(m) ==
  /\ resident' = m /\ live' = FALSE /\ spent' = FALSE /\ opened' = 0
  /\ status' = None
  /\ UNCHANGED failures

\* start() succeeds.
Started ==
  /\ live' = TRUE
  /\ opened' = disk[resident]
  /\ status' = resident
  /\ failures' = failures \ {resident}
  /\ UNCHANGED <<resident, spent>>

\* start() ends with a rejected load, and the session is dropped.
Rejected ==
  /\ live' = FALSE /\ opened' = 0 /\ status' = None
  /\ failures' = failures \union {resident}
  /\ UNCHANGED <<resident, spent>>

\* Mutant: the state callback is not called.
DroppedQuietly(spend) ==
  /\ live' = FALSE /\ opened' = 0
  /\ spent' = (spent \/ spend)
  /\ UNCHANGED <<resident, status, failures>>

\* drop_session(), and the restart that prepare() notes down afterwards.
Dropped(spend) ==
  /\ live' = FALSE /\ opened' = 0 /\ status' = None
  /\ spent' = (spent \/ spend)
  /\ UNCHANGED <<resident, failures>>

-----------------------------------------------------------------------------
(* The speech worker: choosing, leasing and releasing.                     *)

\* A read or a warm-up resolves its model.  A fallback profile that names the
\* model that was refused is left out.
BeginJob(kind, m, f, n) ==
  /\ speech = "idle"
  /\ speech' = "acquire"
  /\ job' = kind
  /\ wanted' = m
  /\ fallback' = f
  /\ chunks' = n
  /\ cancelled' = FALSE
  /\ result' = "none"
  /\ restarts' = 0
  /\ refused' = {}
  /\ UNCHANGED <<owner, runnerVars, retried, uiVars, diskVars>>

\* acquire() waits for the mutex without looking at the token.
Acquire ==
  /\ speech = "acquire" /\ owner = "none"
  /\ owner' = "speech"
  /\ speech' = "prepare"
  /\ retried' = FALSE
  /\ IF resident = wanted THEN UNCHANGED runnerVars ELSE Replaced(wanted)
  /\ UNCHANGED <<job, wanted, fallback, chunks, cancelled, result, uiVars,
                 diskVars, historyVars>>

\* A stop, an interrupting read, or for a warm-up any read.
Cancel ==
  /\ speech # "idle" /\ ~cancelled
  /\ cancelled' = TRUE
  /\ UNCHANGED <<owner, runnerVars, speech, job, wanted, fallback, retried,
                 chunks, result, uiVars, diskVars, historyVars>>

EndLease(how) ==
  /\ speech' = "release"
  /\ result' = how
  /\ UNCHANGED <<owner, job, wanted, fallback, chunks, cancelled, uiVars, diskVars>>

\* ~Lease publishes the status once more.  A rejected load of a read is
\* followed by the fallback, unless that cannot be resolved either.
Release ==
  /\ speech = "release"
  /\ owner' = "none"
  /\ status' = IF live THEN resident ELSE None
  /\ \/ speech' = "idle" /\ UNCHANGED <<wanted, fallback, result, restarts>>
     \/ /\ result = "rejected" /\ job = "read" /\ fallback # None
        /\ speech' = "acquire"
        /\ wanted' = fallback
        /\ fallback' = None
        /\ result' = "none"
        /\ restarts' = 0
  /\ UNCHANGED <<resident, live, spent, opened, failures, job, retried, chunks,
                 cancelled, uiVars, diskVars, refused>>

-----------------------------------------------------------------------------
(* The speech worker: prepare().                                           *)

Prepared == IF job = "warm" THEN EndLease("done")
            ELSE /\ speech' = "synth"
                 /\ UNCHANGED <<owner, job, wanted, fallback, chunks,
                                cancelled, result, uiVars, diskVars>>

PrepareLoaded ==
  /\ speech = "prepare" /\ live
  /\ Prepared
  /\ UNCHANGED <<runnerVars, retried, historyVars>>

PrepareStarts ==
  /\ speech = "prepare" /\ ~live
  /\ Started
  /\ Prepared
  /\ UNCHANGED <<retried, historyVars>>

PrepareRejected ==
  /\ speech = "prepare" /\ ~live
  /\ Rejected
  /\ EndLease("rejected")
  /\ refused' = refused \union {resident}
  /\ UNCHANGED <<retried, restarts>>

PrepareCancelled ==
  /\ speech = "prepare" /\ ~live /\ cancelled
  /\ Dropped(FALSE)
  /\ EndLease("cancelled")
  /\ UNCHANGED <<retried, historyVars>>

\* What recover_or_throw() decides when the runner breaks: give up, or restart
\* once, noting the restart down if this is prepare().
Recover(givingUp, spend) ==
  \/ /\ cancelled
     /\ Dropped(FALSE)
     /\ EndLease("cancelled")
     /\ UNCHANGED <<retried, historyVars>>
  \/ /\ ~cancelled /\ retried
     /\ Dropped(FALSE)
     /\ EndLease(givingUp)
     /\ UNCHANGED <<retried, historyVars>>
  \/ /\ ~cancelled /\ ~retried
     /\ Dropped(spend)
     /\ retried' = TRUE
     /\ restarts' = restarts + 1
     /\ UNCHANGED <<owner, speech, job, wanted, fallback, chunks, cancelled,
                    result, uiVars, diskVars, refused>>

PrepareBreaks == speech = "prepare" /\ ~live /\ Recover("failed", TRUE)

-----------------------------------------------------------------------------
(* The speech worker: synthesize().                                        *)

\* Mutant: every chunk gets a restart although its start has used one.
BeginChunkAfresh ==
  /\ speech = "synth" /\ chunks > 0
  /\ speech' = "attempt"
  /\ retried' = FALSE
  /\ spent' = FALSE
  /\ UNCHANGED <<owner, resident, live, opened, status, failures, job, wanted,
                 fallback, chunks, cancelled, result, uiVars, diskVars, historyVars>>

\* Mutant: one chunk too many.
BeginChunkPastEnd ==
  /\ speech = "synth"
  /\ speech' = "attempt"
  /\ retried' = spent
  /\ spent' = FALSE
  /\ UNCHANGED <<owner, resident, live, opened, status, failures, job, wanted,
                 fallback, chunks, cancelled, result, uiVars, diskVars, historyVars>>

BeginChunk ==
  /\ speech = "synth" /\ chunks > 0
  /\ speech' = "attempt"
  /\ retried' = spent
  /\ spent' = FALSE
  /\ UNCHANGED <<owner, resident, live, opened, status, failures, job, wanted,
                 fallback, chunks, cancelled, result, uiVars, diskVars, historyVars>>

\* The pipeline ends between two chunks: after the last one, or because it was
\* stopped or failed elsewhere.
ReadEnds ==
  /\ speech = "synth"
  /\ \/ chunks = 0 /\ EndLease("done")
     \/ cancelled /\ EndLease("cancelled")
     \/ EndLease("failed")
  /\ UNCHANGED <<runnerVars, retried, historyVars>>

ChunkCancelled ==
  /\ speech = "attempt" /\ cancelled
  /\ Dropped(FALSE)
  /\ EndLease("cancelled")
  /\ UNCHANGED <<retried, historyVars>>

ChunkRestarts ==
  /\ speech = "attempt" /\ ~live
  /\ Started
  /\ UNCHANGED <<owner, speechVars, uiVars, diskVars, historyVars>>

\* A restarted runner refuses its model: too late for the fallback.
ChunkRestartRejected ==
  /\ speech = "attempt" /\ ~live
  /\ Rejected
  /\ EndLease("failed")
  /\ refused' = refused \union {resident}
  /\ UNCHANGED <<retried, restarts>>

\* Mutant: the loop of synthesize() does not count its attempts.
ChunkBreaksUncounted ==
  /\ speech = "attempt"
  /\ Dropped(FALSE)
  /\ UNCHANGED <<owner, speechVars, uiVars, diskVars, historyVars>>

ChunkBreaks == speech = "attempt" /\ Recover("gaveUp", FALSE)

\* The runner refuses the request (RunnerRequestError) and stays loaded.
ChunkRefused ==
  /\ speech = "attempt" /\ live
  /\ EndLease("failed")
  /\ UNCHANGED <<runnerVars, retried, historyVars>>

ChunkDone ==
  /\ speech = "attempt" /\ live
  /\ speech' = "synth"
  /\ chunks' = chunks - 1
  /\ restarts' = 0
  /\ UNCHANGED <<owner, runnerVars, job, wanted, fallback, retried, cancelled,
                 result, uiVars, diskVars, refused>>

-----------------------------------------------------------------------------
(* The Settings thread, its model task, and the idle timers.               *)

\* load() refuses when the mutex is taken, and always starts afresh.
UiLoad(m) ==
  /\ ui = "idle" /\ owner = "none" /\ loads < MaxLoads
  /\ ui' = "prepare"
  /\ uiRetried' = FALSE
  /\ loads' = loads + 1
  /\ owner' = "ui"
  /\ Replaced(m)
  /\ UNCHANGED <<speechVars, diskVars, historyVars>>

UiDone ==
  /\ ui' = "idle"
  /\ owner' = "none"
  /\ UNCHANGED <<uiRetried, loads, speechVars, diskVars, historyVars>>

UiLoaded == ui = "prepare" /\ Started /\ UiDone

UiRejected ==
  /\ ui = "prepare"
  /\ failures' = failures \union {resident}
  /\ resident' = None /\ live' = FALSE /\ spent' = FALSE /\ opened' = 0
  /\ status' = None
  /\ UiDone

UiBreaks ==
  /\ ui = "prepare"
  /\ \/ uiRetried /\ Unloaded /\ UiDone
     \/ /\ ~uiRetried
        /\ Dropped(TRUE)
        /\ uiRetried' = TRUE
        /\ UNCHANGED <<owner, ui, loads, speechVars, diskVars, historyVars>>

\* unload() from Settings, and unload_if_idle() of the worker and of the
\* Settings timer once the idle time has passed.
Unload ==
  /\ owner = "none" /\ resident # None
  /\ Unloaded
  /\ UNCHANGED <<owner, speechVars, uiVars, diskVars, historyVars>>

\* Mutant: the resident runner is left running.
ReplacePackageUnderRunner(m) ==
  /\ owner = "none" /\ disk[m] < MaxSwitches
  /\ owner' = "task"
  /\ switching' = m
  /\ UNCHANGED <<runnerVars, speechVars, uiVars, disk, historyVars>>

\* replace_package() releases a runner of the model, then moves folders.
ReplacePackage(m) ==
  /\ owner = "none" /\ disk[m] < MaxSwitches
  /\ owner' = "task"
  /\ switching' = m
  /\ IF resident = m THEN Unloaded ELSE UNCHANGED runnerVars
  /\ UNCHANGED <<speechVars, uiVars, disk, historyVars>>

PackageSwitched ==
  /\ switching # None
  /\ owner' = "none"
  /\ switching' = None
  /\ \/ disk' = [disk EXCEPT ![switching] = @ + 1]
     \/ UNCHANGED disk
  /\ UNCHANGED <<runnerVars, speechVars, uiVars, historyVars>>

-----------------------------------------------------------------------------

SpeechStep ==
  \/ Acquire \/ Release
  \/ PrepareLoaded \/ PrepareStarts \/ PrepareRejected \/ PrepareCancelled \/ PrepareBreaks
  \/ BeginChunk \/ ReadEnds
  \/ ChunkCancelled \/ ChunkRestarts \/ ChunkRestartRejected \/ ChunkBreaks
  \/ ChunkRefused \/ ChunkDone

UiStep == UiLoaded \/ UiRejected \/ UiBreaks

Next ==
  \/ \E m \in Models, f \in OptionalModel, n \in 1 .. MaxChunks :
       f # m /\ BeginJob("read", m, f, n)
  \/ \E m \in Models : BeginJob("warm", m, None, 0)
  \/ Cancel
  \/ SpeechStep
  \/ \E m \in Models : UiLoad(m)
  \/ UiStep
  \/ Unload
  \/ \E m \in Models : ReplacePackage(m)
  \/ PackageSwitched

Spec == Init /\ [][Next]_vars

\* Every request to a runner has a deadline, and folder moves end.  The worker,
\* blocked in lock(), gets the mutex some time although others take it now and
\* then: they only try it, and a user is behind each of those attempts.
Fairness ==
  /\ WF_vars(SpeechStep)
  /\ SF_vars(Acquire)
  /\ WF_vars(UiStep)
  /\ WF_vars(PackageSwitched)

FairSpec == Spec /\ Fairness

-----------------------------------------------------------------------------
(* Properties.                                                             *)

\* What the Host shows as loaded is loaded, and outside of an operation what
\* is loaded is shown.  (The status has its own mutex and is published from
\* callbacks, the lease's destructor and unload.)
StatusIsHonest ==
  /\ status # None => live /\ status = resident
  /\ owner = "none" /\ live => status = resident

\* A runner never outlives the files it loaded: none is loaded from a package
\* that is being switched, and a loaded one has read the current revision.
NoStaleFiles ==
  live => resident # switching /\ opened = disk[resident]

\* One operation at a time uses the runner and the package folders.
OneOwner ==
  /\ owner = "ui" <=> ui = "prepare"
  /\ owner = "task" <=> switching # None
  /\ owner = "speech" <=> speech \notin {"idle", "acquire"}

\* A model is shown as unavailable only until a load of it succeeds.
LoadedIsAvailable == live => resident \notin failures

\* "one restart per unplayed chunk", counting the one its start has used.
OneRestartPerChunk == restarts <= 1

\* "The Host neither restarts nor retries" a rejected load: within a read, the
\* rejected model is not started again.
RejectedIsNotRetried ==
  speech \in {"prepare", "synth", "attempt"} => resident \notin refused

\* "If a runner dies mid-synthesis, the host restarts it and retries the failed
\* chunk exactly once, then fails the request" (ADR 0002): a read never gives
\* up on a chunk without having restarted a runner for it.
ChunkIsRetried == [][result' = "gaveUp" /\ result # "gaveUp" => restarts > 0]_vars

\* The window shows the model that is loaded, and not as one that failed.
ShownIsWhatIsLoaded == StatusIsHonest /\ LoadedIsAvailable

\* A broken model is restarted once for each chunk, and one that refused to load
\* is not tried again.
RestartsAreRationed == OneRestartPerChunk /\ RejectedIsNotRetried

\* Every read and every warm-up ends, whatever runners do.
JobsEnd == speech # "idle" ~> speech = "idle"

=============================================================================
