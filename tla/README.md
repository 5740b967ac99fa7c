# TLA+ specifications of tts-host

tts-host is a Windows tray application that reads text aloud: text comes from a
selection capture, the clipboard, the command line or a local HTTP API, one worker
thread speaks it with a model that runs in a child process, and the user stops,
pauses, seeks and changes speed meanwhile. Models are downloaded, updated and repaired
from a Settings window. This directory holds TLA+ models of the program, the TLC
runs that check them, and proofs of what matters most for every size of instance.
`src/...` below are paths of the repository.

## Inventory

| Component | State it keeps | Operations | Hard because |
|---|---|---|---|
| Speech queue (`src/speech_queue.cpp`) | pending requests, stopping and eager flags, worker thread | submit, stop, publish_config, the worker loop, destructor | tray, Local API and worker threads interleave; the worker lags behind a stop |
| Playback controller and token (`src/playback_controller.cpp`) | active token, state, default and active speed, speed generation; per token: cancelled, paused, seek generation and target | begin, prepare_sentence, finish, fail, pause, resume, stop, speed, seek | called from four threads; two mutexes and atomics |
| Configuration snapshot (`src/config_snapshot.cpp`) | pointer to an immutable document | publish, current, apply_playback_settings | live settings and the snapshot are published separately |
| Synthesis pipeline (`src/synthesis_pipeline.cpp`, `lookahead.hpp`) | retained sentences, playback thread, request in flight | synthesize ahead, play, seek, discard on speed change, drain, unwind | four threads; state read before a wait and used after it |
| Playback sink (`src/playback_sink.cpp`) | endpoint client, queued frames, segment | play_from, drain, open, flush, position | endpoints vanish and move while one stream plays all sentences |
| Audio history (`src/audio_history.cpp`) | cache and spool file | append, read, clean up | a failed append; offsets in an append-only file |
| Model session and recovering runner (`src/model_session.cpp`, `src/recovering_runner.cpp`) | resident runner, its selection, load failures, spent restart | acquire, warm, load, unload, replace, idle unload; prepare, synthesize, unload | speech and Settings compete; one retry per chunk |
| Runner launcher and protocol (`src/runner_launcher.cpp`, `src/runner_protocol.cpp`) | process, three pipes, two parsers, pending replies | start, request, synthesize with an audio thread, finish | pipes split messages anywhere; deadlines, cancellation and the end of a process race |
| Runner processes (`src/kokoro_runner_main.cpp`, `src/qwen_runner_main.cpp`, `src/stub_runner_main.cpp`) | loaded model | initialize, load, synthesize, unload, stats | reply before the audio or after it |
| Model maintenance (`src/model_update.cpp`) | package folders, staging, journals, previous versions | update, revert, delete previous, remove, verify, repair, recover at start | crash between two renames, failing renames |
| Download and import (`src/catalogue_download.cpp`, `src/model_import.cpp`) | staging folders | resume, verify, stage, import | partial files of other revisions, bad servers, full disks |
| Registry and model list (`src/model_registry.cpp`, `src/model_list.cpp`) | a scan, the rows | precedence of copies, damaged copies, remedies, rescan | shadowing of ids across tiers, partial comparison |
| Profiles and language (`src/profile_resolution.cpp`, `src/language_selection.cpp`) | none | selection, fallback | fallbacks that name each other or are gone |
| Configuration watch, save, load (`src/config_watch.cpp`, `src/config_persistence.cpp`, `src/config_loader.cpp`) | file stamps, the document | poll, judge, save with a valid copy, start | half-written files, failing steps, crash while saving |
| Settings window (`src/settings_window.cpp`) | document, background task, boxes | save, model commands, task, directory watch, close | a thread under a window that may be closed or quit |
| Tray and selection capture (`src/tray_icon.cpp`, `selection_hotkey_state.hpp`) | capture generation, timer, worker flag, shortcut | capture, complete, time out, rebind, reload, Quit | late results; message loops nested in one another |
| Command line (`src/config_loader.cpp`, `src/main.cpp`) | none | parse, dispatch | eighteen flags in combination |
| Text (`src/text_normalizer.cpp`, `src/text_splitter.cpp`, `src/kokoro_batching.cpp`) | none | normalize Markdown and HTML, split, batch | one index advanced at many places |
| Time stretch (`src/time_stretch.cpp`) | input and output windows | push, finish | any split of the input must give the same output |
| Local API (`src/local_api_server.cpp`) | connections | speak, pause, resume, stop, status | its own thread |

Interaction: the tray and Local API threads call `SpeechQueue` and the
`PlaybackController`; the queue's worker calls `HostSpeechEngine::speak`
(`src/main.cpp`), which leases a runner from the model session manager and runs
the synthesis pipeline; the pipeline starts sentences through the controller, keeps
their audio in the history and plays it on a thread of its own through one endpoint
stream; the recovering runner talks to its process through the runner launcher.
Settings loads, unloads and replaces packages through the model session manager,
runs maintenance and downloads in a background task, writes the configuration file
the tray polls, and publishes configurations to the queue.

What makes each part correct, and where it could go wrong, is listed line by
line under `hazards` in `PROJECT.json`; the status of each part, and what is left out
of it, under `components`.

## Modules

| Module | Models | Extends or instantiates |
|---|---|---|
| `PlaybackController` | the controller's state and the effect of each of its operations, as operators without a thread | |
| `SpeechQueue` | the queue, its worker, the configuration snapshot and the controller's users | EXTENDS `PlaybackController`; `Service == INSTANCE SpeechService WITH ...` |
| `SpeechService` | what the queue promises its callers, with no threads, tokens or locks | |
| `SynthesisPipeline` | one spoken utterance: coordinator, synthesis task, playback thread, user | EXTENDS `PlaybackController` |
| `PlaybackStream` | the endpoint stream of one utterance: calls of the playback thread, the endpoint, Windows, the user | |
| `AudioHistory` | the spool file, its cache, failed appends | |
| `ModelSession` | the one resident runner and the five places that want it | |
| `RunnerContract` | the endings of a call to a runner, those `ModelSession` lets a call have | |
| `RunnerSession` | a runner process, three pipes, two Host threads, deadline and cancellation | `Contract == INSTANCE RunnerContract WITH ...` |
| `ModelUpdate` | the folders of one model id on disk, every operation on them, crashes and recovery | |
| `PackageDelivery` | a package on its way in: staging by download or import | |
| `ConfigFile` | the configuration file between the Host, an editor and a crash | |
| `SettingsWindow` | Settings: saves, the background task, boxes, the directory watch, closing | EXTENDS `ConfigFile` |
| `TrayIcon` | the tray's window procedure, its capture workers and nested loops | |
| `TextNormalizer`, `SpokenText` | what of a text is read and where it is cut; every short text | `SpokenText` EXTENDS `TextNormalizer` |
| `TimeStretch` | the windows of the streaming stretcher | |
| `ModelRegistry` | which copy of a model is used, listed and offered what | |
| `SpeechSelection` | which model speaks a text, and what happens when it does not load | |
| `CommandLine` | which flags are accepted together and what they do | |
| `MCSynthesisPipeline` | the first speed of its runs fixed | EXTENDS `SynthesisPipeline` |
| `MCReading` | what a read needs below the queue: an utterance's threads, or the session it leases; a behaviour exercises one | EXTENDS `ModelSession`; `Pipeline == INSTANCE SynthesisPipeline WITH ...` |
| `MCParts` | seven of the modules above side by side: a behaviour exercises one of them | EXTENDS them |
| `SpeechQueueProofs`, `ModelSessionProofs`, `RunnerSessionProofs`, `SynthesisPipelineProofs`, `ModelUpdateProofs`, `SettingsWindowProofs`, `TrayIconProofs` | theorems | the module they are about, TLAPS |
| `PartsProofs` | theorems about five of the machines of `MCParts` | EXTENDS `ModelRegistry`, `SpeechSelection`, `AudioHistory`, `PackageDelivery`, `PlaybackStream`, TLAPS |

**PlaybackController and SpeechQueue.** `state`, `active`, `cancelled`, `paused`,
`speed` and `generation` are the controller's members and its tokens' flags; every
controller operation holds the controller's mutex for its whole body, so it is
one step. `pending`, `stopping` and `eager` are the queue's members;
`SubmitInterrupt`, `SubmitEnqueue`, `StopSpeech` and `Quit` are one action each because
they run under the queue mutex. The worker's loop is cut where the mutex is released
or where state is read that another thread writes without it: `TakeRequest`,
`TakeSnapshot`, the steps of speaking, `FinishRequest`, `GoIdle`, warming, unloading.
`publish_config` is three actions (`ApplySettings`, `SwapSnapshot`, `RequestWarm`), since
it takes the queue mutex only for its last part. The engine behind `speak()` is known by
its seam only: it starts sentences and then returns, throws for its cancelled token, or
fails.

**SynthesisPipeline.** One action per group of statements between two reads of
shared state: the look for a pending seek, its application, the reads of the
speed and of its generation, the start and the collection of a request, the start
and the end of a playback thread. `retained`, `nextText`, `nextPlay` and `nextFrame` are
the coordinator's local variables. The sink is a thread that plays frame by frame or
drains.

**PlaybackStream.** The same sink from the inside. `call` is the call under way and its
place in `play_from` or `drain` (a drain inside `play_from` is `op = "reopen"`); `client`,
`generation` and `segment` are the stream's members, `buffer` the frames the endpoint has
yet to play. A frame stands for its length in `Ticks`, so that sentences and endpoints may
have different rates and the rounding of `convert_frame_position` counts. An endpoint may be
lost at any moment, which the code notices only in its next call to it, and the system default may
move. `due` follows what was played, or was queued on an endpoint when it was lost. What is
heard next may lie a little before `due`: the position of a lost endpoint is rounded down to a
source frame and that to a frame of the next endpoint, so each further loss goes back by at
most one of both (`Drift`), and no further than the start of the sentence (`WithinSentence`).

**AudioHistory.** The n-th sample of the utterance is written as n; `spool`, `cache` and `size`
are the members, `retained` the pipeline's ranges.

**ModelSession.** `owner` is the operation mutex: the worker blocks for it, all
others try it. `resident`, `live` and `opened` are the selection, the runner and the
revision of the files it loaded, `disk` the revisions in the package folders,
`status` is what is published under a mutex of its own, `spent` and `retried` are
`restart_spent_` and the loop flag of `RecoveringRunner::synthesize`. How a call to the
runner can end is `RunnerContract`'s, which `RunnerSession` is shown to implement.

**RunnerSession.** A message is a header piece and a body piece in a pipe of bounded capacity; a
read takes any number of pieces, so the parsers see every split. `host` is the calling thread in
`ProcessRunnerSession`, `reader` the audio thread of a synthesis, `proc` the process. When `faulty`,
the process may die, hang, babble or answer with errors, the deadline may pass and the user cancel,
at any moment. A process that does not end in time is killed and waited for a second time, a bounded
time too, whose outcome the code ignores (`src/runner_launcher.cpp:436-453`): `killed` is a process
of which nothing more is known, and nothing is claimed. The refinement maps a call to
`RunnerContract`'s, with its liveness.

**ModelUpdate.** `disk` maps each path to the folder found there, with the
revision in its manifest and the state of each of its files; a path's name says
what it is (`Staging` is `.<id>.downloading`, `Aside` is `.<name>.removing`,
`Discard` is `.<id>.damaged`, `Parking` is `.previous/.<id>.reverting`). `updating`
and `repairing` are the two journals. `pc` and `task` are the running operation's
program counter and locals. A rename, a journal write, a file moved by a repair and a
deletion are one step each and each may fail; a crash may follow any of them, and may cut the write
of a journal short, which leaves an empty one (`Unnamed`). An error of the disk that shows only when
a journal is closed is not modelled. The recovery ignores the errors of its own deletions
(`src/model_update.cpp:174,641`): `Sweep` and `DropDiscard` may leave the folder where it is, and the
start succeeds nevertheless. `former` is a history: the revision that was in use when the last
operation but a removal began.
`recover_interrupted_model_updates` decides what to do by looking at the disk, so
its actions are guarded by the disk alone, in the order of the code. Nobody reads
a folder that was moved aside to be deleted, so deleting one is a single step.
Staging is one step there; `PackageDelivery` models it.

**PackageDelivery.** A folder is a function from files to bytes; a file's bytes tell revisions
apart. A fetch is one step with every outcome (range honoured or not, cut short, another revision's
bytes, failed); a crash or cancellation may also come between steps. Between attempts the Host may
be replaced by one whose catalogue pins another revision, larger or smaller.

**ConfigFile and SettingsWindow.** A save is three steps (read, retained copy, replace), each
of which may fail and between which a crash or the editor may come; the poll and its
judgement are two, and the judgement may fail to read a valid file, which the code rejects like an
invalid one; `reported` is the version last reported so. The model task is the only other thread.
The folders are a counter of changes a rescan notices (which it notices is `ModelRegistry`'s subject):
the task changes them, also when its command fails half way and reports nothing, and so does another
program (`FoldersChange`). `watching` is the directory timer, which exists only when Settings was opened
with `watchForChanges` on (`src/settings_window.cpp:2020`).

**TrayIcon.** Everything but the capture workers runs on one thread, which re-enters itself:
`ui` is the stack of nested message loops, and a handler that opened one continues
when it returns, with what it had read before.

**Texts.** A line, an inline token, a tag or a phoneme is one symbol. The operators follow the
code's loops and return positions of the input; `SpokenText` states what a listener must and must
not hear.

## Runs

| Run | Question | Answer |
|---|---|---|
| `queue` | Are stops final, order kept, the shown state true; does the queue implement `SpeechService`; is every read served and every stop observed? | yes |
| `pipeline_safety` | Is the timeline gapless, heard audio kept, lookahead bounded; is every frame heard once and in order where nobody seeks? | yes |
| `pipeline_lost_seek` | Is every seek applied? | not always |
| `reading` | Is the shown model the loaded one, is a runner ever older than its files, are restarts bounded, does every job end; do all threads of an utterance come to rest after a stop, and does an utterance end? | as they should |
| `session_stale_restart` | Is the failed chunk of a read retried? | not always |
| `runner` | Is audio whole, do replies fit their requests, is the reported error the first one, is a sound runner never taken for broken, does every call end as `RunnerContract` says? | yes |
| `update` | Does a working package survive every operation, failure and crash; does a removed package stay away; can the version that was in use be gone back to; does the host start? | as they should |
| `update_damaged` | Is an interrupted update of a damaged package completed or undone? | no |
| `desktop` | Does each read get one answer, where it was asked for; is the shortcut what is shown; does Quit return? | yes |
| `settings` | Do the documents agree, does the file stay valid, is every edit applied or reported as rejected, the watched list current, the window's end orderly? | yes |
| `parts` | Seven modules on all their small inputs: is text read once, audio exact, a model chosen faithfully, a stream heard in order and to its end, the model list true, a package delivered exactly? | yes |
| `flags_ignored` | Does every accepted flag do something? | no |

### Bounds, and why they are enough

- Queue: two requests (one spoken, one that interrupts or joins), two speeds, two
  profiles, one published document; the proofs drop these bounds.
- Pipeline: four sentences and a lookahead of two: one heard, two ahead, and one that
  back-pressure must hold off. Two frames: a seek can point into a sentence or to its
  beginning. One seek and one speed change, at any moment. `reading` takes two sentences
  of one frame and a lookahead of one, which a graph with fairness can hold. The
  speed of the beginning is fixed in all of them, since speeds are only compared for equality.
- Session (in `reading`): the loaded model and another; the first chunk of a read, which may find a
  restart spent, and a later one. Switches (1) and loads (2) are unbounded in the proofs.
- Runner: pipes of two pieces, so that a writer blocks within one message; sentences of two
  frames; five requests: initialize, load, synthesize, synthesize again, unload.
- Maintenance: two assets (one broken, one good, so that a repair both keeps and replaces),
  two revisions, one crash, one failing file operation and one file damaged from outside in each
  behaviour, any number of operations and restarts. A deletion the recovery gives up on counts as the
  failing one. With two failing operations (a commit and its
  rollback) and a deletion of the previous version before the next start the user can delete what
  recovery would have needed. The folder is named after the model's id; see the hazards. Without a
  failing operation, the proofs drop these bounds.
- Desktop: two chords, two reads and two loops nested in the tray's own: one loop left by another's
  handler is the smallest case of each hazard.
- Settings: two valid documents, two writes, one change of the folders, any number of crashes and of
  reads that fail.
- Parts. Texts of four symbols (markdown, inline, HTML), six (sentences) and seven
  (phonemes): a construct with text around it, or two that meet or nest. Stretching: 24
  samples, a hop of three and a tolerance of two, five speeds. Registry: two ids in four
  folders of all three tiers and `.previous`. Selection: two profiles that fall back to each
  other, to themselves, to an unknown one or to none. Stream: three sentences (two of one format, so
  that one is queued behind the tail of another, and one of another format, before which the
  stream is drained), two endpoints of different rates, a buffer of two frames, one seek, two
  losses, whose rounding adds up, one move of the default, any number of pauses. Delivery: two revisions, the second with longer weights and
  without voices, three faults. History: a limit of four samples, three of them cached.
- Flags: any three; one ignored flag is enough for the finding.

Deadlock is checked for `reading`, where the session never stops and an utterance only when its threads
have ended, and for `update`, which never stops; the other models end with Quit,
with their utterance, request or window, or at a bound.

### Fairness

- `SpeechQueue`: weak fairness of the worker's own steps and of the steps that end a
  wait inside the engine: every wait there has a deadline or watches the token.
  Playback is fair only while not paused, and warming is not assumed to end by itself.
  Users owe nothing.
- `SynthesisPipeline` (stated in `MCReading`): weak fairness of the coordinator, the synthesis task and the
  playback thread, which are threads the scheduler runs.
- `ModelSession`: weak fairness of what the holder of the mutex does, strong fairness of
  `Acquire`: the worker waits in `lock()` while the others only `try_lock`, and behind
  each of those attempts is a user or a timer, so the mutex is free again and again.
- `RunnerSession`: weak fairness of the two Host threads, of the clock (`Expire`) and of the
  operating system ending a killed process; of the process only when it is not faulty.
- `ModelUpdate`: weak fairness of the recovery and of `Start`: who wants to use a host
  that did not start starts it again. Operations owe nothing.
- `TrayIcon`: weak fairness of the dispatch of posted messages and of the timer, and of a
  capture that has not hung. Nobody is assumed to dismiss a box.
- `SettingsWindow`: weak fairness of poll, judgement, save and the window's end; strong fairness of
  the message the task posts and of the directory timer, if there is one, both of which wait in the
  message queue while a box or another handler is in front. Other programs owe nothing; the task ends when it was cancelled or cannot be.

## Refinements

`SpeechQueue` implements `SpeechService` (`ImplementsService`; checked and proved): what callers see
is a sequential service, for all that a stop is seen late by the worker. `RunnerSession` implements
`RunnerContract` with its liveness (`ImplementsContract`; checked, and its safety proved): every
call ends, and its ending says whether a loaded runner is still there.

## Proofs

Each proof module holds for all values of the constants that satisfy the named assumptions
of the module it is about, and TLC evaluates those on every run: `NoneAssumption` and
`QueueAssumption`, `ModelsAssumption` and `BoundsAssumption`, `InstallsAssumption` and the like say that
bounds are natural numbers and that `None` is no utterance, model or document.
`SelectionAssumption` says that the profiles are none of the four names that stand for something
else, that a default names something, and that a text has finitely many letters.
`RunnerBounds` says that the engines are among the three there are, and that a sentence has a frame
and a pipe room for a piece at least.
`RegistryAssumption` says that the scanned directories are different ones and that a bundled package is
one of the catalogue's, with a revision: packaging a release fails otherwise (`README.md:380-381`).
`StreamBounds` says that there is a sentence and an endpoint, that every rate is positive and that no
sentence is empty: `play_from` returns at once for one that is (`src/playback_sink.cpp:231-233`).
`DeliveryBounds` says that a package pins finitely many files and at least one, and that none
of them is empty (`src/model_catalogue.cpp:255` rejects such an entry). TLC checked each inductive
invariant on a small instance before it was proved.

*SpeechQueue.* The checked invariants are not inductive one by one. `IInv` adds five
facts. `Untouched`: the controller knows nothing of a request the worker has not
taken, so `begin()` starts from a clean token; without it `StopIsFinal` breaks at
`TakeRequest`. `HoldsRequest`: the worker holds a request exactly where its
program counter says so. `CancelledByStop`, `KnownRequests` and
`FinishIsAccountedFor` relate cancelled tokens, request numbers and outcomes to
what was submitted and stopped. From `IInv` follow type correctness, `RequestsAreKept` and
`StatusIsTrue`, the two action properties (`NoSoundAfterStop`, `ErrorStaysUntilNextRead`),
and the refinement `QueueImplementsService`: initial states map to those of
`SpeechService` and every step to a step or a stutter of it.

*ModelSession.* `IInv` adds `Holding` (a leased job's model is the selected one, a
live runner has a selection, and `status` is the selection exactly while a runner
is live), `Refusals` (the model a job goes on with is not among those that refused
it) and `RestartBudget` (a restart that was used since the last completed chunk is
on record, as spent or as retried, where the next failure looks for it). The safety
properties follow.

*RunnerSession.* The Host never compares the id of a reply with the one it sent; replies and frames are
matched by arrival, over pipes that cut messages anywhere, so the properties hold only because of
where every half message is. `Inv` says so. `Asked`: what the Host has still to write, the pipe and
the runner's parser hold the one request, and everything on the way back is empty or begins with
junk. `Answered`: one of the answers there can be to it is cut, in order, into what the Host
received, its parser, the pipe, and what the runner has still to write, up to the first junk
(`Carries`); the reader of the audio is done exactly when the last frame was received. A session that
waits for its next request has nothing left of the last (`Exchange`). Four facts are about the
threads: `Calling` and `Waiting` (which request, process and reader exist at each place of the
calling thread), `Errs` (which of the two errors came first and whose it is) and `Sound` (without
faults there is no junk, deadline or error). `ExchangeIsClean` and `FailuresAreReal`
follow, and that every ending of a call is one of `RunnerContract`'s.

*SynthesisPipeline.* The coordinator services playback between any two of its statements, so what
it knew before need not hold after. `Timeline` (retained sentences are the text from its beginning,
each starting where the one before it ends), `Backpressure` (a request in flight has its
place reserved), `Resumable` (which statements may be resumed after playback was serviced),
`PlaysInOrder` and `HeardSoFar` (as long as nothing was sought, how the coordinator, the playback
thread and the listener agree on where the text is). `TimelineIsKept`, `HeardAudioStays` and
`NothingSkipped` follow; `NothingSkipped` needs all of them.

*PlaybackStream* (in *PartsProofs*). Frames of different sentences lie in one buffer, a call returns while they do, and a
lost endpoint is noticed later, or never, if nothing more is asked of it. `StreamInv` follows the
sound: `QueueInv` (what is queued continues `due`, and each piece the one before it), `OrderInv`
(what the call under way feeds next, or the next call will, continues what is queued, unless a seek
is about to take effect), `CallsInv` (what each place of a call knows of the client and of the
generation), `PauseInv` (while paused at most one buffer is played before the call sees it) and
`PositionInv`. Only what is fed into an empty buffer may have been rounded; the rounding is counted
in losses that the stream has noticed, and the arithmetic is that of `ConvertedDown` and
`ConvertedUp`: a conversion to frames and back loses less than one of each. `StreamIsHeard` follows.

*ModelUpdate.* Two invariants. `Base` holds whatever fails: the types, what each step of an operation
and of the recovery finds (`PlacesInv`), and that a removed package leaves nothing behind and no
operation under way that could bring it back (`RemovedInv`). `TypeCorrect` and `RemovedStays`
follow for all constants. `CrashInv` holds as long as no file operation has failed and the folder has its
model's name. `AtHome`: nothing is called by another name. `Journals`: at which steps which journal may
lie about, whole or empty. `WayIsFree`: the next rename finds nothing at its target. `StagedInv`: what the staging folder
is good for at each step. `RepairInv` and `UpdateInv`: what each journal still vouches for, wherever its
operation was cut: the two folders that make up the package, or the place of the version that worked
and of the one that replaces it. `PromiseInv`: without a journal, what worked is in its place or parked.
`WayInv`: where the revision is that was in use when the operation under way began, at each of its
steps and after a crash at any of them; in particular, that nothing else is ever parked.
`PackageOutlivesCrashes` and `WayBackSurvives` (with nothing left unfinished, the revision that was in use
when an update, a revert, a repair or a deletion of the previous version began is still in use or kept
whole as the one to revert to) follow, for any number of crashes, damaged files, revisions and assets. Both assumptions of these two are needed; see
below.

*SettingsWindow with ConfigFile.* The editor may write between two steps of a save, so `SaveKnows`
says what a save under way still knows of the file: what it read, and that what it is about to replace
is the retained copy. `Agreement` says which two documents agree at which place, `OwnFile` whose
file is on disk, `WindowOrder` in which order window, task and boxes end. `DocumentsAgree`, `FileIsSafe`
and the safety half of `WindowEndsInOrder` follow.

*TrayIcon.* A handler may run while an outer one waits in a loop of its own, so nothing is known
of the order of completions, deadlines and boxes. `CaptureInv` says that a capture exists once and
that only the latest may answer, and only while its deadline runs; `WindowInv` what each loop of the
stack remembers of the shortcut, and that Settings is in it once at most. `CapturesAnswerTheirReads` and
`ShortcutIsHonest` follow.

*PartsProofs* has four smaller machines as well. AudioHistory: everything up to `size` is in the spool as it was
generated and the cache is the beginning of it; a failed append leaves samples beyond `size`, after which
nothing is appended. SpeechSelection: which profile, name and language each place of the loop holds, and
what was tried before. PackageDelivery: for each file that was verified, that it is as pinned, for the
one under way, what its length and its beginning say, and that a file that cannot be completed is
removed within the attempt; `history` carries what was stale when the attempt began. ModelRegistry: the
invariant only says what a folder can hold, and the work is in the operators: of two first copies of a
model exactly one is in use, the order among damaged copies has a least one, and `Scan` puts every
folder on one of its four lists. `ListStaysTrue` is the invariants of `ListIsTrue`.

Only model-checked:

- everything under fairness (`ReadsAreServed`, `StopsTakeEffect`, `ProfileChangeWarms`, `UtteranceEnds`,
  `JobsEnd`, `StartsInTheEnd`, `EveryReadAnswered`, `QuitReturns`, `EditsAreAnswered`, `ListIsCurrent`, the
  liveness in `WindowEndsInOrder` and `ImplementsContract`), since the prover has no rule for `ENABLED`;
- what recursion over data computes: the texts of `SpokenText` (`TextIsReadOnce`) and the stretched samples
  in `AudioIsExact`;
- `ListFollowsModelsInUse`, the rest of `ListIsTrue`, which is not true of all folders: the rescan compares
  superseded and kept copies by path (`src/model_registry.cpp:483,492`), so a superseded copy whose
  manifest becomes another superseded model's is not noticed;
- `PackageSurvives` and `WayBackIsKept` where a file operation fails. The runs check them for one
  failing operation and one crash in a behaviour. They do not hold for all constants. With one failure
  and two crashes: a deletion of the previous version is cut short (`src/model_update.cpp:92`
  deletes it in place, file by file) and its folder stays without a manifest, so that no scan
  lists it and nothing drops it; a later update must rename the package to that very name (line 307) and is
  refused, and the removal of its journal (line 310) fails; a repair that a crash cuts short then has the
  next start complete that stale update and move the half-deleted folder into place. With two failures:
  a repair whose journal could not be removed and a package that is gone afterwards leave a journal
  that the next start keeps. Where the folder is not named after the id, crashes alone suffice.

## Findings

Each is shown by a run that checks one sentence of the documentation or of a comment,
quoted with its place under `findings` in `PROJECT.json`.

1. `pipeline_lost_seek`: a seek that arrives between the look for one and its application,
   as the playback thread ends, is marked as handled and then overwritten.
2. `session_stale_restart`: a restart made for a load or a warm-up counts against the first
   chunk of a later read.
3. `update_damaged`: the update of a damaged package writes no journal; a crash between its
   renames leaves no package, and the next start deletes the old one.
4. `flags_ignored`: `--list-catalogue` and `--model-directory` are missing in the list of flags that
   are refused without `--headless`, so they are accepted and do nothing.

Differences met while modelling that have no run of their own; the modules follow the code:

- `publish_config` sets the live speed before it swaps the snapshot
  (`src/speech_queue.cpp:62,66`); a request that begins in between has the new speed under the old
  document, though `docs/implementation-notes.md:41-43` has an utterance use one.
- A speed change that discards the sentence a seek went to leaves the seek's offset
  (`src/synthesis_pipeline.cpp:156`), with which an earlier sentence is then started; compare
  `docs/design/architecture.md:175`.
- Speed and speed generation are read under two locks (`src/synthesis_pipeline.cpp:226`); a sentence
  made at the old speed can pass for current; compare `docs/design/architecture.md:208-210`.
- The last `stop()` of a drain (`src/playback_sink.cpp:306`) is outside its `try`: an endpoint lost
  there fails an utterance that losing it earlier would have ended. After a seek back to a sentence
  of another format, the drain of the flushed stream publishes the start of the sentence left behind
  until the new client is open.
- The box of a failed registration is shown inside `SelectionHotkeyState::restore`; when a reload
  behind it takes the shortcut, dismissing it clears `registered_` all the same, so the tray may
  forget a shortcut it holds.
- `--runner` without a text is accepted and ignored.
- An inline code span ends at the first run of as many backticks even inside a longer run
  (`src/text_normalizer.cpp:229`); a nested element of one name ends at the first closing tag.
- A damaged copy whose manifest changes in its place, or a superseded or kept copy that becomes
  another model's, is not noticed by the rescan (`src/model_registry.cpp:478-503` compares their paths
  and reasons alone), nor is an edit of a manifest's engine or languages: the list stays as it was until
  Settings is opened again; compare `include/tts_host/settings_window.hpp:31-34`. `ListIsTrue` claims
  what the rescan keeps, the rows of models in use.
- The configuration poll settles a version before it reads it (`src/config_watch.cpp:50`): a valid edit
  that cannot be read once is reported as rejected and not applied until the file is written again;
  compare `docs/design/architecture.md:423-425`. `EditsAreAnswered` counts the report as the answer. An
  edit that keeps size and time is not seen at all.
- A leftover or a `.damaged` folder that cannot be deleted stays after a start that succeeds.
- `clean_abandoned_spools` judges a spool by its age alone, at every process start: the spool of an
  utterance that was paused for a day goes with the abandoned ones, and what is not cached of it can
  no longer be read.
- A deletion of a previous version that a crash cuts short leaves a folder without a manifest under
  `.previous`, which no scan lists. An update that must keep the version of that name again cannot
  rename it there (`src/model_update.cpp:307`) and fails each time.
- Staging resumes file by file and never clears the folder, so a file only an older revision had is
  installed along.
- A revert whose last rename fails, followed by a removal; a package folder not named after its id;
  a repair whose discarded folder cannot be deleted; a recovery rename that fails on every start;
  two processes that recover or download at once: see the hazards at `src/model_update.cpp` and
  `src/main.cpp:237`.

## Not modelled

Samples and inference: the correlation of the stretcher, resampling, phoneme tables, eSpeak and the
models keep no state a property could relate. Window layout, drawing and wording. HTTP, WebSocket
and JSON parsing, SHA-256 and JSON schema checks are outcomes. UI Automation and the clipboard are
outcomes of a capture. The activity log and the process statistics are read by nobody. More than one
process at a time: the repository makes no claim about it. The label of the source and the text of
an error are not kept in `SpeechQueue`. The headless mode of the pipeline writes one file without a
playback thread and has no concurrency. The bundled tier and superseded copies in `ModelUpdate`
differ from the modelled folders only in where they lie.
