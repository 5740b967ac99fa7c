--------------------------- MODULE SettingsWindow ---------------------------
(***************************************************************************)
(* The Settings window on top of the configuration file: controls that     *)
(* save, the one background model task, the boxes that ask first, closing  *)
(* and quitting in the middle of it.                                       *)
(*                                                                         *)
(* The model task is a thread; everything else is the UI thread's.  What   *)
(* the tasks and maintenance commands do to the packages is ModelUpdate's  *)
(* subject, and which changes a rescan notices is ModelRegistry's: here a  *)
(* change of the installed packages is one that it notices.                *)
(***************************************************************************)
EXTENDS ConfigFile

CONSTANT MaxInstalls  \* bound: changes of what is installed

ASSUME InstallsAssumption == MaxInstalls \in Nat

VARIABLES
  open,         \* run_settings_window has not returned
  leaving,      \* its window is gone, its state is being destroyed
  quitting,     \* the tray's Quit was chosen
  task,         \* model_task: "none", a running Kind, "done" (posted, not joined)
  cancellable,  \* model_task_cancellable
  outcome,      \* model_task_outcome
  cancel,       \* model_task_cancel
  closePending, \* close_pending
  modal,        \* the box shown over the window: "none", "repair", "remove"
  installed,    \* a counter that moves when the packages change
  shown,        \* the value of "installed" at last_scan
  watching      \* the directory watch has a timer

taskVars == <<task, cancellable, outcome, cancel>>
windowVars == <<open, leaving, quitting, closePending, modal>>
listVars == <<installed, shown, watching>>
vars == <<fileVars, taskVars, windowVars, listVars>>

NoOutcome == [changed |-> FALSE, followUp |-> FALSE]

\* What a task does: download, update or repair; hash; copy.
Kinds == {"transfer", "verify", "import"}

Stoppable(kind) == kind # "import"

TypeOK ==
  /\ FileTypeOK
  /\ task \in Kinds \cup {"none", "done"}
  /\ outcome \in [changed : BOOLEAN, followUp : BOOLEAN]
  /\ modal \in {"none", "repair", "remove"}
  /\ cancellable \in BOOLEAN /\ cancel \in BOOLEAN /\ closePending \in BOOLEAN
  /\ open \in BOOLEAN /\ leaving \in BOOLEAN /\ quitting \in BOOLEAN
  /\ shown \in 0..installed /\ installed \in 0..MaxInstalls /\ watching \in BOOLEAN

\* The user can reach the controls: a box disables the window under it.
Reachable == UIFree /\ open /\ ~leaving /\ modal = "none"

-----------------------------------------------------------------------------
(* Opening and the controls                                                *)

\* The watch gets its timer if modelRegistry.watchForChanges is on by now.
OpenSettings ==
  /\ UIFree
  /\ ~open
  /\ ~quitting
  /\ open' = TRUE
  /\ saved' = document
  /\ cancel' = FALSE /\ closePending' = FALSE
  /\ outcome' = NoOutcome /\ cancellable' = FALSE
  /\ shown' = installed /\ watching' \in BOOLEAN
  /\ UNCHANGED <<disk, backup, document, published, watcherVars, saving, up, writes>>
  /\ UNCHANGED <<leaving, quitting, modal, task, installed>>

\* A control puts its value into the document and saves; "publish" handlers
\* publish as well.
Edit(publish) ==
  /\ Reachable
  /\ \E value \in (Values \cup {Broken}) \ {document} : BeginSave(value, publish)
  /\ UNCHANGED <<taskVars, windowVars, listVars>>

\* The controls of the Playback tab, one by one or all at once, and the
\* selection policy.
ChangePlayback == Edit(FALSE)
ResetPlayback == Edit(FALSE)
ChangeServer == Edit(FALSE)
CheckShortcut == Edit(FALSE)
ChooseProfile == Edit(TRUE)

\* A model that does not load changes nothing, so only a successful load is a
\* step here.
LoadModel == Edit(TRUE)

Save ==
  /\ ReadPrevious \/ ReplaceBackup \/ ReplaceConfig
  /\ UNCHANGED <<taskVars, windowVars, listVars>>

-----------------------------------------------------------------------------
(* The model task                                                          *)

\* start_model_task refuses a second task.
StartTask(kind) ==
  /\ task = "none"
  /\ task' = kind
  /\ cancel' = FALSE
  /\ cancellable' = Stoppable(kind)
  /\ outcome' = NoOutcome

Click(kind) ==
  /\ Reachable
  /\ StartTask(kind)
  /\ UNCHANGED <<fileVars, windowVars, listVars>>

Download == Click("transfer")
Update == Click("transfer")
Verify == Click("verify")
Import == Click("import")

\* The worker ends and posts its message.  A cancelled one may still have been
\* past its last progress call, so any outcome is possible; and one that failed
\* may have changed the packages all the same, and says it has not.
TaskEnds ==
  /\ task \in Kinds
  /\ task' = "done"
  /\ \E well \in BOOLEAN :
       outcome' = IF task = "verify" THEN [NoOutcome EXCEPT !.followUp = well]
                  ELSE [NoOutcome EXCEPT !.changed = well]
  /\ installed' \in IF outcome'.changed THEN {installed + 1}
                    ELSE IF task = "verify" THEN {installed} ELSE {installed, installed + 1}
  /\ installed' <= MaxInstalls
  /\ UNCHANGED <<fileVars, windowVars, cancellable, cancel, shown, watching>>

\* A close that waited for the task comes before its follow-up.
AfterTask ==
  IF closePending
  THEN leaving' = TRUE /\ UNCHANGED modal
  ELSE /\ modal' = IF outcome.followUp THEN "repair" ELSE modal
       /\ UNCHANGED leaving

ShownAfterTask == IF outcome.changed THEN installed ELSE shown

\* on_model_task_done: join, refresh, then close or go on.
TaskDone ==
  /\ UIFree
  /\ open /\ ~leaving
  /\ task = "done"
  /\ task' = "none"
  /\ cancellable' = FALSE
  /\ outcome' = NoOutcome
  /\ shown' = ShownAfterTask
  /\ AfterTask
  /\ UNCHANGED <<fileVars, open, quitting, closePending, cancel, installed, watching>>

CancelTask ==
  /\ Reachable
  /\ task # "none"
  /\ cancellable
  /\ cancel' = TRUE
  /\ UNCHANGED <<fileVars, windowVars, task, cancellable, outcome, listVars>>

\* start_model_repair: the answer to the box Verify led to.
AnswerRepair ==
  /\ UIFree
  /\ modal = "repair"
  /\ modal' = "none"
  /\ StartTask("transfer") \/ UNCHANGED taskVars
  /\ UNCHANGED <<fileVars, open, leaving, quitting, closePending, listVars>>

-----------------------------------------------------------------------------
(* Maintenance on the UI thread                                            *)

AskRemoval ==
  /\ Reachable
  /\ task = "none"
  /\ modal' = "remove"
  /\ UNCHANGED <<fileVars, taskVars, open, leaving, quitting, closePending, listVars>>

\* Revert, Delete previous, Remove superseded, and a confirmed Remove.  One
\* that fails after its first folder has changed the packages and does not
\* refresh the list.
Maintain ==
  /\ UIFree
  /\ open /\ ~leaving
  /\ task = "none"
  /\ modal # "repair"
  /\ modal' = "none"
  /\ installed < MaxInstalls
  /\ installed' = installed + 1
  /\ shown' \in {installed + 1, shown}
  /\ UNCHANGED <<fileVars, taskVars, open, leaving, quitting, closePending, watching>>

\* Another program changes the folders under the open window.  Opening scans
\* them anew, so what changed before does not matter.
FoldersChange ==
  /\ open /\ ~leaving
  /\ installed < MaxInstalls
  /\ installed' = installed + 1
  /\ UNCHANGED <<fileVars, taskVars, windowVars, shown, watching>>

DeclineRemoval ==
  /\ UIFree
  /\ modal = "remove"
  /\ modal' = "none"
  /\ UNCHANGED <<fileVars, taskVars, open, leaving, quitting, closePending, listVars>>

\* Mutant: the folders are left alone while a task runs.
WatchesIdle == task = "none"

WatchesAlways == TRUE

\* on_directory_watch_timer.  While Settings is open nothing else changes
\* modelRegistry.watchForChanges.
WatchFolders ==
  /\ UIFree
  /\ open /\ ~leaving /\ watching
  /\ WatchesAlways
  /\ shown # installed
  /\ shown' = installed
  /\ UNCHANGED <<fileVars, taskVars, windowVars, installed, watching>>

-----------------------------------------------------------------------------
(* Closing, quitting, crashing                                             *)

\* WM_CLOSE during a task.
CloseAfterTask == closePending' = TRUE /\ cancel' = TRUE

Close ==
  /\ Reachable
  /\ ~closePending
  /\ IF task = "none"
     THEN leaving' = TRUE /\ UNCHANGED <<closePending, cancel>>
     ELSE CloseAfterTask /\ UNCHANGED leaving
  /\ UNCHANGED <<fileVars, open, quitting, modal, task, cancellable, outcome, listVars>>

\* Mutant: the destructor only waits.
DestructorCancel == cancel

\* ~SettingsState stops the task before it joins it.
DestructorStop == TRUE

\* WM_QUIT ends the box, then Settings' loop; without Settings it ends the
\* Host.
Quit ==
  /\ UIFree
  /\ ~quitting
  /\ quitting' = TRUE
  /\ IF open
     THEN /\ leaving' = TRUE
          /\ modal' = "none"
          /\ cancel' = DestructorStop
          /\ UNCHANGED fileVars
     ELSE /\ Stopped /\ UNCHANGED writes
          /\ UNCHANGED <<leaving, modal, cancel>>
  /\ UNCHANGED <<open, closePending, task, cancellable, outcome, listVars>>

\* ~SettingsState.
JoinTask == task \notin Kinds /\ task' = "none"

\* The tray publishes what Settings leaves behind.
PublishedOnClose == document

\* run_settings_window returns to the tray; SettingsState is gone.
Leave ==
  /\ UIFree
  /\ open /\ leaving
  /\ JoinTask
  /\ open' = FALSE /\ leaving' = FALSE /\ closePending' = FALSE
  /\ cancellable' = FALSE /\ outcome' = NoOutcome /\ cancel' = FALSE
  /\ shown' = installed /\ watching' = FALSE
  /\ IF quitting
     THEN Stopped /\ UNCHANGED writes
     ELSE /\ published' = PublishedOnClose
          /\ saved' = document
          /\ UNCHANGED <<disk, backup, document, watcherVars, saving, up, writes>>
  /\ UNCHANGED <<quitting, modal, installed>>

\* The process dies between any two steps.
Crash ==
  /\ up
  /\ Stopped
  /\ open' = FALSE /\ leaving' = FALSE /\ quitting' = FALSE /\ closePending' = FALSE
  /\ modal' = "none" /\ task' = "none" /\ cancel' = FALSE
  /\ cancellable' = FALSE /\ outcome' = NoOutcome
  /\ shown' = installed /\ watching' = FALSE
  /\ UNCHANGED <<installed, writes>>

StartHost ==
  /\ ~quitting
  /\ Start
  /\ UNCHANGED <<taskVars, windowVars, listVars>>

\* The tray's one-second timer skips its poll while Settings is open.
PollConfig ==
  /\ ~open
  /\ Poll
  /\ UNCHANGED <<taskVars, windowVars, listVars>>

JudgeConfig ==
  /\ Judge
  /\ UNCHANGED <<taskVars, windowVars, listVars>>

Editor ==
  /\ ExternalEdit
  /\ UNCHANGED <<taskVars, windowVars, listVars>>

-----------------------------------------------------------------------------
Init ==
  /\ FileInit
  /\ open = FALSE /\ leaving = FALSE /\ quitting = FALSE /\ closePending = FALSE
  /\ task = "none" /\ cancellable = FALSE /\ outcome = NoOutcome /\ cancel = FALSE
  /\ modal = "none" /\ installed = 0 /\ shown = 0 /\ watching = FALSE

Next ==
  \/ Editor \/ PollConfig \/ JudgeConfig \/ Save \/ StartHost \/ Crash
  \/ OpenSettings \/ ChangePlayback \/ ResetPlayback \/ ChangeServer
  \/ CheckShortcut \/ ChooseProfile \/ LoadModel
  \/ Download \/ Update \/ Verify \/ Import \/ TaskEnds \/ TaskDone \/ CancelTask \/ AnswerRepair
  \/ AskRemoval \/ Maintain \/ FoldersChange \/ DeclineRemoval \/ WatchFolders
  \/ Close \/ Quit \/ Leave

Spec == Init /\ [][Next]_vars

\* The UI thread goes on with a save, a poll, a message or its return, and the
\* timers fire.  A posted message and a timer are dispatched though the user
\* keeps clicking in between, hence strong fairness for both.  An import ends
\* by itself, a download or a hash once it is told to stop.
FairSpec ==
  /\ Spec
  /\ WF_vars(PollConfig) /\ WF_vars(JudgeConfig) /\ WF_vars(Save)
  /\ SF_vars(TaskDone) /\ WF_vars(Leave) /\ SF_vars(WatchFolders)
  /\ WF_vars(TaskEnds /\ (cancel \/ ~cancellable))

-----------------------------------------------------------------------------
(* Properties                                                              *)

\* Between two messages Settings edits exactly what it saved last: a save that
\* failed at any step leaves no trace in the document.
SettingsEditsWhatIsSaved == (UIFree /\ open) => document = saved

\* With Settings closed and nothing in progress, the next utterance uses the
\* document the tray holds.
TrayPublishesItsDocument == (UIFree /\ ~open) => published = document

\* The Host never takes its own save for an outside edit.
OwnSavesAreNotEdits ==
  [][(up' /\ judging /\ ~judging' /\ document' # document) => disk.by = "editor"]_vars

\* The task never outlives the window state it reports into.
TaskEndsWithSettings == ~open => task = "none" /\ modal = "none"

\* A close that waits for a task is final: the window asks nothing more and
\* starts nothing more.
CloseIsFinal == (open /\ closePending /\ ~leaving) => task # "none" /\ modal = "none"

\* Once edits stop and Settings stays closed, the Host runs on what is in a
\* valid file, or has said of exactly this version that it was rejected: no
\* save, edit or poll in between makes a version go unanswered.
\* (ConfigFileWatcher::poll, reload_external_config.)
EditsAreAnswered ==
  <>[](up /\ ~open) =>
    <>[](disk.value \in Values =>
           \/ document = disk.value /\ published = disk.value
           \/ reported = Stamp)

\* A close asked for during a task is carried out.
CloseEnds == closePending ~> ~open

\* Quit ends the Host, from a box or in the middle of a download too.
QuitEnds == quitting ~> ~up

\* The document on display, the saved one, the published one and the one in the
\* tray are the same whenever nothing is under way.
DocumentsAgree == TypeOK /\ SettingsEditsWhatIsSaved /\ TrayPublishesItsDocument

\* Between the Host, an editor and crashes the file stays usable, keeps a copy
\* of what it replaces, and is not taken for somebody else's edit.
FileIsSafe ==
  []HostLeavesValidFiles /\ ReplacedIsRetained /\ OwnSavesAreNotEdits

\* With the directory watch on, what a task, another program or a command that
\* failed half way does to the folders gets onto the list while Settings stays
\* open, though the user keeps clicking and a task keeps running.
\* (on_directory_watch_timer; which differences a rescan sees is
\* ModelRegistry's subject.)
ListIsCurrent == []<>(shown = installed \/ ~open \/ ~watching)

\* The window ends after its task and never under it, and it does end.
WindowEndsInOrder ==
  [](TaskEndsWithSettings /\ CloseIsFinal) /\ CloseEnds /\ QuitEnds

=============================================================================
