----------------------------- MODULE ConfigFile -----------------------------
(***************************************************************************)
(* config.json between the Host, an editor and a crash: a save in its      *)
(* steps (config_persistence.cpp), the poll that notices outside edits     *)
(* (config_watch.cpp) and a start (config_loader.cpp).                     *)
(*                                                                         *)
(* The Host does all of it on its UI thread; the editor writes whenever it *)
(* likes.  A document is a member of Values, or Broken: text that does not *)
(* parse or does not satisfy the schema.  Every write gives the file a new *)
(* modification stamp: an edit that leaves both its time and its size as   *)
(* they were is outside this model, and outside what the poll can see.     *)
(***************************************************************************)
EXTENDS Naturals

CONSTANTS
  Values,    \* valid documents
  Broken,    \* an invalid document
  None,      \* no file, no copy, no stamp yet
  MaxWrites  \* bound: writes of the editor and saves of the Host

ASSUME ConfigFileAssumption ==
  /\ Values # {}
  /\ Broken \notin Values
  /\ None \notin Values \cup {Broken}
  /\ MaxWrites \in Nat

VARIABLES
  disk,       \* config.json: its value, its stamp and who wrote it
  backup,     \* config.json.last-valid
  document,   \* the tray-owned document
  saved,      \* SettingsState::saved_value
  published,  \* the document the next utterance uses
  settled, pending,  \* ConfigFileWatcher: stamps
  judging,    \* the poll has accepted a stamp and goes on to read the file
  reported,   \* the stamp whose rejection the activity log reported last
  saving,     \* the save under way
  up,         \* the Host runs
  writes      \* how often config.json was written

watcherVars == <<settled, pending, judging, reported>>
fileVars == <<disk, backup, document, saved, published, watcherVars, saving, up, writes>>

Stamps == 0..MaxWrites
NotSaving == [step |-> "none", previous |-> None, stamp |-> 0, publish |-> FALSE]

FileTypeOK ==
  /\ disk \in [value : Values \cup {Broken, None}, stamp : Stamps, by : {"editor", "host"}]
  /\ IF up
     THEN document \in Values \cup {Broken} /\ saved \in Values /\ published \in Values
     ELSE document = None /\ saved = None /\ published = None
  /\ settled \in Stamps \cup {None} /\ pending \in Stamps \cup {None}
  /\ reported \in Stamps \cup {None}
  /\ judging \in BOOLEAN /\ up \in BOOLEAN
  /\ saving.step \in {"none", "read", "backup", "replace"}

\* The UI thread is between two messages.
UIFree == up /\ saving = NotSaving /\ ~judging

Written(value, by) == [value |-> value, stamp |-> writes + 1, by |-> by]

-----------------------------------------------------------------------------
(* The editor                                                              *)

\* An editor saves a document, half a document, or removes the file.
ExternalEdit ==
  /\ writes < MaxWrites
  /\ \E value \in (Values \cup {Broken, None}) \ {disk.value} : disk' = Written(value, "editor")
  /\ writes' = writes + 1
  /\ UNCHANGED <<backup, document, saved, published, watcherVars, saving, up>>

-----------------------------------------------------------------------------
(* Saving                                                                  *)

\* validate_config.
Accepts(value) == value \in Values

\* Mutant: the control keeps what could not be saved.
KeepOnFailure == document' = document

\* save_config's catch: the edit is taken back.
Rollback == document' = saved

SaveFails ==
  /\ Rollback
  /\ saving' = NotSaving
  /\ UNCHANGED <<disk, backup, saved, published, watcherVars, up, writes>>

\* A handler put "value" into the document and calls save_config; "publish"
\* handlers publish it when the save has returned.
BeginSave(value, publish) ==
  /\ writes < MaxWrites
  /\ document' = value
  /\ saving' = [NotSaving EXCEPT !.step = "read", !.publish = publish]
  /\ UNCHANGED <<disk, backup, saved, published, watcherVars, up, writes>>

\* The staged file is written and the one it replaces is read.  An invalid one
\* does not become the backup.
ReadPrevious ==
  /\ up
  /\ saving.step = "read"
  /\ \/ SaveFails
     \/ /\ Accepts(document)
        /\ disk.value # None
        /\ saving' = [saving EXCEPT !.step = IF disk.value \in Values THEN "backup" ELSE "replace",
                                    !.previous = disk.value,
                                    !.stamp = disk.stamp]
        /\ UNCHANGED <<disk, backup, document, saved, published, watcherVars, up, writes>>

\* Mutant: the retained copy is the value Settings saved last.
RetainedSaved == saved

Retained == saving.previous

ReplaceBackup ==
  /\ up
  /\ saving.step = "backup"
  /\ \/ SaveFails
     \/ /\ backup' = Retained
        /\ saving' = [saving EXCEPT !.step = "replace"]
        /\ UNCHANGED <<disk, document, saved, published, watcherVars, up, writes>>

ReplaceConfig ==
  /\ up
  /\ saving.step = "replace"
  /\ \/ SaveFails
     \/ /\ writes < MaxWrites
        /\ disk' = Written(document, "host")
        /\ writes' = writes + 1
        /\ saved' = document
        /\ published' = IF saving.publish THEN document ELSE published
        /\ saving' = NotSaving
        /\ UNCHANGED <<backup, document, watcherVars, up>>

-----------------------------------------------------------------------------
(* Noticing edits                                                          *)

Stamp == IF disk.value = None THEN 0 ELSE disk.stamp

\* Mutant: a stamp judged once is never compared again.
IsSettledEver == settled # None

IsSettled == settled = Stamp

\* ConfigFileWatcher::poll up to the read: a stamp is accepted when two polls
\* in a row have seen it.
Poll ==
  /\ UIFree
  /\ \/ /\ IsSettled
        /\ pending' = None
        /\ UNCHANGED <<settled, judging>>
     \/ /\ ~IsSettled
        /\ pending # Stamp
        /\ pending' = Stamp
        /\ UNCHANGED <<settled, judging>>
     \/ /\ ~IsSettled
        /\ pending = Stamp
        /\ settled' = Stamp
        /\ pending' = None
        /\ judging' = TRUE
  /\ UNCHANGED <<disk, backup, document, saved, published, reported, saving, up, writes>>

\* reload_config, and publish_config when the document is another one.  By now
\* the editor may have written again.
Apply ==
  /\ disk.value \in Values
  /\ document' = disk.value
  /\ published' = IF disk.value = document THEN published ELSE disk.value
  /\ reported' = None

\* The file is missing, cannot be opened or read at the moment, or is not valid.
Reject ==
  /\ reported' = settled
  /\ UNCHANGED <<document, published>>

\* The stamp stays settled either way: what was rejected is not read again.
Judge ==
  /\ up
  /\ judging
  /\ judging' = FALSE
  /\ Apply \/ Reject
  /\ UNCHANGED <<disk, backup, saved, settled, pending, saving, up, writes>>

-----------------------------------------------------------------------------
(* Stopping and starting                                                   *)

\* The process is gone, and its memory with it.
Stopped ==
  /\ up' = FALSE
  /\ document' = None /\ saved' = None /\ published' = None
  /\ settled' = None /\ pending' = None /\ judging' = FALSE /\ reported' = None
  /\ saving' = NotSaving
  /\ UNCHANGED <<disk, backup>>

\* load_config: a Host with an invalid file does not start.
Start ==
  /\ ~up
  /\ disk.value \in Values
  /\ up' = TRUE
  /\ document' = disk.value /\ saved' = disk.value /\ published' = disk.value
  /\ UNCHANGED <<disk, backup, watcherVars, saving, writes>>

\* Documents are only compared, so any valid one may come first.
FileInit ==
  /\ LET value == CHOOSE v \in Values : TRUE IN
       /\ disk = [value |-> value, stamp |-> 0, by |-> "editor"]
       /\ document = value /\ saved = value /\ published = value
  /\ backup = None
  /\ settled = None /\ pending = None /\ judging = FALSE /\ reported = None
  /\ saving = NotSaving /\ up = TRUE
  /\ writes = 0

-----------------------------------------------------------------------------
(* Properties                                                              *)

\* Whatever step a crash or a failure ends, the Host has left a valid
\* document: what it wrote to config.json is one, and so is the retained copy.
HostLeavesValidFiles ==
  /\ disk.by = "host" => disk.value \in Values
  /\ backup \in Values \cup {None}

\* A save keeps the valid document it replaces as the retained copy, also when
\* that document is an edit the Host never loaded.  Only an edit written while
\* the save is under way can be lost.
ReplacedIsRetained ==
  [][(disk' # disk /\ disk'.by = "host" /\ disk.value \in Values /\ disk.stamp = saving.stamp)
       => backup = disk.value]_fileVars

=============================================================================
