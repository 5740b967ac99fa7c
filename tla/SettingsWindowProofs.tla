-------------------------- MODULE SettingsWindowProofs --------------------------
(***************************************************************************)
(* Proofs about SettingsWindow and the configuration file under it, for    *)
(* all documents and any number of writes, crashes and package changes.    *)
(*                                                                         *)
(* What a save may do to the file depends on what an earlier step of it    *)
(* read, and the editor may write between any two of them.  The inductive  *)
(* invariant IInv therefore says what a save under way knows (SaveKnows),  *)
(* which two documents agree with the window open and closed (Agreement),  *)
(* whose file is on disk (OwnFile) and in which order the window, its task *)
(* and its boxes end (WindowOrder).                                        *)
(***************************************************************************)
EXTENDS SettingsWindow, TLAPS

-----------------------------------------------------------------------------
(* The inductive invariant.                                                *)

WindowTypeOK ==
  /\ task \in Kinds \cup {"none", "done"}
  /\ outcome \in [changed : BOOLEAN, followUp : BOOLEAN]
  /\ modal \in {"none", "repair", "remove"}
  /\ cancellable \in BOOLEAN /\ cancel \in BOOLEAN /\ closePending \in BOOLEAN
  /\ open \in BOOLEAN /\ leaving \in BOOLEAN /\ quitting \in BOOLEAN
  /\ shown \in 0..installed /\ installed \in 0..MaxInstalls /\ watching \in BOOLEAN

SaveTypes ==
  /\ saving \in [step : {"none", "read", "backup", "replace"},
                 previous : Values \cup {Broken, None}, stamp : Stamps, publish : BOOLEAN]
  /\ writes \in Stamps

\* As long as nobody wrote since the file was read, it holds what was read, and
\* a valid document is retained before it is replaced.
SaveKnows ==
  /\ saving.step = "none" => saving = NotSaving
  /\ disk.stamp <= writes /\ saving.stamp <= writes
  /\ saving.step \in {"backup", "replace"} => document \in Values
  /\ saving.step \in {"backup", "replace"} /\ disk.stamp = saving.stamp =>
       disk.value = saving.previous
  /\ saving.step = "backup" => saving.previous \in Values
  /\ saving.step = "replace" /\ saving.previous \in Values => backup = saving.previous

Agreement ==
  /\ saving # NotSaving => up /\ open /\ ~leaving /\ modal = "none"
  /\ judging => up /\ ~open
  /\ up /\ ~open => published = document
  /\ up /\ open /\ saving = NotSaving => document = saved

\* A file the Host wrote is valid and holds what the Host goes on from.
OwnFile ==
  /\ HostLeavesValidFiles
  /\ up /\ disk.by = "host" => disk.value = IF open THEN saved ELSE document

WindowOrder ==
  /\ TaskEndsWithSettings /\ CloseIsFinal
  /\ leaving => open /\ modal = "none"
  /\ open => up

IInv ==
  /\ FileTypeOK
  /\ WindowTypeOK
  /\ SaveTypes
  /\ SaveKnows
  /\ Agreement
  /\ OwnFile
  /\ WindowOrder

-----------------------------------------------------------------------------
LEMMA NotSavingFacts ==
  /\ NotSaving \in [step : {"none", "read", "backup", "replace"},
                    previous : Values \cup {Broken, None}, stamp : Stamps, publish : BOOLEAN]
  /\ NotSaving.step = "none" /\ NotSaving.stamp = 0
BY ConfigFileAssumption DEF NotSaving, Stamps

LEMMA WindowFacts ==
  /\ NoOutcome \in [changed : BOOLEAN, followUp : BOOLEAN] /\ NoOutcome.changed = FALSE
  /\ \A i \in 0 .. MaxInstalls : i \in 0 .. i
BY InstallsAssumption DEF NoOutcome

\* A save that fails at any step takes the edit back.
LEMMA FailedSaveKeeps ==
  ASSUME IInv, saving.step # "none", SaveFails, UNCHANGED <<taskVars, windowVars, listVars>>
  PROVE  IInv'
<1> USE DEF IInv
<1>1. /\ document' = saved /\ saving' = NotSaving
      /\ UNCHANGED <<disk, backup, saved, published, settled, pending, judging, reported, up, writes,
                     taskVars, windowVars, listVars>>
  BY DEF SaveFails, Rollback, watcherVars
<1>2. saving # NotSaving
  BY NotSavingFacts
<1>3. up /\ open /\ ~judging
  BY <1>2 DEF Agreement
<1>4. FileTypeOK'
  BY <1>1, <1>3, NotSavingFacts DEF FileTypeOK
<1>5. WindowTypeOK'
  BY <1>1 DEF WindowTypeOK, taskVars, windowVars, listVars
<1>6. SaveTypes' /\ SaveKnows'
  BY <1>1, NotSavingFacts, ConfigFileAssumption DEF SaveTypes, SaveKnows, Stamps, FileTypeOK
<1>7. Agreement' /\ OwnFile' /\ WindowOrder'
  BY <1>1, <1>3 DEF Agreement, OwnFile, HostLeavesValidFiles, WindowOrder, TaskEndsWithSettings,
    CloseIsFinal, taskVars, windowVars, listVars
<1>8. QED BY <1>4, <1>5, <1>6, <1>7

LEMMA IInvInit == Init => IInv
<1> SUFFICES ASSUME Init PROVE IInv
  OBVIOUS
<1> USE ConfigFileAssumption, InstallsAssumption DEF Init, FileInit, NotSaving, NoOutcome
<1>1. /\ disk.value \in Values /\ document = disk.value /\ saved = document /\ published = document
      /\ disk = [value |-> disk.value, stamp |-> 0, by |-> "editor"]
  OBVIOUS
<1>2. SaveTypes /\ FileTypeOK /\ WindowTypeOK
  <2>1. 0 \in Stamps /\ 0 \in 0 .. MaxInstalls /\ 0 \in 0 .. 0
    BY DEF Stamps
  <2>2. SaveTypes
    BY <2>1 DEF SaveTypes
  <2>3. FileTypeOK
    BY <1>1, <2>1 DEF FileTypeOK
  <2>4. WindowTypeOK
    BY <2>1 DEF WindowTypeOK, Kinds
  <2>5. QED BY <2>2, <2>3, <2>4
<1>3. SaveKnows /\ Agreement /\ OwnFile /\ WindowOrder
  BY <1>1 DEF SaveKnows, Agreement, OwnFile, HostLeavesValidFiles, WindowOrder,
    TaskEndsWithSettings, CloseIsFinal
<1>4. QED BY <1>2, <1>3 DEF IInv

LEMMA IInvStep == IInv /\ [Next]_vars => IInv'
<1> SUFFICES ASSUME IInv, [Next]_vars PROVE IInv'
  OBVIOUS
<1> USE ConfigFileAssumption, InstallsAssumption, NotSavingFacts, WindowFacts
<1>1. CASE Editor
  <2>1. FileTypeOK'
    BY <1>1 DEF IInv, fileVars, watcherVars, taskVars, windowVars, listVars, UIFree, Editor, ExternalEdit,
      Written, Stamps, FileTypeOK, SaveTypes, Agreement
  <2>2. WindowTypeOK'
    BY <1>1 DEF IInv, fileVars, watcherVars, taskVars, windowVars, listVars, UIFree, Editor, ExternalEdit,
      Written, Stamps, WindowTypeOK, Kinds
  <2>3. SaveTypes'
    BY <1>1 DEF IInv, fileVars, watcherVars, taskVars, windowVars, listVars, UIFree, Editor, ExternalEdit,
      Written, Stamps, SaveTypes, FileTypeOK
  <2>4. SaveKnows'
    BY <1>1 DEF IInv, fileVars, watcherVars, taskVars, windowVars, listVars, UIFree, Editor, ExternalEdit,
      Written, Stamps, SaveKnows, SaveTypes, FileTypeOK, Agreement
  <2>5. Agreement'
    BY <1>1 DEF IInv, fileVars, watcherVars, taskVars, windowVars, listVars, UIFree, Editor, ExternalEdit,
      Written, Stamps, Agreement, SaveTypes, SaveKnows, WindowOrder, TaskEndsWithSettings
  <2>6. OwnFile'
    BY <1>1 DEF IInv, fileVars, watcherVars, taskVars, windowVars, listVars, UIFree, Editor, ExternalEdit,
      Written, Stamps, OwnFile, HostLeavesValidFiles, SaveKnows, SaveTypes, Agreement
  <2>7. WindowOrder'
    BY <1>1 DEF IInv, fileVars, watcherVars, taskVars, windowVars, listVars, UIFree, Editor, ExternalEdit,
      Written, Stamps, WindowOrder, TaskEndsWithSettings, CloseIsFinal, Agreement
  <2> QED BY <2>1, <2>2, <2>3, <2>4, <2>5, <2>6, <2>7 DEF IInv
<1>2. CASE PollConfig
  <2>1. FileTypeOK'
    BY <1>2 DEF IInv, fileVars, watcherVars, taskVars, windowVars, listVars, UIFree, PollConfig, Poll,
      Stamp, Stamps, FileTypeOK, SaveTypes, Agreement
  <2>2. WindowTypeOK'
    BY <1>2 DEF IInv, fileVars, watcherVars, taskVars, windowVars, listVars, UIFree, PollConfig, Poll,
      Stamp, Stamps, WindowTypeOK, Kinds
  <2>3. SaveTypes'
    BY <1>2 DEF IInv, fileVars, watcherVars, taskVars, windowVars, listVars, UIFree, PollConfig, Poll,
      Stamp, Stamps, SaveTypes, FileTypeOK
  <2>4. SaveKnows'
    BY <1>2 DEF IInv, fileVars, watcherVars, taskVars, windowVars, listVars, UIFree, PollConfig, Poll,
      Stamp, Stamps, SaveKnows, SaveTypes, FileTypeOK, Agreement
  <2>5. Agreement'
    BY <1>2 DEF IInv, fileVars, watcherVars, taskVars, windowVars, listVars, UIFree, PollConfig, Poll,
      Stamp, Stamps, Agreement, SaveTypes, SaveKnows, WindowOrder, TaskEndsWithSettings
  <2>6. OwnFile'
    BY <1>2 DEF IInv, fileVars, watcherVars, taskVars, windowVars, listVars, UIFree, PollConfig, Poll,
      Stamp, Stamps, OwnFile, HostLeavesValidFiles, SaveKnows, SaveTypes, Agreement
  <2>7. WindowOrder'
    BY <1>2 DEF IInv, fileVars, watcherVars, taskVars, windowVars, listVars, UIFree, PollConfig, Poll,
      Stamp, Stamps, WindowOrder, TaskEndsWithSettings, CloseIsFinal, Agreement
  <2> QED BY <2>1, <2>2, <2>3, <2>4, <2>5, <2>6, <2>7 DEF IInv
<1>3. CASE JudgeConfig
  <2>1. FileTypeOK'
    BY <1>3 DEF IInv, fileVars, watcherVars, taskVars, windowVars, listVars, UIFree, JudgeConfig, Judge, Apply, Reject,
      FileTypeOK, Stamps, SaveTypes, Agreement
  <2>2. WindowTypeOK'
    BY <1>3 DEF IInv, fileVars, watcherVars, taskVars, windowVars, listVars, UIFree, JudgeConfig, Judge, Apply, Reject,
      WindowTypeOK, Kinds
  <2>3. SaveTypes'
    BY <1>3 DEF IInv, fileVars, watcherVars, taskVars, windowVars, listVars, UIFree, JudgeConfig, Judge, Apply, Reject,
      SaveTypes, FileTypeOK, Stamps
  <2>4. SaveKnows'
    BY <1>3 DEF IInv, fileVars, watcherVars, taskVars, windowVars, listVars, UIFree, JudgeConfig, Judge, Apply, Reject,
      SaveKnows, SaveTypes, Stamps, FileTypeOK, Agreement
  <2>5. Agreement'
    BY <1>3 DEF IInv, fileVars, watcherVars, taskVars, windowVars, listVars, UIFree, JudgeConfig, Judge, Apply, Reject,
      Agreement, SaveTypes, SaveKnows, WindowOrder, TaskEndsWithSettings
  <2>6. OwnFile'
    BY <1>3 DEF IInv, fileVars, watcherVars, taskVars, windowVars, listVars, UIFree, JudgeConfig, Judge, Apply, Reject,
      OwnFile, HostLeavesValidFiles, SaveKnows, SaveTypes, Agreement
  <2>7. WindowOrder'
    BY <1>3 DEF IInv, fileVars, watcherVars, taskVars, windowVars, listVars, UIFree, JudgeConfig, Judge, Apply, Reject,
      WindowOrder, TaskEndsWithSettings, CloseIsFinal, Agreement
  <2> QED BY <2>1, <2>2, <2>3, <2>4, <2>5, <2>6, <2>7 DEF IInv
<1>4. CASE Save /\ ReadPrevious
  <2>1. CASE SaveFails
    BY <1>4, <2>1, FailedSaveKeeps DEF Save, ReadPrevious
  <2>2. CASE /\ Accepts(document) /\ disk.value # None
             /\ saving' = [saving EXCEPT !.step = IF disk.value \in Values THEN "backup" ELSE "replace",
                                         !.previous = disk.value,
                                         !.stamp = disk.stamp]
             /\ UNCHANGED <<disk, backup, document, saved, published, watcherVars, up, writes>>
    <3>1. /\ saving.step = "read" /\ up /\ document \in Values
          /\ UNCHANGED <<disk, backup, document, saved, published, settled, pending, judging, reported, up, writes,
                         taskVars, windowVars, listVars>>
      BY <1>4, <2>2 DEF Save, ReadPrevious, Accepts, watcherVars
    <3>2. /\ saving' \in [step : {"none", "read", "backup", "replace"},
                          previous : Values \cup {Broken, None}, stamp : Stamps, publish : BOOLEAN]
          /\ saving'.step = IF disk.value \in Values THEN "backup" ELSE "replace"
          /\ saving'.previous = disk.value /\ saving'.stamp = disk.stamp
      BY <2>2 DEF IInv, SaveTypes, FileTypeOK
    <3>3. saving # NotSaving
      BY <3>1
    <3>4. FileTypeOK' /\ SaveTypes'
      BY <3>1, <3>2 DEF IInv, FileTypeOK, SaveTypes
    <3>5. WindowTypeOK'
      BY <3>1 DEF IInv, WindowTypeOK, taskVars, windowVars, listVars
    <3>6. SaveKnows'
      BY <3>1, <3>2 DEF IInv, SaveKnows
    <3>7. Agreement' /\ OwnFile' /\ WindowOrder'
      BY <3>1, <3>2, <3>3 DEF IInv, Agreement, OwnFile, HostLeavesValidFiles, WindowOrder,
        TaskEndsWithSettings, CloseIsFinal, taskVars, windowVars, listVars
    <3>8. QED BY <3>4, <3>5, <3>6, <3>7 DEF IInv
  <2>3. QED BY <1>4, <2>1, <2>2 DEF ReadPrevious
<1>5. CASE Save /\ ReplaceBackup
  <2>1. CASE SaveFails
    BY <1>5, <2>1, FailedSaveKeeps DEF Save, ReplaceBackup
  <2>2. CASE /\ backup' = Retained
             /\ saving' = [saving EXCEPT !.step = "replace"]
             /\ UNCHANGED <<disk, document, saved, published, watcherVars, up, writes>>
    <3>1. /\ saving.step = "backup" /\ up /\ backup' = saving.previous
          /\ UNCHANGED <<disk, document, saved, published, settled, pending, judging, reported, up, writes,
                         taskVars, windowVars, listVars>>
      BY <1>5, <2>2 DEF Save, ReplaceBackup, Retained, watcherVars
    <3>2. /\ saving' \in [step : {"none", "read", "backup", "replace"},
                          previous : Values \cup {Broken, None}, stamp : Stamps, publish : BOOLEAN]
          /\ saving'.step = "replace"
          /\ saving'.previous = saving.previous /\ saving'.stamp = saving.stamp
      BY <2>2 DEF IInv, SaveTypes
    <3>3. saving # NotSaving
      BY <3>1
    <3>4. FileTypeOK' /\ SaveTypes'
      BY <3>1, <3>2 DEF IInv, FileTypeOK, SaveTypes
    <3>5. WindowTypeOK'
      BY <3>1 DEF IInv, WindowTypeOK, taskVars, windowVars, listVars
    <3>6. SaveKnows'
      BY <3>1, <3>2 DEF IInv, SaveKnows
    <3>7. Agreement' /\ OwnFile' /\ WindowOrder'
      BY <3>1, <3>2, <3>3 DEF IInv, Agreement, SaveKnows, OwnFile, HostLeavesValidFiles, WindowOrder,
        TaskEndsWithSettings, CloseIsFinal, taskVars, windowVars, listVars
    <3>8. QED BY <3>4, <3>5, <3>6, <3>7 DEF IInv
  <2>3. QED BY <1>5, <2>1, <2>2 DEF ReplaceBackup
<1>6. CASE Save /\ ReplaceConfig
  <2>1. CASE SaveFails
    BY <1>6, <2>1, FailedSaveKeeps DEF Save, ReplaceConfig
  <2>2. CASE /\ writes < MaxWrites
             /\ disk' = Written(document, "host")
             /\ writes' = writes + 1
             /\ saved' = document
             /\ published' = IF saving.publish THEN document ELSE published
             /\ saving' = NotSaving
             /\ UNCHANGED <<backup, document, watcherVars, up>>
    <3>1. /\ saving.step = "replace" /\ up /\ document \in Values
          /\ UNCHANGED <<backup, document, settled, pending, judging, reported, up, taskVars, windowVars,
                         listVars>>
      BY <1>6, <2>2 DEF IInv, SaveKnows, Save, ReplaceConfig, watcherVars
    <3>2. /\ disk' = [value |-> document, stamp |-> writes + 1, by |-> "host"]
          /\ writes' \in Stamps /\ writes' = writes + 1 /\ writes \in Nat
      BY <2>2 DEF IInv, SaveTypes, Stamps, Written
    <3>3. saving # NotSaving
      BY <3>1
    <3>4. up /\ open /\ ~leaving /\ ~judging
      BY <3>3 DEF IInv, Agreement
    <3>5. FileTypeOK' /\ SaveTypes'
      BY <2>2, <3>1, <3>2 DEF IInv, FileTypeOK, SaveTypes
    <3>6. WindowTypeOK'
      BY <3>1 DEF IInv, WindowTypeOK, taskVars, windowVars, listVars
    <3>7. SaveKnows'
      BY <2>2, <3>1, <3>2 DEF IInv, SaveKnows
    <3>8. Agreement' /\ OwnFile' /\ WindowOrder'
      BY <2>2, <3>1, <3>2, <3>4 DEF IInv, Agreement, OwnFile, HostLeavesValidFiles, WindowOrder,
        TaskEndsWithSettings, CloseIsFinal, taskVars, windowVars, listVars
    <3>9. QED BY <3>5, <3>6, <3>7, <3>8 DEF IInv
  <2>3. QED BY <1>6, <2>1, <2>2 DEF ReplaceConfig
<1>7. CASE StartHost
  <2>1. FileTypeOK'
    BY <1>7 DEF IInv, fileVars, watcherVars, taskVars, windowVars, listVars, UIFree, StartHost, Start,
      FileTypeOK, Stamps, SaveTypes, Agreement
  <2>2. WindowTypeOK'
    BY <1>7 DEF IInv, fileVars, watcherVars, taskVars, windowVars, listVars, UIFree, StartHost, Start,
      WindowTypeOK, Kinds
  <2>3. SaveTypes'
    BY <1>7 DEF IInv, fileVars, watcherVars, taskVars, windowVars, listVars, UIFree, StartHost, Start,
      SaveTypes, FileTypeOK, Stamps
  <2>4. SaveKnows'
    BY <1>7 DEF IInv, fileVars, watcherVars, taskVars, windowVars, listVars, UIFree, StartHost, Start,
      SaveKnows, SaveTypes, Stamps, FileTypeOK, Agreement
  <2>5. Agreement'
    BY <1>7 DEF IInv, fileVars, watcherVars, taskVars, windowVars, listVars, UIFree, StartHost, Start,
      Agreement, SaveTypes, SaveKnows, WindowOrder, TaskEndsWithSettings
  <2>6. OwnFile'
    BY <1>7 DEF IInv, fileVars, watcherVars, taskVars, windowVars, listVars, UIFree, StartHost, Start,
      OwnFile, HostLeavesValidFiles, SaveKnows, SaveTypes, Agreement
  <2>7. WindowOrder'
    BY <1>7 DEF IInv, fileVars, watcherVars, taskVars, windowVars, listVars, UIFree, StartHost, Start,
      WindowOrder, TaskEndsWithSettings, CloseIsFinal, Agreement
  <2> QED BY <2>1, <2>2, <2>3, <2>4, <2>5, <2>6, <2>7 DEF IInv
<1>8. CASE Crash
  <2>1. FileTypeOK'
    BY <1>8 DEF IInv, fileVars, watcherVars, taskVars, windowVars, listVars, UIFree, Crash, Stopped,
      FileTypeOK, Stamps, SaveTypes, Agreement
  <2>2. WindowTypeOK'
    BY <1>8 DEF IInv, fileVars, watcherVars, taskVars, windowVars, listVars, UIFree, Crash, Stopped,
      WindowTypeOK, Kinds
  <2>3. SaveTypes'
    BY <1>8 DEF IInv, fileVars, watcherVars, taskVars, windowVars, listVars, UIFree, Crash, Stopped,
      SaveTypes, FileTypeOK, Stamps
  <2>4. SaveKnows'
    BY <1>8 DEF IInv, fileVars, watcherVars, taskVars, windowVars, listVars, UIFree, Crash, Stopped,
      SaveKnows, SaveTypes, Stamps, FileTypeOK, Agreement
  <2>5. Agreement'
    BY <1>8 DEF IInv, fileVars, watcherVars, taskVars, windowVars, listVars, UIFree, Crash, Stopped,
      Agreement, SaveTypes, SaveKnows, WindowOrder, TaskEndsWithSettings
  <2>6. OwnFile'
    BY <1>8 DEF IInv, fileVars, watcherVars, taskVars, windowVars, listVars, UIFree, Crash, Stopped,
      OwnFile, HostLeavesValidFiles, SaveKnows, SaveTypes, Agreement
  <2>7. WindowOrder'
    BY <1>8 DEF IInv, fileVars, watcherVars, taskVars, windowVars, listVars, UIFree, Crash, Stopped,
      WindowOrder, TaskEndsWithSettings, CloseIsFinal, Agreement
  <2> QED BY <2>1, <2>2, <2>3, <2>4, <2>5, <2>6, <2>7 DEF IInv
<1>9. CASE OpenSettings
  <2>1. FileTypeOK'
    BY <1>9 DEF IInv, fileVars, watcherVars, taskVars, windowVars, listVars, UIFree, OpenSettings,
      FileTypeOK, Stamps, SaveTypes, Agreement
  <2>2. WindowTypeOK'
    BY <1>9 DEF IInv, fileVars, watcherVars, taskVars, windowVars, listVars, UIFree, OpenSettings,
      WindowTypeOK, Kinds
  <2>3. SaveTypes'
    BY <1>9 DEF IInv, fileVars, watcherVars, taskVars, windowVars, listVars, UIFree, OpenSettings,
      SaveTypes, FileTypeOK, Stamps
  <2>4. SaveKnows'
    BY <1>9 DEF IInv, fileVars, watcherVars, taskVars, windowVars, listVars, UIFree, OpenSettings,
      SaveKnows, SaveTypes, Stamps, FileTypeOK, Agreement
  <2>5. Agreement'
    BY <1>9 DEF IInv, fileVars, watcherVars, taskVars, windowVars, listVars, UIFree, OpenSettings,
      Agreement, SaveTypes, SaveKnows, WindowOrder, TaskEndsWithSettings
  <2>6. OwnFile'
    BY <1>9 DEF IInv, fileVars, watcherVars, taskVars, windowVars, listVars, UIFree, OpenSettings, OwnFile,
      HostLeavesValidFiles, SaveKnows, SaveTypes, Agreement
  <2>7. WindowOrder'
    BY <1>9 DEF IInv, fileVars, watcherVars, taskVars, windowVars, listVars, UIFree, OpenSettings,
      WindowOrder, TaskEndsWithSettings, CloseIsFinal, Agreement
  <2> QED BY <2>1, <2>2, <2>3, <2>4, <2>5, <2>6, <2>7 DEF IInv
<1>10. CASE ChangePlayback \/ ResetPlayback \/ ChangeServer \/ CheckShortcut \/ ChooseProfile \/ LoadModel
  <2>1. PICK value \in Values \cup {Broken}, publish \in BOOLEAN :
          /\ Reachable /\ BeginSave(value, publish)
          /\ UNCHANGED <<taskVars, windowVars, listVars>>
    BY <1>10 DEF ChangePlayback, ResetPlayback, ChangeServer, CheckShortcut, ChooseProfile, LoadModel,
      Edit
  <2>2. /\ up /\ open /\ ~leaving /\ ~judging /\ modal = "none" /\ saving = NotSaving
        /\ document' = value
        /\ UNCHANGED <<disk, backup, saved, published, settled, pending, judging, reported, up, writes,
                       taskVars, windowVars, listVars>>
    BY <2>1 DEF Reachable, UIFree, BeginSave, watcherVars
  <2>3. /\ saving' \in [step : {"none", "read", "backup", "replace"},
                        previous : Values \cup {Broken, None}, stamp : Stamps, publish : BOOLEAN]
        /\ saving'.step = "read" /\ saving'.stamp = 0
    BY <2>1 DEF BeginSave
  <2>4. FileTypeOK' /\ SaveTypes'
    BY <2>2, <2>3 DEF IInv, FileTypeOK, SaveTypes
  <2>5. WindowTypeOK'
    BY <2>2 DEF IInv, WindowTypeOK, taskVars, windowVars, listVars
  <2>6. SaveKnows'
    BY <2>2, <2>3 DEF IInv, SaveKnows, SaveTypes, Stamps
  <2>7. Agreement' /\ OwnFile' /\ WindowOrder'
    BY <2>2, <2>3 DEF IInv, Agreement, OwnFile, HostLeavesValidFiles, WindowOrder,
      TaskEndsWithSettings, CloseIsFinal, taskVars, windowVars, listVars
  <2>8. QED BY <2>4, <2>5, <2>6, <2>7 DEF IInv
<1>11. CASE Download \/ Update \/ Verify \/ Import
  <2>1. FileTypeOK'
    BY <1>11 DEF IInv, fileVars, watcherVars, taskVars, windowVars, listVars, UIFree, Download, Update,
      Verify, Import, Click, StartTask, Stoppable, Reachable, Kinds, FileTypeOK, Stamps,
      SaveTypes, Agreement
  <2>2. WindowTypeOK'
    BY <1>11 DEF IInv, fileVars, watcherVars, taskVars, windowVars, listVars, UIFree, Download, Update,
      Verify, Import, Click, StartTask, Stoppable, Reachable, Kinds, WindowTypeOK
  <2>3. SaveTypes'
    BY <1>11 DEF IInv, fileVars, watcherVars, taskVars, windowVars, listVars, UIFree, Download, Update,
      Verify, Import, Click, StartTask, Stoppable, Reachable, Kinds, SaveTypes, FileTypeOK, Stamps
  <2>4. SaveKnows'
    BY <1>11 DEF IInv, fileVars, watcherVars, taskVars, windowVars, listVars, UIFree, Download, Update,
      Verify, Import, Click, StartTask, Stoppable, Reachable, Kinds, SaveKnows, SaveTypes, Stamps,
      FileTypeOK, Agreement
  <2>5. Agreement'
    BY <1>11 DEF IInv, fileVars, watcherVars, taskVars, windowVars, listVars, UIFree, Download, Update,
      Verify, Import, Click, StartTask, Stoppable, Reachable, Kinds, Agreement, SaveTypes,
      SaveKnows, WindowOrder, TaskEndsWithSettings
  <2>6. OwnFile'
    BY <1>11 DEF IInv, fileVars, watcherVars, taskVars, windowVars, listVars, UIFree, Download, Update,
      Verify, Import, Click, StartTask, Stoppable, Reachable, Kinds, OwnFile,
      HostLeavesValidFiles, SaveKnows, SaveTypes, Agreement
  <2>7. WindowOrder'
    BY <1>11 DEF IInv, fileVars, watcherVars, taskVars, windowVars, listVars, UIFree, Download, Update,
      Verify, Import, Click, StartTask, Stoppable, Reachable, Kinds, WindowOrder,
      TaskEndsWithSettings, CloseIsFinal, Agreement
  <2> QED BY <2>1, <2>2, <2>3, <2>4, <2>5, <2>6, <2>7 DEF IInv
<1>12. CASE TaskEnds
  <2>1. FileTypeOK'
    BY <1>12 DEF IInv, fileVars, watcherVars, taskVars, windowVars, listVars, UIFree, TaskEnds, Kinds,
      FileTypeOK, Stamps, SaveTypes, Agreement
  <2>2. WindowTypeOK'
    <3>1. PICK well \in BOOLEAN :
            outcome' = IF task = "verify" THEN [NoOutcome EXCEPT !.followUp = well]
                       ELSE [NoOutcome EXCEPT !.changed = well]
      BY <1>12 DEF TaskEnds
    <3>2. outcome' \in [changed : BOOLEAN, followUp : BOOLEAN]
      BY <3>1
    <3>3. installed' \in {installed, installed + 1} /\ installed' <= MaxInstalls
      BY <1>12 DEF TaskEnds
    <3>4. installed' \in 0 .. MaxInstalls /\ shown \in 0 .. installed'
      BY <3>3 DEF IInv, WindowTypeOK
    <3>5. QED
      BY <1>12, <3>2, <3>4 DEF IInv, WindowTypeOK, TaskEnds, windowVars, Kinds
  <2>3. SaveTypes'
    BY <1>12 DEF IInv, fileVars, watcherVars, taskVars, windowVars, listVars, UIFree, TaskEnds, Kinds,
      SaveTypes, FileTypeOK, Stamps
  <2>4. SaveKnows'
    BY <1>12 DEF IInv, fileVars, watcherVars, taskVars, windowVars, listVars, UIFree, TaskEnds, Kinds,
      SaveKnows, SaveTypes, Stamps, FileTypeOK, Agreement
  <2>5. Agreement'
    BY <1>12 DEF IInv, fileVars, watcherVars, taskVars, windowVars, listVars, UIFree, TaskEnds, Kinds,
      Agreement, SaveTypes, SaveKnows, WindowOrder, TaskEndsWithSettings
  <2>6. OwnFile'
    BY <1>12 DEF IInv, fileVars, watcherVars, taskVars, windowVars, listVars, UIFree, TaskEnds, Kinds,
      OwnFile, HostLeavesValidFiles, SaveKnows, SaveTypes, Agreement
  <2>7. WindowOrder'
    BY <1>12 DEF IInv, fileVars, watcherVars, taskVars, windowVars, listVars, UIFree, TaskEnds, Kinds,
      WindowOrder, TaskEndsWithSettings, CloseIsFinal, Agreement
  <2> QED BY <2>1, <2>2, <2>3, <2>4, <2>5, <2>6, <2>7 DEF IInv
<1>13. CASE TaskDone
  <2>1. FileTypeOK'
    BY <1>13 DEF IInv, fileVars, watcherVars, taskVars, windowVars, listVars, UIFree, TaskDone, AfterTask,
      ShownAfterTask, Kinds, FileTypeOK, Stamps, SaveTypes, Agreement
  <2>2. WindowTypeOK'
    BY <1>13 DEF IInv, fileVars, watcherVars, taskVars, windowVars, listVars, UIFree, TaskDone, AfterTask,
      ShownAfterTask, Kinds, WindowTypeOK
  <2>3. SaveTypes'
    BY <1>13 DEF IInv, fileVars, watcherVars, taskVars, windowVars, listVars, UIFree, TaskDone, AfterTask,
      ShownAfterTask, Kinds, SaveTypes, FileTypeOK, Stamps
  <2>4. SaveKnows'
    BY <1>13 DEF IInv, fileVars, watcherVars, taskVars, windowVars, listVars, UIFree, TaskDone, AfterTask,
      ShownAfterTask, Kinds, SaveKnows, SaveTypes, Stamps, FileTypeOK, Agreement
  <2>5. Agreement'
    BY <1>13 DEF IInv, fileVars, watcherVars, taskVars, windowVars, listVars, UIFree, TaskDone, AfterTask,
      ShownAfterTask, Kinds, Agreement, SaveTypes, SaveKnows, WindowOrder, TaskEndsWithSettings
  <2>6. OwnFile'
    BY <1>13 DEF IInv, fileVars, watcherVars, taskVars, windowVars, listVars, UIFree, TaskDone, AfterTask,
      ShownAfterTask, Kinds, OwnFile, HostLeavesValidFiles, SaveKnows, SaveTypes, Agreement
  <2>7. WindowOrder'
    BY <1>13 DEF IInv, fileVars, watcherVars, taskVars, windowVars, listVars, UIFree, TaskDone, AfterTask,
      ShownAfterTask, Kinds, WindowOrder, TaskEndsWithSettings, CloseIsFinal, Agreement
  <2> QED BY <2>1, <2>2, <2>3, <2>4, <2>5, <2>6, <2>7 DEF IInv
<1>14. CASE CancelTask
  <2>1. FileTypeOK'
    BY <1>14 DEF IInv, fileVars, watcherVars, taskVars, windowVars, listVars, UIFree, CancelTask, Reachable,
      FileTypeOK, Stamps, SaveTypes, Agreement
  <2>2. WindowTypeOK'
    BY <1>14 DEF IInv, fileVars, watcherVars, taskVars, windowVars, listVars, UIFree, CancelTask, Reachable,
      WindowTypeOK, Kinds
  <2>3. SaveTypes'
    BY <1>14 DEF IInv, fileVars, watcherVars, taskVars, windowVars, listVars, UIFree, CancelTask, Reachable,
      SaveTypes, FileTypeOK, Stamps
  <2>4. SaveKnows'
    BY <1>14 DEF IInv, fileVars, watcherVars, taskVars, windowVars, listVars, UIFree, CancelTask, Reachable,
      SaveKnows, SaveTypes, Stamps, FileTypeOK, Agreement
  <2>5. Agreement'
    BY <1>14 DEF IInv, fileVars, watcherVars, taskVars, windowVars, listVars, UIFree, CancelTask, Reachable,
      Agreement, SaveTypes, SaveKnows, WindowOrder, TaskEndsWithSettings
  <2>6. OwnFile'
    BY <1>14 DEF IInv, fileVars, watcherVars, taskVars, windowVars, listVars, UIFree, CancelTask, Reachable,
      OwnFile, HostLeavesValidFiles, SaveKnows, SaveTypes, Agreement
  <2>7. WindowOrder'
    BY <1>14 DEF IInv, fileVars, watcherVars, taskVars, windowVars, listVars, UIFree, CancelTask, Reachable,
      WindowOrder, TaskEndsWithSettings, CloseIsFinal, Agreement
  <2> QED BY <2>1, <2>2, <2>3, <2>4, <2>5, <2>6, <2>7 DEF IInv
<1>15. CASE AnswerRepair
  <2>1. FileTypeOK'
    BY <1>15 DEF IInv, fileVars, watcherVars, taskVars, windowVars, listVars, UIFree, AnswerRepair,
      StartTask, Stoppable, Kinds, FileTypeOK, Stamps, SaveTypes, Agreement
  <2>2. WindowTypeOK'
    BY <1>15 DEF IInv, fileVars, watcherVars, taskVars, windowVars, listVars, UIFree, AnswerRepair,
      StartTask, Stoppable, Kinds, WindowTypeOK
  <2>3. SaveTypes'
    BY <1>15 DEF IInv, fileVars, watcherVars, taskVars, windowVars, listVars, UIFree, AnswerRepair,
      StartTask, Stoppable, Kinds, SaveTypes, FileTypeOK, Stamps
  <2>4. SaveKnows'
    BY <1>15 DEF IInv, fileVars, watcherVars, taskVars, windowVars, listVars, UIFree, AnswerRepair,
      StartTask, Stoppable, Kinds, SaveKnows, SaveTypes, Stamps, FileTypeOK, Agreement
  <2>5. Agreement'
    BY <1>15 DEF IInv, fileVars, watcherVars, taskVars, windowVars, listVars, UIFree, AnswerRepair,
      StartTask, Stoppable, Kinds, Agreement, SaveTypes, SaveKnows, WindowOrder,
      TaskEndsWithSettings
  <2>6. OwnFile'
    BY <1>15 DEF IInv, fileVars, watcherVars, taskVars, windowVars, listVars, UIFree, AnswerRepair,
      StartTask, Stoppable, Kinds, OwnFile, HostLeavesValidFiles, SaveKnows, SaveTypes, Agreement
  <2>7. WindowOrder'
    BY <1>15 DEF IInv, fileVars, watcherVars, taskVars, windowVars, listVars, UIFree, AnswerRepair,
      StartTask, Stoppable, Kinds, WindowOrder, TaskEndsWithSettings, CloseIsFinal, Agreement
  <2> QED BY <2>1, <2>2, <2>3, <2>4, <2>5, <2>6, <2>7 DEF IInv
<1>16. CASE AskRemoval
  <2>1. FileTypeOK'
    BY <1>16 DEF IInv, fileVars, watcherVars, taskVars, windowVars, listVars, UIFree, AskRemoval, Reachable,
      FileTypeOK, Stamps, SaveTypes, Agreement
  <2>2. WindowTypeOK'
    BY <1>16 DEF IInv, fileVars, watcherVars, taskVars, windowVars, listVars, UIFree, AskRemoval, Reachable,
      WindowTypeOK, Kinds
  <2>3. SaveTypes'
    BY <1>16 DEF IInv, fileVars, watcherVars, taskVars, windowVars, listVars, UIFree, AskRemoval, Reachable,
      SaveTypes, FileTypeOK, Stamps
  <2>4. SaveKnows'
    BY <1>16 DEF IInv, fileVars, watcherVars, taskVars, windowVars, listVars, UIFree, AskRemoval, Reachable,
      SaveKnows, SaveTypes, Stamps, FileTypeOK, Agreement
  <2>5. Agreement'
    BY <1>16 DEF IInv, fileVars, watcherVars, taskVars, windowVars, listVars, UIFree, AskRemoval, Reachable,
      Agreement, SaveTypes, SaveKnows, WindowOrder, TaskEndsWithSettings
  <2>6. OwnFile'
    BY <1>16 DEF IInv, fileVars, watcherVars, taskVars, windowVars, listVars, UIFree, AskRemoval, Reachable,
      OwnFile, HostLeavesValidFiles, SaveKnows, SaveTypes, Agreement
  <2>7. WindowOrder'
    BY <1>16 DEF IInv, fileVars, watcherVars, taskVars, windowVars, listVars, UIFree, AskRemoval, Reachable,
      WindowOrder, TaskEndsWithSettings, CloseIsFinal, Agreement
  <2> QED BY <2>1, <2>2, <2>3, <2>4, <2>5, <2>6, <2>7 DEF IInv
<1>17. CASE Maintain \/ FoldersChange
  <2>1. FileTypeOK'
    BY <1>17 DEF IInv, fileVars, watcherVars, taskVars, windowVars, listVars, UIFree, Maintain,
      FoldersChange, FileTypeOK, Stamps, SaveTypes, Agreement
  <2>2. WindowTypeOK'
    BY <1>17 DEF IInv, fileVars, watcherVars, taskVars, windowVars, listVars, UIFree, Maintain,
      FoldersChange, WindowTypeOK, Kinds
  <2>3. SaveTypes'
    BY <1>17 DEF IInv, fileVars, watcherVars, taskVars, windowVars, listVars, UIFree, Maintain,
      FoldersChange, SaveTypes, FileTypeOK, Stamps
  <2>4. SaveKnows'
    BY <1>17 DEF IInv, fileVars, watcherVars, taskVars, windowVars, listVars, UIFree, Maintain,
      FoldersChange, SaveKnows, SaveTypes, Stamps, FileTypeOK, Agreement
  <2>5. Agreement'
    BY <1>17 DEF IInv, fileVars, watcherVars, taskVars, windowVars, listVars, UIFree, Maintain,
      FoldersChange, Agreement, SaveTypes, SaveKnows, WindowOrder, TaskEndsWithSettings
  <2>6. OwnFile'
    BY <1>17 DEF IInv, fileVars, watcherVars, taskVars, windowVars, listVars, UIFree, Maintain,
      FoldersChange, OwnFile, HostLeavesValidFiles, SaveKnows, SaveTypes, Agreement
  <2>7. WindowOrder'
    BY <1>17 DEF IInv, fileVars, watcherVars, taskVars, windowVars, listVars, UIFree, Maintain,
      FoldersChange, WindowOrder, TaskEndsWithSettings, CloseIsFinal, Agreement
  <2> QED BY <2>1, <2>2, <2>3, <2>4, <2>5, <2>6, <2>7 DEF IInv
<1>18. CASE DeclineRemoval
  <2>1. FileTypeOK'
    BY <1>18 DEF IInv, fileVars, watcherVars, taskVars, windowVars, listVars, UIFree, DeclineRemoval,
      FileTypeOK, Stamps, SaveTypes, Agreement
  <2>2. WindowTypeOK'
    BY <1>18 DEF IInv, fileVars, watcherVars, taskVars, windowVars, listVars, UIFree, DeclineRemoval,
      WindowTypeOK, Kinds
  <2>3. SaveTypes'
    BY <1>18 DEF IInv, fileVars, watcherVars, taskVars, windowVars, listVars, UIFree, DeclineRemoval,
      SaveTypes, FileTypeOK, Stamps
  <2>4. SaveKnows'
    BY <1>18 DEF IInv, fileVars, watcherVars, taskVars, windowVars, listVars, UIFree, DeclineRemoval,
      SaveKnows, SaveTypes, Stamps, FileTypeOK, Agreement
  <2>5. Agreement'
    BY <1>18 DEF IInv, fileVars, watcherVars, taskVars, windowVars, listVars, UIFree, DeclineRemoval,
      Agreement, SaveTypes, SaveKnows, WindowOrder, TaskEndsWithSettings
  <2>6. OwnFile'
    BY <1>18 DEF IInv, fileVars, watcherVars, taskVars, windowVars, listVars, UIFree, DeclineRemoval,
      OwnFile, HostLeavesValidFiles, SaveKnows, SaveTypes, Agreement
  <2>7. WindowOrder'
    BY <1>18 DEF IInv, fileVars, watcherVars, taskVars, windowVars, listVars, UIFree, DeclineRemoval,
      WindowOrder, TaskEndsWithSettings, CloseIsFinal, Agreement
  <2> QED BY <2>1, <2>2, <2>3, <2>4, <2>5, <2>6, <2>7 DEF IInv
<1>19. CASE WatchFolders
  <2>1. FileTypeOK'
    BY <1>19 DEF IInv, fileVars, watcherVars, taskVars, windowVars, listVars, UIFree, WatchFolders,
      WatchesAlways, FileTypeOK, Stamps, SaveTypes, Agreement
  <2>2. WindowTypeOK'
    BY <1>19 DEF IInv, fileVars, watcherVars, taskVars, windowVars, listVars, UIFree, WatchFolders,
      WatchesAlways, WindowTypeOK, Kinds
  <2>3. SaveTypes'
    BY <1>19 DEF IInv, fileVars, watcherVars, taskVars, windowVars, listVars, UIFree, WatchFolders,
      WatchesAlways, SaveTypes, FileTypeOK, Stamps
  <2>4. SaveKnows'
    BY <1>19 DEF IInv, fileVars, watcherVars, taskVars, windowVars, listVars, UIFree, WatchFolders,
      WatchesAlways, SaveKnows, SaveTypes, Stamps, FileTypeOK, Agreement
  <2>5. Agreement'
    BY <1>19 DEF IInv, fileVars, watcherVars, taskVars, windowVars, listVars, UIFree, WatchFolders,
      WatchesAlways, Agreement, SaveTypes, SaveKnows, WindowOrder, TaskEndsWithSettings
  <2>6. OwnFile'
    BY <1>19 DEF IInv, fileVars, watcherVars, taskVars, windowVars, listVars, UIFree, WatchFolders,
      WatchesAlways, OwnFile, HostLeavesValidFiles, SaveKnows, SaveTypes, Agreement
  <2>7. WindowOrder'
    BY <1>19 DEF IInv, fileVars, watcherVars, taskVars, windowVars, listVars, UIFree, WatchFolders,
      WatchesAlways, WindowOrder, TaskEndsWithSettings, CloseIsFinal, Agreement
  <2> QED BY <2>1, <2>2, <2>3, <2>4, <2>5, <2>6, <2>7 DEF IInv
<1>20. CASE Close
  <2>1. FileTypeOK'
    BY <1>20 DEF IInv, fileVars, watcherVars, taskVars, windowVars, listVars, UIFree, Close, CloseAfterTask,
      Reachable, FileTypeOK, Stamps, SaveTypes, Agreement
  <2>2. WindowTypeOK'
    BY <1>20 DEF IInv, fileVars, watcherVars, taskVars, windowVars, listVars, UIFree, Close, CloseAfterTask,
      Reachable, WindowTypeOK, Kinds
  <2>3. SaveTypes'
    BY <1>20 DEF IInv, fileVars, watcherVars, taskVars, windowVars, listVars, UIFree, Close, CloseAfterTask,
      Reachable, SaveTypes, FileTypeOK, Stamps
  <2>4. SaveKnows'
    BY <1>20 DEF IInv, fileVars, watcherVars, taskVars, windowVars, listVars, UIFree, Close, CloseAfterTask,
      Reachable, SaveKnows, SaveTypes, Stamps, FileTypeOK, Agreement
  <2>5. Agreement'
    BY <1>20 DEF IInv, fileVars, watcherVars, taskVars, windowVars, listVars, UIFree, Close, CloseAfterTask,
      Reachable, Agreement, SaveTypes, SaveKnows, WindowOrder, TaskEndsWithSettings
  <2>6. OwnFile'
    BY <1>20 DEF IInv, fileVars, watcherVars, taskVars, windowVars, listVars, UIFree, Close, CloseAfterTask,
      Reachable, OwnFile, HostLeavesValidFiles, SaveKnows, SaveTypes, Agreement
  <2>7. WindowOrder'
    BY <1>20 DEF IInv, fileVars, watcherVars, taskVars, windowVars, listVars, UIFree, Close, CloseAfterTask,
      Reachable, WindowOrder, TaskEndsWithSettings, CloseIsFinal, Agreement
  <2> QED BY <2>1, <2>2, <2>3, <2>4, <2>5, <2>6, <2>7 DEF IInv
<1>21. CASE Quit
  <2>1. FileTypeOK'
    BY <1>21 DEF IInv, fileVars, watcherVars, taskVars, windowVars, listVars, UIFree, Quit, DestructorStop,
      Stopped, FileTypeOK, Stamps, SaveTypes, Agreement
  <2>2. WindowTypeOK'
    BY <1>21 DEF IInv, fileVars, watcherVars, taskVars, windowVars, listVars, UIFree, Quit, DestructorStop,
      Stopped, WindowTypeOK, Kinds
  <2>3. SaveTypes'
    BY <1>21 DEF IInv, fileVars, watcherVars, taskVars, windowVars, listVars, UIFree, Quit, DestructorStop,
      Stopped, SaveTypes, FileTypeOK, Stamps
  <2>4. SaveKnows'
    BY <1>21 DEF IInv, fileVars, watcherVars, taskVars, windowVars, listVars, UIFree, Quit, DestructorStop,
      Stopped, SaveKnows, SaveTypes, Stamps, FileTypeOK, Agreement
  <2>5. Agreement'
    BY <1>21 DEF IInv, fileVars, watcherVars, taskVars, windowVars, listVars, UIFree, Quit, DestructorStop,
      Stopped, Agreement, SaveTypes, SaveKnows, WindowOrder, TaskEndsWithSettings
  <2>6. OwnFile'
    BY <1>21 DEF IInv, fileVars, watcherVars, taskVars, windowVars, listVars, UIFree, Quit, DestructorStop,
      Stopped, OwnFile, HostLeavesValidFiles, SaveKnows, SaveTypes, Agreement
  <2>7. WindowOrder'
    BY <1>21 DEF IInv, fileVars, watcherVars, taskVars, windowVars, listVars, UIFree, Quit, DestructorStop,
      Stopped, WindowOrder, TaskEndsWithSettings, CloseIsFinal, Agreement
  <2> QED BY <2>1, <2>2, <2>3, <2>4, <2>5, <2>6, <2>7 DEF IInv
<1>22. CASE Leave
  <2>1. FileTypeOK'
    BY <1>22 DEF IInv, fileVars, watcherVars, taskVars, windowVars, listVars, UIFree, Leave, JoinTask,
      Stopped, PublishedOnClose, Kinds, FileTypeOK, Stamps, SaveTypes, Agreement
  <2>2. WindowTypeOK'
    BY <1>22 DEF IInv, fileVars, watcherVars, taskVars, windowVars, listVars, UIFree, Leave, JoinTask,
      Stopped, PublishedOnClose, Kinds, WindowTypeOK
  <2>3. SaveTypes'
    BY <1>22 DEF IInv, fileVars, watcherVars, taskVars, windowVars, listVars, UIFree, Leave, JoinTask,
      Stopped, PublishedOnClose, Kinds, SaveTypes, FileTypeOK, Stamps
  <2>4. SaveKnows'
    BY <1>22 DEF IInv, fileVars, watcherVars, taskVars, windowVars, listVars, UIFree, Leave, JoinTask,
      Stopped, PublishedOnClose, Kinds, SaveKnows, SaveTypes, Stamps, FileTypeOK, Agreement
  <2>5. Agreement'
    BY <1>22 DEF IInv, fileVars, watcherVars, taskVars, windowVars, listVars, UIFree, Leave, JoinTask,
      Stopped, PublishedOnClose, Kinds, Agreement, SaveTypes, SaveKnows, WindowOrder,
      TaskEndsWithSettings
  <2>6. OwnFile'
    BY <1>22 DEF IInv, fileVars, watcherVars, taskVars, windowVars, listVars, UIFree, Leave, JoinTask,
      Stopped, PublishedOnClose, Kinds, OwnFile, HostLeavesValidFiles, SaveKnows, SaveTypes,
      Agreement
  <2>7. WindowOrder'
    BY <1>22 DEF IInv, fileVars, watcherVars, taskVars, windowVars, listVars, UIFree, Leave, JoinTask,
      Stopped, PublishedOnClose, Kinds, WindowOrder, TaskEndsWithSettings, CloseIsFinal, Agreement
  <2> QED BY <2>1, <2>2, <2>3, <2>4, <2>5, <2>6, <2>7 DEF IInv
<1>23. CASE UNCHANGED vars
  <2>1. FileTypeOK'
    BY <1>23 DEF IInv, fileVars, watcherVars, taskVars, windowVars, listVars, UIFree, vars, FileTypeOK,
      Stamps, SaveTypes, Agreement
  <2>2. WindowTypeOK'
    BY <1>23 DEF IInv, fileVars, watcherVars, taskVars, windowVars, listVars, UIFree, vars, WindowTypeOK,
      Kinds
  <2>3. SaveTypes'
    BY <1>23 DEF IInv, fileVars, watcherVars, taskVars, windowVars, listVars, UIFree, vars, SaveTypes,
      FileTypeOK, Stamps
  <2>4. SaveKnows'
    BY <1>23 DEF IInv, fileVars, watcherVars, taskVars, windowVars, listVars, UIFree, vars, SaveKnows,
      SaveTypes, Stamps, FileTypeOK, Agreement
  <2>5. Agreement'
    BY <1>23 DEF IInv, fileVars, watcherVars, taskVars, windowVars, listVars, UIFree, vars, Agreement,
      SaveTypes, SaveKnows, WindowOrder, TaskEndsWithSettings
  <2>6. OwnFile'
    BY <1>23 DEF IInv, fileVars, watcherVars, taskVars, windowVars, listVars, UIFree, vars, OwnFile,
      HostLeavesValidFiles, SaveKnows, SaveTypes, Agreement
  <2>7. WindowOrder'
    BY <1>23 DEF IInv, fileVars, watcherVars, taskVars, windowVars, listVars, UIFree, vars, WindowOrder,
      TaskEndsWithSettings, CloseIsFinal, Agreement
  <2> QED BY <2>1, <2>2, <2>3, <2>4, <2>5, <2>6, <2>7 DEF IInv
<1>24. QED
  BY <1>1, <1>2, <1>3, <1>4, <1>5, <1>6, <1>7, <1>8, <1>9, <1>10, <1>11, <1>12, <1>13, <1>14,
    <1>15, <1>16, <1>17, <1>18, <1>19, <1>20, <1>21, <1>22, <1>23 DEF Next, Save

\* Every step of the window is one of the file's operations, or leaves the file,
\* its watcher and the document alone.
LEMMA FileSteps ==
  ASSUME Next
  PROVE  \/ ExternalEdit \/ Poll \/ Judge \/ ReadPrevious \/ ReplaceBackup \/ ReplaceConfig
         \/ Start \/ Stopped
         \/ \E value \in Values \cup {Broken}, publish \in BOOLEAN : BeginSave(value, publish)
         \/ UNCHANGED <<disk, backup, document, watcherVars, saving, up>>
<1>1. CASE Editor \/ PollConfig \/ JudgeConfig \/ Save \/ StartHost \/ Crash
  BY <1>1 DEF Editor, PollConfig, JudgeConfig, Save, StartHost, Crash
<1>2. CASE ChangePlayback \/ ResetPlayback \/ ChangeServer \/ CheckShortcut \/ ChooseProfile \/ LoadModel
  BY <1>2 DEF ChangePlayback, ResetPlayback, ChangeServer, CheckShortcut, ChooseProfile, LoadModel, Edit
<1>3. CASE \/ Download \/ Update \/ Verify \/ Import \/ TaskEnds \/ TaskDone \/ CancelTask
           \/ AnswerRepair \/ AskRemoval \/ Maintain \/ FoldersChange \/ DeclineRemoval \/ WatchFolders \/ Close
  BY <1>3 DEF Download, Update, Verify, Import, Click, TaskEnds, TaskDone, CancelTask, AnswerRepair,
    AskRemoval, Maintain, FoldersChange, DeclineRemoval, WatchFolders, Close, fileVars
<1>4. CASE OpenSettings \/ Quit \/ Leave
  BY <1>4 DEF OpenSettings, Quit, Leave, fileVars
<1>5. QED BY <1>1, <1>2, <1>3, <1>4 DEF Next

-----------------------------------------------------------------------------
(* What every behaviour of the specification satisfies.                    *)

LEMMA Invariance == Spec => []IInv
BY IInvInit, IInvStep, PTL DEF Spec

\* Every variable of the window and of the file keeps its type.
THEOREM TypeCorrect == Spec => []TypeOK
<1>1. IInv => TypeOK
  BY DEF IInv, TypeOK, WindowTypeOK
<1>2. QED BY <1>1, Invariance, PTL

\* Between two messages the document on display is the saved one while Settings
\* is open, and the published one while it is closed, whatever saves, rollbacks,
\* reloads, crashes and restarts came before.
THEOREM DocumentsStayInAgreement == Spec => []DocumentsAgree
<1>1. IInv => DocumentsAgree
  BY DEF IInv, Agreement, DocumentsAgree, SettingsEditsWhatIsSaved, TrayPublishesItsDocument, UIFree,
    TypeOK, WindowTypeOK
<1>2. QED BY <1>1, Invariance, PTL

\* The Host leaves only valid files behind, retains every valid document it
\* replaces, though an editor wrote it and the Host never loaded it, and does not
\* take its own save for an outside edit.
THEOREM FileStaysSafe == Spec => FileIsSafe
<1> DEFINE Retains == (disk' # disk /\ disk'.by = "host" /\ disk.value \in Values
                         /\ disk.stamp = saving.stamp) => backup = disk.value
           Edited == (up' /\ judging /\ ~judging' /\ document' # document) => disk.by = "editor"
<1>1. IInv => HostLeavesValidFiles
  BY DEF IInv, OwnFile
<1>2. IInv /\ [Next]_vars => [Retains]_fileVars
  <2> SUFFICES ASSUME IInv, Next, disk' # disk, disk'.by = "host", disk.value \in Values,
                      disk.stamp = saving.stamp
               PROVE  backup = disk.value
    BY DEF vars
  <2>1. ReplaceConfig
    <3>1. ~ExternalEdit
      BY DEF ExternalEdit, Written
    <3>2. ~(Poll \/ Judge \/ ReadPrevious \/ ReplaceBackup \/ Start \/ Stopped)
      BY DEF Poll, Judge, Apply, Reject, ReadPrevious, SaveFails, ReplaceBackup, Start, Stopped
    <3>3. ASSUME NEW value, NEW publish PROVE ~BeginSave(value, publish)
      BY DEF BeginSave
    <3>4. QED BY FileSteps, <3>1, <3>2, <3>3
  <2>2. saving.step = "replace"
    BY <2>1 DEF ReplaceConfig
  <2>3. QED BY <2>2 DEF IInv, SaveKnows
<1>3. IInv /\ [Next]_vars => [Edited]_vars
  <2> SUFFICES ASSUME IInv, Next, up', judging, ~judging', document' # document
               PROVE  disk.by = "editor"
    OBVIOUS
  <2>1. Judge
    BY FileSteps DEF ExternalEdit, Poll, ReadPrevious, SaveFails, ReplaceBackup, ReplaceConfig,
      Start, Stopped, BeginSave, watcherVars
  <2>2. disk.value # document
    BY <2>1 DEF Judge, Apply, Reject
  <2>3. up /\ ~open /\ disk.by \in {"editor", "host"}
    BY DEF IInv, Agreement, FileTypeOK
  <2>4. QED BY <2>2, <2>3 DEF IInv, OwnFile
<1>4. QED
  BY <1>1, <1>2, <1>3, Invariance, PTL
  DEF Spec, FileIsSafe, ReplacedIsRetained, OwnSavesAreNotEdits

\* The task ends no later than the window it reports into, and after a close that
\* waits for it the window asks and starts nothing any more.
THEOREM WindowEndsAfterItsTask == Spec => [](TaskEndsWithSettings /\ CloseIsFinal)
BY Invariance, PTL DEF IInv, WindowOrder

=============================================================================
