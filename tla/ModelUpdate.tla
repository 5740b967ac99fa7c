---------------------------- MODULE ModelUpdate ----------------------------
(***************************************************************************)
(* The package folders of one model id in one writable model directory     *)
(* (src/src/model_update.cpp, with the staging of catalogue_download.cpp   *)
(* and the scan of model_registry.cpp): install, update, revert, removal   *)
(* and repair move folders about, any step may fail or be the last one     *)
(* before a crash, and the next start recovers.                            *)
(*                                                                         *)
(* Every rename, journal write and deletion is a step of its own.  A folder *)
(* holds the manifest, written last, and the assets; downloading them is   *)
(* one step, since nothing but the staging folder is touched.  A journal    *)
(* is created empty and gets its few bytes when it is closed, so a crash   *)
(* may leave it empty.  Operations do not overlap, and no second process   *)
(* starts while one runs.  Left out: the bundled tier, superseded copies,  *)
(* and a journal whose bytes the disk refuses at the close, which the code *)
(* does not notice.                                                        *)
(***************************************************************************)
EXTENDS Naturals, FiniteSets

CONSTANTS
  Assets,       \* the downloaded files of the package
  Manifest,     \* model.json
  Folders,      \* names of the installed folder at first: its id, or any other
  MaxRevision,  \* bound on catalogue revisions
  MaxCrashes,   \* bound on crashes
  MaxFaults,    \* bound on file operations that fail
  MaxDamage     \* bound on files damaged by something else

ASSUME UpdateAssumption ==
  /\ Manifest \notin Assets
  /\ Folders \subseteq {"id", "other"}
  /\ MaxRevision \in Nat \ {0}
  /\ MaxCrashes \in Nat /\ MaxFaults \in Nat /\ MaxDamage \in Nat

VARIABLES
  disk,       \* the folders
  updating,   \* the update journal: the revision in the folder name it holds,
              \* Unnamed for an empty one, or None
  repairing,  \* the repair journal: the folder it names, or NoPath
  catalogue,  \* the revision the host's compiled-in catalogue has
  strict,     \* whether loading the package looks at its assets (Qwen)
  pc,         \* the next step of the running operation or of the recovery
  task,       \* its local variables
  promise,    \* history: what the last operation must not make untrue
  former,     \* history: the revision in use when it began, with nothing unfinished
  removed,    \* history: the user has removed the package
  crashes, faults, damage

boundVars == <<crashes, faults, damage>>
historyVars == <<promise, former, removed>>
vars == <<disk, updating, repairing, catalogue, strict, pc, task, historyVars,
          boundVars>>

None == 0
Revisions == 1 .. MaxRevision
Unnamed == MaxRevision + 1
Files == Assets \union {Manifest}
Nothing == [rev |-> None, files |-> [f \in Files |-> "none"]]

Installed(name) == <<name, None>>
Aside(name) == <<name, 1>>                  \* .<name>.removing
Previous(r) == <<"previous", r>>           \* .previous/<id>@<revision>
PreviousAside == <<"previousAside", None>>  \* .previous/.<id>@<revision>.removing
Staging == <<"staging", None>>              \* .<id>.downloading
Discard == <<"discard", None>>              \* .<id>.damaged
Parking == <<"parking", None>>              \* .previous/.<id>.reverting
Home == Installed("id")
NoPath == <<"none", None>>

Paths ==
  {Installed(n) : n \in {"id", "other"}} \union {Aside(n) : n \in {"id", "other"}}
    \union {Previous(r) : r \in Revisions}
    \union {PreviousAside, Staging, Discard, Parking}

NoTask ==
  [op |-> "none", from |-> Home, kept |-> None, doomed |-> {}, broken |-> {}, left |-> {}]

-----------------------------------------------------------------------------
(* What the scan sees.                                                     *)

Exists(p) == disk[p] # Nothing
Present(p) == {f \in Files : disk[p].files[f] \in {"good", "bad"}}

\* validate_model_package: the manifest parses, and for Qwen the assets are
\* there.  (A file damaged in a way that shows counts as a missing one.)
Validates(p) ==
  /\ disk[p].files[Manifest] = "good"
  /\ strict => Assets \subseteq Present(p)

Identified(p) == disk[p].files[Manifest] = "good"

Candidates == {Installed("id"), Installed("other")}
Discovered == {p \in Candidates : Validates(p)}
Damaged == IF Discovered # {} THEN {} ELSE {p \in Candidates : Identified(p)}
Maintained == Discovered \union Damaged
PreviousVersions == {r \in Revisions : Identified(Previous(r))}

Whole(r) == [rev |-> r, files |-> [f \in Files |-> "good"]]
Good(p) == {a \in Assets : disk[p].files[a] = "good"}
Staged(r, S) == [rev |-> r, files |-> [f \in Files |-> IF f \in S THEN "good" ELSE "none"]]

Init ==
  /\ \E n \in Folders :
       disk = [p \in Paths |-> IF p = Installed(n) THEN Whole(1) ELSE Nothing]
  /\ updating = None /\ repairing = NoPath
  /\ catalogue = 1 /\ strict \in BOOLEAN
  /\ pc = "idle" /\ task = NoTask
  /\ promise = {} /\ former = {} /\ removed = FALSE
  /\ crashes = 0 /\ faults = 0 /\ damage = 0

-----------------------------------------------------------------------------
(* Steps.                                                                  *)

Goto(next) ==
  /\ pc' = next
  /\ task' = IF next = "idle" THEN NoTask ELSE task

Step(at, next) ==
  /\ pc = at /\ Goto(next)
  /\ UNCHANGED <<disk, updating, repairing, catalogue, strict, historyVars, boundVars>>

\* An operation of the file system fails for a reason of its own.
Fault == faults < MaxFaults /\ faults' = faults + 1

FileStep == UNCHANGED <<updating, repairing, catalogue, strict, promise, former, crashes, damage>>

\* A rename to a name that exists fails, and any other may.
Rename(at, from, to, next, failed) ==
  /\ pc = at
  /\ \/ /\ ~Exists(to)
        /\ disk' = [disk EXCEPT ![to] = disk[from], ![from] = Nothing]
        /\ Goto(next)
        /\ UNCHANGED faults
     \/ /\ IF Exists(to) THEN UNCHANGED faults ELSE Fault
        /\ Goto(failed)
        /\ UNCHANGED disk
  /\ FileStep /\ UNCHANGED removed

\* Nothing reads a folder that was moved aside to be deleted.
Unread == {Aside("id"), Aside("other"), PreviousAside}

\* remove_all deletes one file after another, which matters where the rest of
\* the folder may still be read.
Delete(at, p, next) ==
  /\ pc = at
  /\ \/ /\ Present(p) = {} \/ p \in Unread
        /\ disk' = [disk EXCEPT ![p] = Nothing]
        /\ Goto(next)
     \/ /\ p \notin Unread
        /\ \E f \in Present(p) : disk' = [disk EXCEPT ![p].files[f] = "none"]
        /\ UNCHANGED <<pc, task>>
  /\ FileStep /\ UNCHANGED <<removed, faults>>

\* It may fail on any of them.
DeleteOrFail(at, p, next, failed) ==
  \/ Delete(at, p, next)
  \/ /\ pc = at /\ Exists(p) /\ Fault /\ Goto(failed)
     /\ FileStep /\ UNCHANGED <<disk, removed>>

\* put_back_missing_files moves one staged file after another.
MissingIn(p) == Present(Staging) \ Present(p)

PutBack(at, p, next, failed) ==
  /\ pc = at
  /\ \/ MissingIn(p) = {} /\ Goto(next) /\ UNCHANGED <<disk, faults>>
     \/ /\ \E f \in MissingIn(p) :
             disk' = [disk EXCEPT ![p].files[f] = disk[Staging].files[f],
                                  ![Staging].files[f] = "none"]
        /\ UNCHANGED <<pc, task, faults>>
     \/ MissingIn(p) # {} /\ Fault /\ Goto(failed) /\ UNCHANGED disk
  /\ FileStep /\ UNCHANGED removed

\* Writes or removes the journal of an update, or of a repair.
Journal(at, revision, folder, next, failed) ==
  /\ pc = at
  /\ \/ updating' = revision /\ repairing' = folder /\ Goto(next) /\ UNCHANGED faults
     \/ Fault /\ Goto(failed) /\ UNCHANGED <<updating, repairing>>
  /\ UNCHANGED <<disk, catalogue, strict, historyVars, crashes, damage>>

UpdateJournal(at, revision, next, failed) == Journal(at, revision, repairing, next, failed)
RepairJournal(at, folder, next, failed) == Journal(at, updating, folder, next, failed)

\* What the next start has to recover.
Unfinished == updating # None \/ repairing # NoPath \/ Exists(Parking)

Usable == Discovered # {}
Installation == {p \in Candidates : Exists(p)}

Lacks(p) == {f \in Files : disk[p].files[f] = "none"}
AllWhole(S) == \A p \in S : Exists(p) => Lacks(p) = {}

\* What an operation that does not remove the package must not make untrue.
Promise ==
  {c \in {"present", "usable", "whole"} :
     CASE c = "present" -> Installation # {}
       [] c = "usable" -> Usable
       [] c = "whole" -> /\ Installation # {} /\ ~Unfinished
                         /\ AllWhole(Candidates \union {Previous(r) : r \in Revisions})}

Begin(first, locals, folders, what) ==
  /\ pc = "idle"
  /\ pc' = first /\ task' = locals
  /\ disk' = folders
  /\ promise' = what
  /\ former' = IF what = {} \/ Unfinished THEN {} ELSE {disk[p].rev : p \in Discovered}
  /\ removed' = (removed /\ first # "install")
  /\ UNCHANGED <<updating, repairing, catalogue, strict, boundVars>>

-----------------------------------------------------------------------------
(* Install and update.                                                     *)

Stage(r) == [disk EXCEPT ![Staging] = Whole(r)]

BeginInstall ==
  /\ Maintained = {} /\ ~Exists(Home)
  /\ Begin("install", NoTask, Stage(catalogue), {})

Install ==
  /\ Rename("install", Staging, Home, "idle", "idle")

\* A download that is cancelled or fails leaves what it has fetched.
DownloadFails ==
  /\ pc = "idle"
  /\ \E S \in SUBSET Assets : disk' = [disk EXCEPT ![Staging] = Staged(catalogue, S)]
  /\ UNCHANGED <<updating, repairing, catalogue, strict, pc, task, historyVars, boundVars>>

BeginUpdate ==
  \E p \in Maintained :
    /\ disk[p].rev # catalogue
    /\ Begin(IF p \in Damaged THEN "clearAside" ELSE "dropPrevious",
             [NoTask EXCEPT !.op = "update", !.from = p, !.doomed = PreviousVersions],
             Stage(catalogue), Promise)

\* remove_previous_versions_in, and delete_previous_model_versions
DropPrevious ==
  \/ /\ \A r \in task.doomed : ~Exists(Previous(r))
     /\ Step("dropPrevious", IF task.op = "update" THEN "writeJournal" ELSE "idle")
  \/ \E r \in task.doomed : Exists(Previous(r)) /\ DeleteOrFail("dropPrevious", Previous(r), "dropPrevious", "idle")

CurrentRevision == disk[task.from].rev

WriteJournal == UpdateJournal("writeJournal", CurrentRevision, "moveOut", "idle")
MoveOut == Rename("moveOut", task.from, Previous(CurrentRevision), "moveIn", "endUpdate")
MoveIn == Rename("moveIn", Staging, Home, "endUpdate", "moveBack")
MoveBack == Rename("moveBack", Previous(updating), task.from, "endUpdate", "idle")
RemoveJournal == UpdateJournal("endUpdate", None, "idle", "idle")

\* A damaged package is not kept.
AsideOf(p) == Aside(p[1])
ClearAside == DeleteOrFail("clearAside", AsideOf(task.from), "asideOut", "idle")
AsideOut == Rename("asideOut", task.from, AsideOf(task.from), "asideIn", "idle")
AsideIn == Rename("asideIn", Staging, Home, "deleteAside", "asideBack")
AsideBack == Rename("asideBack", AsideOf(task.from), task.from, "idle", "idle")
DeleteAside == DeleteOrFail("deleteAside", AsideOf(task.from), "idle", "idle")

-----------------------------------------------------------------------------
(* Revert, and deleting the previous version.                              *)

BeginRevert ==
  \E p \in Discovered, r \in PreviousVersions :
    /\ ~Exists(Parking)
    /\ Begin("park", [NoTask EXCEPT !.from = p, !.kept = r], disk, Promise)

Park == Rename("park", task.from, Parking, "restore", "idle")
Restore == Rename("restore", Previous(task.kept), Home, "check", "unpark")
CheckRestored == Step("check", IF Validates(Home) THEN "keep" ELSE "unrestore")
Unrestore == Rename("unrestore", Home, Previous(task.kept), "unpark", "idle")
Unpark == Rename("unpark", Parking, task.from, "idle", "idle")
Keep == Rename("keep", Parking, Previous(disk[Parking].rev), "idle", "idle")

BeginDeletePrevious ==
  /\ PreviousVersions # {}
  /\ Begin("dropPrevious", [NoTask EXCEPT !.op = "delete", !.doomed = PreviousVersions],
           disk, Promise)

-----------------------------------------------------------------------------
(* Removal.                                                                *)

\* `doomed` is the previous version to remove as well.
BeginRemove ==
  \E p \in Maintained, S \in {{}} \union {{r} : r \in PreviousVersions} :
    Begin("clear", [NoTask EXCEPT !.from = p, !.doomed = S], disk, {})

Clear == DeleteOrFail("clear", AsideOf(task.from), "moveAside", "idle")
MoveAside ==
  /\ pc = "moveAside"
  /\ \/ /\ ~Exists(AsideOf(task.from))
        /\ disk' = [disk EXCEPT ![AsideOf(task.from)] = disk[task.from], ![task.from] = Nothing]
        /\ Goto("erase")
        /\ removed' = (/\ Installation = {task.from} /\ ~Unfinished)
        /\ UNCHANGED faults
     \/ Fault /\ Goto("idle") /\ UNCHANGED <<disk, removed>>
  /\ FileStep
Erase == DeleteOrFail("erase", AsideOf(task.from), IF task.doomed = {} THEN "idle" ELSE "clearPrevious", "idle")
ClearPrevious == DeleteOrFail("clearPrevious", PreviousAside, "previousAside", "idle")
MovePreviousAside ==
  \E r \in task.doomed : Rename("previousAside", Previous(r), PreviousAside, "erasePrevious", "idle")
ErasePrevious == DeleteOrFail("erasePrevious", PreviousAside, "idle", "idle")

-----------------------------------------------------------------------------
(* Repair.                                                                 *)

\* Verify finds the broken assets, and they are downloaded.
BeginRepair ==
  \E p \in Maintained :
    LET broken == Assets \ Good(p) IN
    /\ disk[p].rev = catalogue /\ broken # {}
    /\ Begin("startRepair", [NoTask EXCEPT !.from = p, !.broken = broken],
             [disk EXCEPT ![Staging] = Staged(catalogue, broken)], Promise)

StartRepair == RepairJournal("startRepair", task.from, "gather", "idle")

Gather ==
  LET left == {a \in Assets \ task.broken : a \in Present(task.from)} IN
  /\ pc = "gather"
  /\ \/ left = {} /\ Goto("assemble") /\ UNCHANGED <<disk, faults>>
     \/ /\ \E a \in left :
             disk' = [disk EXCEPT ![Staging].files[a] = disk[task.from].files[a],
                                  ![task.from].files[a] = "none"]
        /\ UNCHANGED <<pc, task, faults>>
     \/ left # {} /\ Fault /\ Goto("rollBack") /\ UNCHANGED disk
  /\ FileStep /\ UNCHANGED removed

\* The manifest is written and the staged package validated.
Assemble ==
  /\ pc = "assemble"
  /\ \/ /\ disk' = [disk EXCEPT ![Staging].files[Manifest] = "good"]
        /\ Goto("clearDiscard")
        /\ UNCHANGED faults
     \/ Fault /\ Goto("rollBack") /\ UNCHANGED disk
  /\ FileStep /\ UNCHANGED removed

ClearDiscard == DeleteOrFail("clearDiscard", Discard, "damagedOut", "idle")
DamagedOut == Rename("damagedOut", task.from, Discard, "repairedIn", "rollBack")
RepairedIn == Rename("repairedIn", Staging, task.from, "endRepair", "damagedBack")
DamagedBack == Rename("damagedBack", Discard, task.from, "rollBack", "idle")
\* Mutant: the journal of a repair that rolls back ends before the files are put back.
RollBackForgets == Step("rollBack", "rolledBack")
RollBack == PutBack("rollBack", task.from, "rolledBack", "idle")
RolledBack == RepairJournal("rolledBack", NoPath, "idle", "idle")
EndRepair == RepairJournal("endRepair", NoPath, "deleteDiscard", "idle")
DeleteDiscard == DeleteOrFail("deleteDiscard", Discard, "idle", "idle")

-----------------------------------------------------------------------------
(* Crashes, starts, and what else happens to the files.                    *)

\* A power loss may take the manifest that was written last.  A crash in the
\* write of a journal may leave it empty; an empty repair journal stands for the
\* folder that has the name of the id.
Crash ==
  /\ pc \notin {"idle", "down"} /\ crashes < MaxCrashes
  /\ crashes' = crashes + 1
  /\ pc' = "down" /\ task' = NoTask
  /\ disk' \in {disk, [disk EXCEPT ![Staging].files[Manifest] = "none"]}
  /\ updating' \in {updating} \union IF pc = "writeJournal" THEN {Unnamed} ELSE {}
  /\ repairing' \in {repairing} \union IF pc = "startRepair" THEN {Home} ELSE {}
  /\ UNCHANGED <<catalogue, strict, historyVars, faults, damage>>

Quit == Step("idle", "down")

Leftovers == {p \in Unread : Exists(p)}

\* The next start may be that of a newer host.
Start ==
  /\ pc = "down" /\ pc' = "sweep"
  /\ task' = [NoTask EXCEPT !.left = Leftovers]
  /\ catalogue' \in {catalogue, catalogue + 1} \intersect Revisions
  /\ UNCHANGED <<disk, updating, repairing, strict, historyVars, boundVars>>

Damage ==
  /\ pc = "idle" /\ damage < MaxDamage
  /\ damage' = damage + 1
  /\ \E p \in Installation, a \in Assets, how \in {"bad", "gone"} :
       disk' = [disk EXCEPT ![p].files[a] = how]
  /\ promise' = {} /\ former' = {}
  /\ UNCHANGED <<updating, repairing, catalogue, strict, pc, task, removed, crashes, faults>>

-----------------------------------------------------------------------------
(* recover_interrupted_model_updates.  What to do next follows from what is *)
(* on the disk.  A rename that fails throws, which ends the start; a       *)
(* leftover or a discarded folder that cannot be deleted stays.            *)

Sweep ==
  /\ pc = "sweep"
  /\ \/ \E p \in task.left :
          /\ task' = [task EXCEPT !.left = @ \ {p}]
          /\ \/ disk' = [disk EXCEPT ![p] = Nothing] /\ UNCHANGED faults
             \/ Fault /\ UNCHANGED disk
          /\ UNCHANGED pc
     \/ task.left = {} /\ Goto("recover") /\ UNCHANGED <<disk, faults>>
  /\ FileStep /\ UNCHANGED removed

ResumeRename(from, to) == Rename("recover", from, to, "recover", "down")

\* The previous version that the journal names, if it is there.  (The code takes
\* an empty journal to name .previous itself, but does not come to that: when a
\* journal is written, the package is in place.)
NamedPrevious == {r \in Revisions : r = updating /\ Exists(Previous(r))}

\* Mutant: recovery ends an update's journal without putting the old package back.
ResumeStaged ==
  /\ \/ ~Exists(Home) /\ Validates(Staging) /\ ResumeRename(Staging, Home)
     \/ updating # None /\ UpdateJournal("recover", None, "recover", "down")

ResumeUpdate ==
  /\ updating # None
  /\ \/ /\ ~Exists(Home) /\ Validates(Staging)
        /\ ResumeRename(Staging, Home)
     \/ /\ ~Exists(Home) /\ ~Validates(Staging)
        /\ \E r \in NamedPrevious : ResumeRename(Previous(r), Home)
     \/ /\ Exists(Home) \/ ~(Validates(Staging) \/ NamedPrevious # {})
        /\ UpdateJournal("recover", None, "recover", "down")

UpdatesDone == updating = None

\* A repair with nothing to recover from keeps its journal.
Stuck ==
  IF repairing = NoPath THEN FALSE
  ELSE ~Exists(repairing) /\ ~Validates(Staging) /\ ~Exists(Discard)

ResumeRepair ==
  /\ UpdatesDone /\ repairing # NoPath
  /\ \/ ~Exists(repairing) /\ Validates(Staging) /\ ResumeRename(Staging, repairing)
     \/ /\ ~Exists(repairing) /\ ~Validates(Staging) /\ Exists(Discard)
        /\ ResumeRename(Discard, repairing)
     \/ /\ Exists(repairing) /\ MissingIn(repairing) # {}
        /\ PutBack("recover", repairing, "recover", "down")
     \/ /\ Exists(repairing) /\ MissingIn(repairing) = {}
        /\ RepairJournal("recover", NoPath, "recover", "down")

RepairsDone == UpdatesDone /\ (repairing = NoPath \/ Stuck)

DropDiscard ==
  /\ RepairsDone
  /\ \/ Exists(Discard) /\ DeleteOrFail("recover", Discard, "revert", "revert")
     \/ ~Exists(Discard) /\ Step("recover", "revert")

ResumeParked(from, to) == Rename("revert", from, to, "revert", "down")

Kept == Previous(disk[Parking].rev)

\* Mutant: recovery renames the parked package over the kept copy.
ResumeRevertOver ==
  /\ Exists(Parking)
  /\ \/ Validates(Home) /\ ResumeParked(Parking, Kept)
     \/ Exists(Home) /\ ~Validates(Home) /\ ResumeParked(Home, Previous(disk[Home].rev))
     \/ ~Exists(Home) /\ ResumeParked(Parking, Home)

\* Mutant: recovery deletes the parked package of a revert that it completes.
ResumeRevertDrops ==
  /\ Exists(Parking)
  /\ \/ Validates(Home) /\ DeleteOrFail("revert", Parking, "revert", "down")
     \/ Exists(Home) /\ ~Validates(Home) /\ ResumeParked(Home, Previous(disk[Home].rev))
     \/ ~Exists(Home) /\ ResumeParked(Parking, Home)

ResumeRevert ==
  /\ Exists(Parking)
  /\ \/ /\ Validates(Home) /\ Exists(Kept)
        /\ DeleteOrFail("revert", Kept, "revert", "down")
     \/ Validates(Home) /\ ~Exists(Kept) /\ ResumeParked(Parking, Kept)
     \/ /\ Exists(Home) /\ ~Validates(Home)
        /\ ResumeParked(Home, Previous(disk[Home].rev))
     \/ ~Exists(Home) /\ ResumeParked(Parking, Home)

Recovered == ~Exists(Parking) /\ Step("revert", "idle")

Recovery ==
  /\ pc \in {"sweep", "recover", "revert"}
  /\ Sweep \/ ResumeUpdate \/ ResumeRepair \/ DropDiscard \/ ResumeRevert \/ Recovered

Operation ==
  \/ BeginInstall \/ Install \/ DownloadFails
  \/ BeginUpdate \/ DropPrevious \/ WriteJournal \/ MoveOut \/ MoveIn \/ MoveBack
  \/ RemoveJournal
  \/ ClearAside \/ AsideOut \/ AsideIn \/ AsideBack \/ DeleteAside
  \/ BeginRevert \/ Park \/ Restore \/ CheckRestored \/ Unrestore \/ Unpark \/ Keep
  \/ BeginDeletePrevious
  \/ BeginRemove \/ Clear \/ MoveAside \/ Erase \/ ClearPrevious \/ MovePreviousAside
  \/ ErasePrevious
  \/ BeginRepair \/ StartRepair \/ Gather \/ Assemble \/ ClearDiscard \/ DamagedOut
  \/ RepairedIn \/ DamagedBack \/ RollBack \/ RolledBack \/ EndRepair \/ DeleteDiscard

Next == Operation \/ Recovery \/ Crash \/ Quit \/ Start \/ Damage

Spec == Init /\ [][Next]_vars

\* A host that was started is not stopped, and the user starts it again.
FairSpec == Spec /\ WF_vars(Recovery) /\ WF_vars(Start)

-----------------------------------------------------------------------------
(* Properties.                                                             *)

TypeOK ==
  /\ disk \in [Paths -> [rev : 0 .. MaxRevision, files : [Files -> {"good", "bad", "gone", "none"}]]]
  /\ updating \in 0 .. Unnamed
  /\ repairing \in Candidates \union {NoPath}
  /\ catalogue \in Revisions
  /\ strict \in BOOLEAN
  /\ task.from \in Candidates /\ task.kept \in 0 .. MaxRevision
  /\ task.doomed \subseteq Revisions /\ task.broken \subseteq Assets
  /\ task.left \subseteq Unread
  /\ promise \subseteq {"present", "usable", "whole"}
  /\ former \subseteq Revisions /\ removed \in BOOLEAN
  /\ crashes \in 0 .. MaxCrashes /\ faults \in 0 .. MaxFaults /\ damage \in 0 .. MaxDamage

\* A package that worked before an update, a revert, a repair or the deletion
\* of its previous version works after it, whichever step failed and whichever
\* was the last before a crash.  (While something is left unfinished by a
\* failed rollback, only the next start is obliged to mend it.)
WorkingPackageSurvives ==
  pc = "idle" /\ "usable" \in promise /\ ~Unfinished => Usable

\* An update, a revert, a repair or the deletion of the previous version loses
\* no file of the package, although a repair moves its good files out and back
\* one by one: where nothing was unfinished before, and no folder lacked a file
\* but one that something else deleted, none does afterwards.
GoodFilesSurvive ==
  pc = "idle" /\ "whole" \in promise /\ ~Unfinished => AllWhole(Candidates)

\* No way through the maintenance of a package costs the user a working model or
\* one of its files.
PackageSurvives == TypeOK /\ WorkingPackageSurvives /\ GoodFilesSurvive

\* The revision in use when an update, a revert, a repair or the deletion of the
\* previous version began, with nothing unfinished, is after it still in use or
\* kept whole as the version to revert to, whichever renames failed, were left to
\* the recovery or stand between two crashes.
WayBackIsKept ==
  pc = "idle" /\ ~Unfinished =>
    \A r \in former :
      \/ \E p \in Discovered : disk[p].rev = r
      \/ Validates(Previous(r)) /\ disk[Previous(r)].rev = r

\* A package removed while nothing was left unfinished stays away until it is
\* installed again, although a crash may have cut its removal short and a
\* complete download of it may lie in the staging folder.
RemovedStaysAway == removed /\ pc = "idle" => Installation = {}

\* Recovery throws when one of its renames fails, which ends the start; but as
\* long as no file was damaged, no rename fails on every start.
StartsInTheEnd == pc = "down" /\ damage = 0 ~> pc = "idle"

\* Contradicts model_update.hpp:148, "Completes or rolls back an update, revert,
\* or repair interrupted mid-commit": after either, the package is there.
CompletesOrRollsBack == pc = "idle" /\ "present" \in promise => Installation # {}

=============================================================================
