------------------------- MODULE ModelUpdateProofs -------------------------
(***************************************************************************)
(* Proofs about ModelUpdate, for any number of assets, revisions, crashes  *)
(* and damaged files.                                                      *)
(*                                                                         *)
(* Base holds whatever fails: the types, the folders each step counts on,  *)
(* and that a removed package stays away.  CrashInv holds as long as no    *)
(* file operation has failed and the package is in the folder of its id:   *)
(* at every step of an operation, and so wherever a crash cuts it short,   *)
(* some folder holds the package that worked, and the journals and the     *)
(* parked folder say which.  WayInv adds, under the same conditions, where *)
(* the revision is that was in use when the operation began.               *)
(***************************************************************************)
EXTENDS ModelUpdate, TLAPS

-----------------------------------------------------------------------------
(* What holds whichever step failed.                                       *)

\* The local variables of an operation.
Tasks == [op : {"none", "update", "delete"}, from : Candidates, kept : 0 .. MaxRevision,
          doomed : SUBSET Revisions, broken : SUBSET Assets, left : SUBSET Unread]

\* A folder that is there has a revision.
Known(p) == disk[p] = Nothing \/ disk[p].rev \in Revisions
AllKnown == \A p \in Paths : Known(p)

\* The steps of an update before the package moves out, and those of the other
\* operations that hold on to their package.
Updates == pc \in {"writeJournal", "moveOut"} \/ (pc = "dropPrevious" /\ task.op = "update")
Holding == {"park", "startRepair", "gather", "assemble", "clearDiscard", "damagedOut", "rollBack"}

\* The folders the next step is about are there.
PlacesInv ==
  /\ AllKnown
  /\ Updates \/ pc \in Holding => Exists(task.from)
  /\ pc \in {"startRepair", "gather", "assemble"} => Exists(Staging)
  /\ pc = "moveOut" => updating = CurrentRevision
  /\ pc \in {"moveIn", "moveBack"} => updating \in Revisions
  /\ pc \in {"repairedIn", "damagedBack"} => Exists(Discard)
  /\ pc \in {"restore", "check", "unrestore", "unpark", "keep"} => Exists(Parking)
  /\ pc \in {"park", "restore", "check", "unrestore"} => task.kept \in Revisions

\* The steps that put no package back in its place.
Quiet ==
  \/ pc \in {"idle", "erase", "clearPrevious", "previousAside", "erasePrevious", "down"}
  \/ pc \in {"sweep", "recover", "revert"}
  \/ pc = "dropPrevious" /\ task.op # "update"

\* After a removal nothing is left to recover from.
RemovedInv == removed => Installation = {} /\ ~Unfinished /\ Quiet

Base == TypeOK /\ task \in Tasks /\ PlacesInv /\ RemovedInv

-----------------------------------------------------------------------------
(* What holds as long as no file operation has failed.                     *)

\* There is one folder, the one that is named by the id.
AtHome ==
  /\ disk[Installed("other")] = Nothing
  /\ task.from = Home
  /\ repairing \in {NoPath, Home}

Open == {"down", "sweep", "recover", "revert"}
InUpdate == {"moveOut", "moveIn", "endUpdate"}
InRepair == {"gather", "assemble", "clearDiscard", "damagedOut", "repairedIn", "endRepair"}

\* A journal is there from its step to its step, or until a start has recovered.
\* Nothing is rolled back.
Journals ==
  /\ updating # None => pc \in InUpdate \cup Open
  /\ repairing # NoPath => pc \in InRepair \cup Open
  /\ pc \in InUpdate => updating # None
  /\ pc \in InRepair => repairing # NoPath
  /\ updating = None \/ repairing = NoPath
  /\ pc = "revert" => updating = None /\ repairing = NoPath
  /\ updating = Unnamed => pc \in Open
  /\ pc \notin {"moveBack", "asideBack", "rollBack", "rolledBack", "damagedBack"}

Free == updating = None /\ repairing = NoPath

\* The way is clear for the next rename.
WayIsFree ==
  /\ pc \in {"install", "moveIn", "asideIn", "restore", "unpark", "repairedIn"} => ~Exists(Home)
  /\ pc = "asideOut" => ~Exists(Aside("id"))
  /\ pc = "previousAside" => ~Exists(PreviousAside)
  /\ pc = "damagedOut" => ~Exists(Discard)
  /\ pc = "park" => ~Exists(Parking)
  /\ pc \in {"check", "unrestore"} => ~Exists(Previous(task.kept))

AllGood(p) == \A a \in Assets : disk[p].files[a] = "good"

\* What the staging folder is good for.
StagedInv ==
  /\ Updates \/ pc \in {"install", "moveIn", "clearAside", "asideOut", "asideIn"} =>
       AllGood(Staging) /\ Identified(Staging)
  /\ pc \in {"clearAside", "asideOut", "asideIn"} => "usable" \notin promise
  /\ pc \in {"clear", "moveAside"} => promise = {}
  /\ pc = "startRepair" => Identified(Home) /\ Assets \subseteq Good(Home) \cup task.broken
  /\ pc \in {"startRepair", "gather"} => task.broken \subseteq Good(Staging)
  /\ pc = "gather" => Assets \cap Present(Home) \subseteq Good(Home) \cup task.broken
  /\ pc \in {"assemble", "clearDiscard", "damagedOut", "repairedIn"} => AllGood(Staging)
  /\ pc \in {"clearDiscard", "damagedOut", "repairedIn"} => Identified(Staging)
  /\ pc = "endRepair" => AllGood(Home)
  /\ pc \in InRepair \ {"repairedIn"} => Exists(Home)
  /\ pc \in {"moveOut", "endUpdate"} => Exists(Home)

\* What a repair has taken apart is in two folders that make up the package.
RepairInv ==
  repairing = Home =>
    IF Exists(Home) THEN Identified(Home) /\ Assets \subseteq Good(Home) \cup Good(Staging)
    ELSE AllGood(Staging) /\ Identified(Discard)

\* Where the journal of an update is found, the package that worked or the new
\* one is in its place, or it is kept and the new one is staged.
KeepsPromise(p) ==
  /\ "usable" \in promise => Validates(p)
  /\ "whole" \in promise /\ Exists(p) => Lacks(p) = {}

UpdateInv ==
  updating # None =>
    IF Exists(Home) THEN KeepsPromise(Home)
    ELSE updating # Unnamed /\ AllGood(Staging) /\ Exists(Previous(updating)) /\ KeepsPromise(Previous(updating))

\* Where no journal is found, what worked is in its place, or it is parked.
Reverting == {"restore", "check", "unrestore", "unpark"}

PromiseInv ==
  /\ "usable" \in promise /\ Free =>
       Validates(Home) \/ (pc \in Reverting \cup Open /\ Validates(Parking))
  /\ "usable" \in promise /\ pc \in Reverting => Validates(Parking)
  /\ "whole" \in promise =>
       /\ Exists(Parking) => Lacks(Parking) = {}
       /\ Free /\ Exists(Home) => Lacks(Home) = {}
       /\ pc \in {"park", "restore"} => Lacks(Previous(task.kept)) = {}

\* The revision r is whole in a folder.
Has(p, r) == Validates(p) /\ disk[p].rev = r

\* The steps that get rid of a package, and those before the first rename of the others.
Discards == {"install", "clearAside", "asideOut", "asideIn", "deleteAside", "clear", "moveAside", "erase",
             "clearPrevious", "previousAside", "erasePrevious"}
Before == {"dropPrevious", "writeJournal", "moveOut", "park", "startRepair"}
Replaces == {"startRepair", "gather", "assemble", "clearDiscard", "damagedOut", "repairedIn"}

\* Where the revision in use when the operation began is.  Only it is ever parked.
Way(r) ==
  /\ pc \in Before => Has(Home, r)
  /\ Exists(Parking) => Has(Parking, r)
  /\ pc \in Replaces => disk[Staging].rev = r
  /\ IF repairing # NoPath
     THEN IF Exists(Home) THEN disk[Home].rev = r ELSE disk[Staging].rev = r /\ disk[Discard].rev = r
     ELSE Has(Home, r) \/ Has(Previous(r), r) \/ Has(Parking, r)

WayInv == (pc \in Discards => former = {}) /\ \A r \in former : Way(r)

CrashInv == AtHome /\ Journals /\ WayIsFree /\ StagedInv /\ RepairInv /\ UpdateInv /\ PromiseInv

-----------------------------------------------------------------------------
(* The disk.                                                               *)

Folder == [rev : 0 .. MaxRevision, files : [Files -> {"good", "bad", "gone", "none"}]]
DiskOK == disk \in [Paths -> Folder]

\* Where the folders are: no two of these names are one path.
LEMMA PathsAre ==
  /\ {Home, Staging, Discard, Parking, PreviousAside} \subseteq Paths
  /\ Home \in Candidates /\ Candidates \subseteq Paths
  /\ Staging # Discard /\ Staging # Parking /\ Staging # PreviousAside /\ Discard # Parking
  /\ Discard # PreviousAside /\ Parking # PreviousAside
  /\ \A p \in Candidates :
       /\ p \notin {Staging, Discard, Parking, PreviousAside, NoPath}
       /\ AsideOf(p) \in Paths /\ AsideOf(p) \in Unread
       /\ AsideOf(p) \notin Candidates \cup {Staging, Discard, Parking, PreviousAside}
  /\ \A r \in Revisions :
       /\ Previous(r) \in Paths
       /\ Previous(r) \notin Candidates \cup Unread \cup {Staging, Discard, Parking, PreviousAside}
BY DEF Home, Staging, Discard, Parking, PreviousAside, Paths, Candidates, Installed, NoPath,
       AsideOf, Aside, Previous, Unread, None

\* An empty journal names no revision.
LEMMA UnnamedIs == None # Unnamed /\ None \notin Revisions /\ Unnamed \notin Revisions
BY UpdateAssumption DEF None, Unnamed, Revisions

\* Two kept versions are at one path only if they are one.
LEMMA PreviousDiffers ==
  ASSUME NEW r, NEW s, Previous(r) = Previous(s)
  PROVE  r = s
BY DEF Previous

\* The folder that is not there.
LEMMA NothingIs ==
  /\ Nothing \in Folder /\ Nothing.rev = None /\ Nothing.rev \notin Revisions
  /\ \A f \in Files : Nothing.files[f] = "none"
BY UpdateAssumption DEF Nothing, Folder, None, Revisions

\* The files of a package.
LEMMA FilesAre ==
  /\ Manifest \in Files /\ Assets \subseteq Files /\ Manifest \notin Assets
  /\ \A f \in Files : f \in Assets \/ f = Manifest
BY UpdateAssumption DEF Files

\* What is seen of a folder depends on the folder alone.
LEMMA SameFolder ==
  ASSUME NEW p, NEW q, disk'[p] = disk[q], strict' = strict
  PROVE  /\ Exists(p)' <=> Exists(q)
         /\ Identified(p)' <=> Identified(q)
         /\ Validates(p)' <=> Validates(q)
         /\ AllGood(p)' <=> AllGood(q)
         /\ Known(p)' <=> Known(q)
         /\ Present(p)' = Present(q) /\ Good(p)' = Good(q) /\ Lacks(p)' = Lacks(q)
BY DEF Exists, Identified, Validates, AllGood, Known, Present, Good, Lacks

\* An absent folder.
LEMMA AbsentIs ==
  ASSUME NEW p, disk[p] = Nothing
  PROVE  ~Exists(p) /\ ~Identified(p) /\ ~Validates(p) /\ Known(p)
         /\ Present(p) = {} /\ Good(p) = {}
BY NothingIs, FilesAre DEF Exists, Identified, Validates, Known, Present, Good

\* A folder with a manifest exists.
LEMMA IdentifiedExists ==
  ASSUME NEW p
  PROVE  /\ Identified(p) => Exists(p)
         /\ Validates(p) => Identified(p)
BY NothingIs, FilesAre DEF Exists, Identified, Validates

\* Existing is having a revision.
LEMMA KnownExists ==
  ASSUME NEW p, Known(p)
  PROVE  Exists(p) <=> disk[p].rev \in Revisions
BY NothingIs, UpdateAssumption DEF Known, Exists, Revisions, None

\* A folder that is moved.
LEMMA MovedIs ==
  ASSUME DiskOK, NEW from \in Paths, NEW to \in Paths, from # to,
         disk' = [disk EXCEPT ![to] = disk[from], ![from] = Nothing]
  PROVE  /\ DiskOK'
         /\ disk'[from] = Nothing /\ disk'[to] = disk[from]
         /\ \A p \in Paths : p \notin {from, to} => disk'[p] = disk[p]
BY NothingIs DEF DiskOK

\* A folder that is replaced as a whole.
LEMMA ReplacedIs ==
  ASSUME DiskOK, NEW at \in Paths, NEW new \in Folder, disk' = [disk EXCEPT ![at] = new]
  PROVE  /\ DiskOK' /\ disk'[at] = new
         /\ \A p \in Paths : p # at => disk'[p] = disk[p]
BY DEF DiskOK

\* A file that is written, damaged or deleted.
LEMMA WrittenIn ==
  ASSUME NEW d \in [Paths -> Folder], NEW at \in Paths, NEW f \in Files,
         NEW how \in {"good", "bad", "gone", "none"}, NEW e, e = [d EXCEPT ![at].files[f] = how]
  PROVE  /\ e \in [Paths -> Folder] /\ e[at].rev = d[at].rev /\ e[at].files[f] = how
         /\ \A g \in Files : g # f => e[at].files[g] = d[at].files[g]
         /\ \A p \in Paths : p # at => e[p] = d[p]
BY DEF Folder

\* A file of the disk that is written, damaged or deleted.
LEMMA WrittenIs ==
  ASSUME DiskOK, NEW at \in Paths, NEW f \in Files, NEW how \in {"good", "bad", "gone", "none"},
         disk' = [disk EXCEPT ![at].files[f] = how]
  PROVE  /\ DiskOK' /\ disk'[at].rev = disk[at].rev
         /\ disk'[at].files[f] = how
         /\ \A g \in Files : g # f => disk'[at].files[g] = disk[at].files[g]
         /\ \A p \in Paths : p # at => disk'[p] = disk[p]
BY WrittenIn DEF DiskOK

\* A file that is moved from one folder to another.
Carried(f, from, to) ==
  disk' = [disk EXCEPT ![to].files[f] = disk[from].files[f], ![from].files[f] = "none"]

\* What the two folders hold afterwards.
LEMMA CarriedIs ==
  ASSUME DiskOK, NEW from \in Paths, NEW to \in Paths, from # to, NEW f \in Files,
         Carried(f, from, to)
  PROVE  /\ DiskOK' /\ disk'[from].rev = disk[from].rev /\ disk'[to].rev = disk[to].rev
         /\ disk'[to].files[f] = disk[from].files[f] /\ disk'[from].files[f] = "none"
         /\ \A g \in Files : g # f => /\ disk'[to].files[g] = disk[to].files[g]
                                      /\ disk'[from].files[g] = disk[from].files[g]
         /\ \A p \in Paths : p \notin {from, to} => disk'[p] = disk[p]
<1>0. PICK mid : /\ mid = [disk EXCEPT ![to].files[f] = disk[from].files[f]]
                 /\ disk' = [mid EXCEPT ![from].files[f] = "none"]
  BY DEF Carried
<1>1. disk[from].files[f] \in {"good", "bad", "gone", "none"}
  BY DEF Folder, DiskOK
<1>2. mid \in [Paths -> Folder]
  BY <1>0, <1>1 DEF Folder, DiskOK
<1>3. mid[to] = [disk[to] EXCEPT !.files[f] = disk[from].files[f]] /\ \A p \in Paths : p # to => mid[p] = disk[p]
  BY <1>0 DEF DiskOK
<1>4. disk'[from] = [mid[from] EXCEPT !.files[f] = "none"] /\ \A p \in Paths : p # from => disk'[p] = mid[p]
  BY <1>0, <1>2
<1>5. disk[to] \in Folder /\ disk[from] \in Folder /\ mid[from] = disk[from] /\ disk'[to] = mid[to]
  BY <1>3, <1>4 DEF DiskOK
<1>6. /\ mid[to].rev = disk[to].rev /\ mid[to].files[f] = disk[from].files[f]
      /\ \A g \in Files : g # f => mid[to].files[g] = disk[to].files[g]
  BY <1>3, <1>5 DEF Folder
<1>7. /\ disk'[from].rev = disk[from].rev /\ disk'[from].files[f] = "none"
      /\ \A g \in Files : g # f => disk'[from].files[g] = disk[from].files[g]
  BY <1>4, <1>5 DEF Folder
<1>8. disk' \in [Paths -> Folder]
  <2>1. disk'[from] \in Folder
    BY <1>4, <1>5 DEF Folder
  <2>2. QED BY <1>0, <1>2, <2>1
<1>9. QED BY <1>3, <1>4, <1>5, <1>6, <1>7, <1>8 DEF DiskOK

\* A rename moves the folder or changes nothing on disk.
LEMMA RenameIs ==
  ASSUME DiskOK, AllKnown, NEW from \in Paths, NEW to \in Paths, from # to,
         NEW at, NEW next, NEW failed, Rename(at, from, to, next, failed)
  PROVE  /\ DiskOK' /\ AllKnown' /\ pc = at
         /\ UNCHANGED <<updating, repairing, catalogue, strict, promise, former, removed, crashes, damage>>
         /\ \/ /\ ~Exists(to) /\ Goto(next) /\ UNCHANGED faults
               /\ disk'[from] = Nothing /\ disk'[to] = disk[from]
               /\ \A p \in Paths : p \notin {from, to} => disk'[p] = disk[p]
            \/ Goto(failed) /\ UNCHANGED disk /\ ((Exists(to) /\ UNCHANGED faults) \/ Fault)
<1>1. CASE UNCHANGED disk
  BY <1>1 DEF Rename, FileStep, DiskOK, AllKnown, Known
<1>2. CASE disk' = [disk EXCEPT ![to] = disk[from], ![from] = Nothing]
  <2>1. /\ DiskOK' /\ disk'[from] = Nothing /\ disk'[to] = disk[from]
        /\ \A p \in Paths : p \notin {from, to} => disk'[p] = disk[p]
    BY <1>2, MovedIs
  <2>2. AllKnown'
    BY <2>1 DEF AllKnown, Known
  <2>3. QED BY <2>1, <2>2 DEF Rename, FileStep
<1>3. QED BY <1>1, <1>2 DEF Rename

\* A folder that is deleted goes file by file, or fails to.
LEMMA DeleteIs ==
  ASSUME DiskOK, AllKnown, NEW p \in Paths, NEW at, NEW next, Delete(at, p, next)
  PROVE  /\ DiskOK' /\ AllKnown' /\ pc = at
         /\ UNCHANGED <<updating, repairing, catalogue, strict, promise, former, removed, crashes, damage, faults>>
         /\ \A q \in Paths : q # p => disk'[q] = disk[q]
         /\ \/ Goto(next) /\ disk'[p] = Nothing
            \/ UNCHANGED <<pc, task>> /\ p \notin Unread /\ disk'[p].rev = disk[p].rev
<1>1. CASE disk' = [disk EXCEPT ![p] = Nothing] /\ Goto(next)
  <2>1. DiskOK' /\ disk'[p] = Nothing /\ \A q \in Paths : q # p => disk'[q] = disk[q]
    BY <1>1, ReplacedIs, NothingIs
  <2>2. AllKnown'
    BY <2>1 DEF AllKnown, Known
  <2>3. QED BY <1>1, <2>1, <2>2 DEF Delete, FileStep
<1>2. CASE /\ p \notin Unread /\ UNCHANGED <<pc, task>>
           /\ \E f \in Present(p) : disk' = [disk EXCEPT ![p].files[f] = "none"]
  <2>1. PICK f \in Present(p) : disk' = [disk EXCEPT ![p].files[f] = "none"]
    BY <1>2
  <2>2. f \in Files /\ disk[p] # Nothing
    BY <2>1, NothingIs DEF Present
  <2>3. DiskOK' /\ disk'[p].rev = disk[p].rev /\ \A q \in Paths : q # p => disk'[q] = disk[q]
    BY <2>1, <2>2, WrittenIs
  <2>4. AllKnown'
    BY <2>2, <2>3 DEF AllKnown, Known
  <2>5. QED BY <1>2, <2>3, <2>4 DEF Delete, FileStep
<1>3. QED BY <1>1, <1>2 DEF Delete

\* The same, or the deletion fails on a file.
LEMMA DeleteOrFailIs ==
  ASSUME DiskOK, AllKnown, NEW p \in Paths, NEW at, NEW next, NEW failed,
         DeleteOrFail(at, p, next, failed)
  PROVE  /\ DiskOK' /\ AllKnown' /\ pc = at
         /\ UNCHANGED <<updating, repairing, catalogue, strict, promise, former, removed, crashes, damage>>
         /\ \A q \in Paths : q # p => disk'[q] = disk[q]
         /\ \/ Goto(next) /\ disk'[p] = Nothing /\ UNCHANGED faults
            \/ UNCHANGED <<pc, task, faults>> /\ p \notin Unread /\ disk'[p].rev = disk[p].rev
            \/ Goto(failed) /\ UNCHANGED disk /\ Fault
<1>1. CASE Delete(at, p, next)
  BY <1>1, DeleteIs
<1>2. CASE ~Delete(at, p, next)
  BY <1>2 DEF DeleteOrFail, FileStep, DiskOK, AllKnown, Known
<1>3. QED BY <1>1, <1>2

-----------------------------------------------------------------------------
(* What holds whichever step failed.                                       *)

\* The types of what an operation's steps do not decide.
LEMMA StepTypes ==
  ASSUME Base, DiskOK', UNCHANGED <<catalogue, strict, promise, former, crashes, damage>>,
         updating' \in 0 .. Unnamed, repairing' \in Candidates \cup {NoPath},
         task' \in {task, NoTask} \/ task' \in Tasks, removed' \in BOOLEAN, faults' = faults \/ Fault
  PROVE  TypeOK' /\ task' \in Tasks
<1>1. NoTask \in Tasks /\ task' \in Tasks
  BY PathsAre, UpdateAssumption DEF NoTask, Tasks, Base, None
<1>2. faults' \in 0 .. MaxFaults
  BY UpdateAssumption DEF Fault, Base, TypeOK
<1>3. QED BY <1>1, <1>2 DEF TypeOK, Base, DiskOK, Folder, Tasks

\* An operation that is not a removal's, a deletion's or a start's runs only where
\* nothing was removed.
LEMMA NotRemoved ==
  ASSUME Base, ~Quiet
  PROVE  removed = FALSE
BY DEF Base, RemovedInv, TypeOK

\* Where an operation's folders are.
LEMMA TaskPaths ==
  ASSUME Base
  PROVE  /\ DiskOK /\ AllKnown
         /\ task.from \in Candidates /\ task.from \in Paths /\ AsideOf(task.from) \in Paths
         /\ AsideOf(task.from) # task.from /\ task.from \notin {Staging, Discard, Parking, PreviousAside}
         /\ \A p \in Paths : Exists(p) => disk[p].rev \in Revisions
<1>1. DiskOK /\ AllKnown /\ task.from \in Candidates
  BY DEF Base, TypeOK, DiskOK, Folder, PlacesInv, Tasks
<1>2. QED BY <1>1, PathsAre, KnownExists DEF AllKnown

\* The renames of the operations.
LEMMA InstallBased == ASSUME Base, Install PROVE Base'
<1> DEFINE from == Staging
           to == Home
<1>1. pc = "install"
  BY DEF Install, Rename
<1>3. from \in Paths /\ to \in Paths /\ from # to
  BY TaskPaths, PathsAre
<1> HIDE DEF from, to
<1>4. /\ DiskOK' /\ AllKnown'
      /\ UNCHANGED <<updating, repairing, catalogue, strict, promise, former, removed, crashes, damage>>
      /\ \/ /\ ~Exists(to) /\ Goto("idle") /\ UNCHANGED faults
            /\ disk'[from] = Nothing /\ disk'[to] = disk[from]
            /\ \A p \in Paths : p \notin {from, to} => disk'[p] = disk[p]
         \/ Goto("idle") /\ UNCHANGED disk /\ ((Exists(to) /\ UNCHANGED faults) \/ Fault)
  BY <1>3, RenameIs, TaskPaths DEF Install, from, to
<1>5. TypeOK' /\ task' \in Tasks
  BY <1>4, StepTypes DEF Goto, Base, TypeOK
<1>6. PlacesInv'
  BY <1>1, <1>3, <1>4, PathsAre, TaskPaths DEF PlacesInv, Goto, Updates, Holding, Exists,
       from, to
<1>7. RemovedInv'
  BY <1>1, <1>4, NotRemoved DEF RemovedInv, Quiet
<1>8. QED BY <1>4, <1>5, <1>6, <1>7 DEF Base

\* MoveOut keeps Base.
LEMMA MoveOutBased == ASSUME Base, MoveOut PROVE Base'
<1> DEFINE from == task.from
           to == Previous(CurrentRevision)
<1>1. pc = "moveOut"
  BY DEF MoveOut, Rename
<1>2. CurrentRevision \in Revisions /\ updating = CurrentRevision
  BY <1>1, TaskPaths, PathsAre DEF Base, PlacesInv, Updates, Holding, CurrentRevision
<1>3. from \in Paths /\ to \in Paths /\ from # to
  BY <1>2, TaskPaths, PathsAre
<1> HIDE DEF from, to
<1>4. /\ DiskOK' /\ AllKnown'
      /\ UNCHANGED <<updating, repairing, catalogue, strict, promise, former, removed, crashes, damage>>
      /\ \/ /\ ~Exists(to) /\ Goto("moveIn") /\ UNCHANGED faults
            /\ disk'[from] = Nothing /\ disk'[to] = disk[from]
            /\ \A p \in Paths : p \notin {from, to} => disk'[p] = disk[p]
         \/ Goto("endUpdate") /\ UNCHANGED disk /\ ((Exists(to) /\ UNCHANGED faults) \/ Fault)
  BY <1>3, RenameIs, TaskPaths DEF MoveOut, from, to
<1>5. TypeOK' /\ task' \in Tasks
  BY <1>4, StepTypes DEF Goto, Base, TypeOK
<1>6. PlacesInv'
  BY <1>1, <1>2, <1>3, <1>4, PathsAre, TaskPaths DEF PlacesInv, Goto, Updates, Holding,
       Exists, from, to
<1>7. RemovedInv'
  BY <1>1, <1>4, NotRemoved DEF RemovedInv, Quiet
<1>8. QED BY <1>4, <1>5, <1>6, <1>7 DEF Base

\* MoveIn keeps Base.
LEMMA MoveInBased == ASSUME Base, MoveIn PROVE Base'
<1> DEFINE from == Staging
           to == Home
<1>1. pc = "moveIn"
  BY DEF MoveIn, Rename
<1>2. updating \in Revisions
  BY <1>1, TaskPaths, PathsAre DEF Base, PlacesInv, Updates, Holding
<1>3. from \in Paths /\ to \in Paths /\ from # to
  BY <1>2, TaskPaths, PathsAre
<1> HIDE DEF from, to
<1>4. /\ DiskOK' /\ AllKnown'
      /\ UNCHANGED <<updating, repairing, catalogue, strict, promise, former, removed, crashes, damage>>
      /\ \/ /\ ~Exists(to) /\ Goto("endUpdate") /\ UNCHANGED faults
            /\ disk'[from] = Nothing /\ disk'[to] = disk[from]
            /\ \A p \in Paths : p \notin {from, to} => disk'[p] = disk[p]
         \/ Goto("moveBack") /\ UNCHANGED disk /\ ((Exists(to) /\ UNCHANGED faults) \/ Fault)
  BY <1>3, RenameIs, TaskPaths DEF MoveIn, from, to
<1>5. TypeOK' /\ task' \in Tasks
  BY <1>4, StepTypes DEF Goto, Base, TypeOK
<1>6. PlacesInv'
  BY <1>1, <1>2, <1>3, <1>4, PathsAre, TaskPaths DEF PlacesInv, Goto, Updates, Holding,
       Exists, from, to
<1>7. RemovedInv'
  BY <1>1, <1>4, NotRemoved DEF RemovedInv, Quiet
<1>8. QED BY <1>4, <1>5, <1>6, <1>7 DEF Base

\* MoveBack keeps Base.
LEMMA MoveBackBased == ASSUME Base, MoveBack PROVE Base'
<1> DEFINE from == Previous(updating)
           to == task.from
<1>1. pc = "moveBack"
  BY DEF MoveBack, Rename
<1>2. updating \in Revisions
  BY <1>1, TaskPaths, PathsAre DEF Base, PlacesInv, Updates, Holding
<1>3. from \in Paths /\ to \in Paths /\ from # to
  BY <1>2, TaskPaths, PathsAre
<1> HIDE DEF from, to
<1>4. /\ DiskOK' /\ AllKnown'
      /\ UNCHANGED <<updating, repairing, catalogue, strict, promise, former, removed, crashes, damage>>
      /\ \/ /\ ~Exists(to) /\ Goto("endUpdate") /\ UNCHANGED faults
            /\ disk'[from] = Nothing /\ disk'[to] = disk[from]
            /\ \A p \in Paths : p \notin {from, to} => disk'[p] = disk[p]
         \/ Goto("idle") /\ UNCHANGED disk /\ ((Exists(to) /\ UNCHANGED faults) \/ Fault)
  BY <1>3, RenameIs, TaskPaths DEF MoveBack, from, to
<1>5. TypeOK' /\ task' \in Tasks
  BY <1>4, StepTypes DEF Goto, Base, TypeOK
<1>6. PlacesInv'
  BY <1>1, <1>2, <1>3, <1>4, PathsAre, TaskPaths DEF PlacesInv, Goto, Updates, Holding,
       Exists, from, to
<1>7. RemovedInv'
  BY <1>1, <1>4, NotRemoved DEF RemovedInv, Quiet
<1>8. QED BY <1>4, <1>5, <1>6, <1>7 DEF Base

\* AsideOut keeps Base.
LEMMA AsideOutBased == ASSUME Base, AsideOut PROVE Base'
<1> DEFINE from == task.from
           to == AsideOf(task.from)
<1>1. pc = "asideOut"
  BY DEF AsideOut, Rename
<1>3. from \in Paths /\ to \in Paths /\ from # to
  BY TaskPaths, PathsAre
<1> HIDE DEF from, to
<1>4. /\ DiskOK' /\ AllKnown'
      /\ UNCHANGED <<updating, repairing, catalogue, strict, promise, former, removed, crashes, damage>>
      /\ \/ /\ ~Exists(to) /\ Goto("asideIn") /\ UNCHANGED faults
            /\ disk'[from] = Nothing /\ disk'[to] = disk[from]
            /\ \A p \in Paths : p \notin {from, to} => disk'[p] = disk[p]
         \/ Goto("idle") /\ UNCHANGED disk /\ ((Exists(to) /\ UNCHANGED faults) \/ Fault)
  BY <1>3, RenameIs, TaskPaths DEF AsideOut, from, to
<1>5. TypeOK' /\ task' \in Tasks
  BY <1>4, StepTypes DEF Goto, Base, TypeOK
<1>6. PlacesInv'
  BY <1>1, <1>3, <1>4, PathsAre, TaskPaths DEF PlacesInv, Goto, Updates, Holding, Exists,
       from, to
<1>7. RemovedInv'
  BY <1>1, <1>4, NotRemoved DEF RemovedInv, Quiet
<1>8. QED BY <1>4, <1>5, <1>6, <1>7 DEF Base

\* AsideIn keeps Base.
LEMMA AsideInBased == ASSUME Base, AsideIn PROVE Base'
<1> DEFINE from == Staging
           to == Home
<1>1. pc = "asideIn"
  BY DEF AsideIn, Rename
<1>3. from \in Paths /\ to \in Paths /\ from # to
  BY TaskPaths, PathsAre
<1> HIDE DEF from, to
<1>4. /\ DiskOK' /\ AllKnown'
      /\ UNCHANGED <<updating, repairing, catalogue, strict, promise, former, removed, crashes, damage>>
      /\ \/ /\ ~Exists(to) /\ Goto("deleteAside") /\ UNCHANGED faults
            /\ disk'[from] = Nothing /\ disk'[to] = disk[from]
            /\ \A p \in Paths : p \notin {from, to} => disk'[p] = disk[p]
         \/ Goto("asideBack") /\ UNCHANGED disk /\ ((Exists(to) /\ UNCHANGED faults) \/ Fault)
  BY <1>3, RenameIs, TaskPaths DEF AsideIn, from, to
<1>5. TypeOK' /\ task' \in Tasks
  BY <1>4, StepTypes DEF Goto, Base, TypeOK
<1>6. PlacesInv'
  BY <1>1, <1>3, <1>4, PathsAre, TaskPaths DEF PlacesInv, Goto, Updates, Holding, Exists,
       from, to
<1>7. RemovedInv'
  BY <1>1, <1>4, NotRemoved DEF RemovedInv, Quiet
<1>8. QED BY <1>4, <1>5, <1>6, <1>7 DEF Base

\* AsideBack keeps Base.
LEMMA AsideBackBased == ASSUME Base, AsideBack PROVE Base'
<1> DEFINE from == AsideOf(task.from)
           to == task.from
<1>1. pc = "asideBack"
  BY DEF AsideBack, Rename
<1>3. from \in Paths /\ to \in Paths /\ from # to
  BY TaskPaths, PathsAre
<1> HIDE DEF from, to
<1>4. /\ DiskOK' /\ AllKnown'
      /\ UNCHANGED <<updating, repairing, catalogue, strict, promise, former, removed, crashes, damage>>
      /\ \/ /\ ~Exists(to) /\ Goto("idle") /\ UNCHANGED faults
            /\ disk'[from] = Nothing /\ disk'[to] = disk[from]
            /\ \A p \in Paths : p \notin {from, to} => disk'[p] = disk[p]
         \/ Goto("idle") /\ UNCHANGED disk /\ ((Exists(to) /\ UNCHANGED faults) \/ Fault)
  BY <1>3, RenameIs, TaskPaths DEF AsideBack, from, to
<1>5. TypeOK' /\ task' \in Tasks
  BY <1>4, StepTypes DEF Goto, Base, TypeOK
<1>6. PlacesInv'
  BY <1>1, <1>3, <1>4, PathsAre, TaskPaths DEF PlacesInv, Goto, Updates, Holding, Exists,
       from, to
<1>7. RemovedInv'
  BY <1>1, <1>4, NotRemoved DEF RemovedInv, Quiet
<1>8. QED BY <1>4, <1>5, <1>6, <1>7 DEF Base

\* Park keeps Base.
LEMMA ParkBased == ASSUME Base, Park PROVE Base'
<1> DEFINE from == task.from
           to == Parking
<1>1. pc = "park"
  BY DEF Park, Rename
<1>2. task.kept \in Revisions /\ Exists(task.from)
  BY <1>1, TaskPaths, PathsAre DEF Base, PlacesInv, Updates, Holding
<1>3. from \in Paths /\ to \in Paths /\ from # to
  BY <1>2, TaskPaths, PathsAre
<1> HIDE DEF from, to
<1>4. /\ DiskOK' /\ AllKnown'
      /\ UNCHANGED <<updating, repairing, catalogue, strict, promise, former, removed, crashes, damage>>
      /\ \/ /\ ~Exists(to) /\ Goto("restore") /\ UNCHANGED faults
            /\ disk'[from] = Nothing /\ disk'[to] = disk[from]
            /\ \A p \in Paths : p \notin {from, to} => disk'[p] = disk[p]
         \/ Goto("idle") /\ UNCHANGED disk /\ ((Exists(to) /\ UNCHANGED faults) \/ Fault)
  BY <1>3, RenameIs, TaskPaths DEF Park, from, to
<1>5. TypeOK' /\ task' \in Tasks
  BY <1>4, StepTypes DEF Goto, Base, TypeOK
<1>6. PlacesInv'
  BY <1>1, <1>2, <1>3, <1>4, PathsAre, TaskPaths DEF PlacesInv, Goto, Updates, Holding,
       Exists, from, to
<1>7. RemovedInv'
  BY <1>1, <1>4, NotRemoved DEF RemovedInv, Quiet
<1>8. QED BY <1>4, <1>5, <1>6, <1>7 DEF Base

\* Restore keeps Base.
LEMMA RestoreBased == ASSUME Base, Restore PROVE Base'
<1> DEFINE from == Previous(task.kept)
           to == Home
<1>1. pc = "restore"
  BY DEF Restore, Rename
<1>2. task.kept \in Revisions /\ Exists(Parking)
  BY <1>1, TaskPaths, PathsAre DEF Base, PlacesInv, Updates, Holding
<1>3. from \in Paths /\ to \in Paths /\ from # to
  BY <1>2, TaskPaths, PathsAre
<1> HIDE DEF from, to
<1>4. /\ DiskOK' /\ AllKnown'
      /\ UNCHANGED <<updating, repairing, catalogue, strict, promise, former, removed, crashes, damage>>
      /\ \/ /\ ~Exists(to) /\ Goto("check") /\ UNCHANGED faults
            /\ disk'[from] = Nothing /\ disk'[to] = disk[from]
            /\ \A p \in Paths : p \notin {from, to} => disk'[p] = disk[p]
         \/ Goto("unpark") /\ UNCHANGED disk /\ ((Exists(to) /\ UNCHANGED faults) \/ Fault)
  BY <1>3, RenameIs, TaskPaths DEF Restore, from, to
<1>5. TypeOK' /\ task' \in Tasks
  BY <1>4, StepTypes DEF Goto, Base, TypeOK
<1>6. PlacesInv'
  BY <1>1, <1>2, <1>3, <1>4, PathsAre, TaskPaths DEF PlacesInv, Goto, Updates, Holding,
       Exists, from, to
<1>7. RemovedInv'
  BY <1>1, <1>4, NotRemoved DEF RemovedInv, Quiet
<1>8. QED BY <1>4, <1>5, <1>6, <1>7 DEF Base

\* Unrestore keeps Base.
LEMMA UnrestoreBased == ASSUME Base, Unrestore PROVE Base'
<1> DEFINE from == Home
           to == Previous(task.kept)
<1>1. pc = "unrestore"
  BY DEF Unrestore, Rename
<1>2. task.kept \in Revisions /\ Exists(Parking)
  BY <1>1, TaskPaths, PathsAre DEF Base, PlacesInv, Updates, Holding
<1>3. from \in Paths /\ to \in Paths /\ from # to
  BY <1>2, TaskPaths, PathsAre
<1> HIDE DEF from, to
<1>4. /\ DiskOK' /\ AllKnown'
      /\ UNCHANGED <<updating, repairing, catalogue, strict, promise, former, removed, crashes, damage>>
      /\ \/ /\ ~Exists(to) /\ Goto("unpark") /\ UNCHANGED faults
            /\ disk'[from] = Nothing /\ disk'[to] = disk[from]
            /\ \A p \in Paths : p \notin {from, to} => disk'[p] = disk[p]
         \/ Goto("idle") /\ UNCHANGED disk /\ ((Exists(to) /\ UNCHANGED faults) \/ Fault)
  BY <1>3, RenameIs, TaskPaths DEF Unrestore, from, to
<1>5. TypeOK' /\ task' \in Tasks
  BY <1>4, StepTypes DEF Goto, Base, TypeOK
<1>6. PlacesInv'
  BY <1>1, <1>2, <1>3, <1>4, PathsAre, TaskPaths DEF PlacesInv, Goto, Updates, Holding,
       Exists, from, to
<1>7. RemovedInv'
  BY <1>1, <1>4, NotRemoved DEF RemovedInv, Quiet
<1>8. QED BY <1>4, <1>5, <1>6, <1>7 DEF Base

\* Unpark keeps Base.
LEMMA UnparkBased == ASSUME Base, Unpark PROVE Base'
<1> DEFINE from == Parking
           to == task.from
<1>1. pc = "unpark"
  BY DEF Unpark, Rename
<1>3. from \in Paths /\ to \in Paths /\ from # to
  BY TaskPaths, PathsAre
<1> HIDE DEF from, to
<1>4. /\ DiskOK' /\ AllKnown'
      /\ UNCHANGED <<updating, repairing, catalogue, strict, promise, former, removed, crashes, damage>>
      /\ \/ /\ ~Exists(to) /\ Goto("idle") /\ UNCHANGED faults
            /\ disk'[from] = Nothing /\ disk'[to] = disk[from]
            /\ \A p \in Paths : p \notin {from, to} => disk'[p] = disk[p]
         \/ Goto("idle") /\ UNCHANGED disk /\ ((Exists(to) /\ UNCHANGED faults) \/ Fault)
  BY <1>3, RenameIs, TaskPaths DEF Unpark, from, to
<1>5. TypeOK' /\ task' \in Tasks
  BY <1>4, StepTypes DEF Goto, Base, TypeOK
<1>6. PlacesInv'
  BY <1>1, <1>3, <1>4, PathsAre, TaskPaths DEF PlacesInv, Goto, Updates, Holding, Exists,
       from, to
<1>7. RemovedInv'
  BY <1>1, <1>4, NotRemoved DEF RemovedInv, Quiet
<1>8. QED BY <1>4, <1>5, <1>6, <1>7 DEF Base

\* Keep keeps Base.
LEMMA KeepBased == ASSUME Base, Keep PROVE Base'
<1> DEFINE from == Parking
           to == Previous(disk[Parking].rev)
<1>1. pc = "keep"
  BY DEF Keep, Rename
<1>2. disk[Parking].rev \in Revisions
  BY <1>1, TaskPaths, PathsAre DEF Base, PlacesInv, Updates, Holding
<1>3. from \in Paths /\ to \in Paths /\ from # to
  BY <1>2, TaskPaths, PathsAre
<1> HIDE DEF from, to
<1>4. /\ DiskOK' /\ AllKnown'
      /\ UNCHANGED <<updating, repairing, catalogue, strict, promise, former, removed, crashes, damage>>
      /\ \/ /\ ~Exists(to) /\ Goto("idle") /\ UNCHANGED faults
            /\ disk'[from] = Nothing /\ disk'[to] = disk[from]
            /\ \A p \in Paths : p \notin {from, to} => disk'[p] = disk[p]
         \/ Goto("idle") /\ UNCHANGED disk /\ ((Exists(to) /\ UNCHANGED faults) \/ Fault)
  BY <1>3, RenameIs, TaskPaths DEF Keep, from, to
<1>5. TypeOK' /\ task' \in Tasks
  BY <1>4, StepTypes DEF Goto, Base, TypeOK
<1>6. PlacesInv'
  BY <1>1, <1>2, <1>3, <1>4, PathsAre, TaskPaths DEF PlacesInv, Goto, Updates, Holding,
       Exists, from, to
<1>7. RemovedInv'
  BY <1>1, <1>4, NotRemoved DEF RemovedInv, Quiet
<1>8. QED BY <1>4, <1>5, <1>6, <1>7 DEF Base

\* DamagedOut keeps Base.
LEMMA DamagedOutBased == ASSUME Base, DamagedOut PROVE Base'
<1> DEFINE from == task.from
           to == Discard
<1>1. pc = "damagedOut"
  BY DEF DamagedOut, Rename
<1>2. Exists(task.from)
  BY <1>1, TaskPaths, PathsAre DEF Base, PlacesInv, Updates, Holding
<1>3. from \in Paths /\ to \in Paths /\ from # to
  BY <1>2, TaskPaths, PathsAre
<1> HIDE DEF from, to
<1>4. /\ DiskOK' /\ AllKnown'
      /\ UNCHANGED <<updating, repairing, catalogue, strict, promise, former, removed, crashes, damage>>
      /\ \/ /\ ~Exists(to) /\ Goto("repairedIn") /\ UNCHANGED faults
            /\ disk'[from] = Nothing /\ disk'[to] = disk[from]
            /\ \A p \in Paths : p \notin {from, to} => disk'[p] = disk[p]
         \/ Goto("rollBack") /\ UNCHANGED disk /\ ((Exists(to) /\ UNCHANGED faults) \/ Fault)
  BY <1>3, RenameIs, TaskPaths DEF DamagedOut, from, to
<1>5. TypeOK' /\ task' \in Tasks
  BY <1>4, StepTypes DEF Goto, Base, TypeOK
<1>6. PlacesInv'
  BY <1>1, <1>2, <1>3, <1>4, PathsAre, TaskPaths DEF PlacesInv, Goto, Updates, Holding,
       Exists, from, to
<1>7. RemovedInv'
  BY <1>1, <1>4, NotRemoved DEF RemovedInv, Quiet
<1>8. QED BY <1>4, <1>5, <1>6, <1>7 DEF Base

\* RepairedIn keeps Base.
LEMMA RepairedInBased == ASSUME Base, RepairedIn PROVE Base'
<1> DEFINE from == Staging
           to == task.from
<1>1. pc = "repairedIn"
  BY DEF RepairedIn, Rename
<1>2. Exists(Discard)
  BY <1>1, TaskPaths, PathsAre DEF Base, PlacesInv, Updates, Holding
<1>3. from \in Paths /\ to \in Paths /\ from # to
  BY <1>2, TaskPaths, PathsAre
<1> HIDE DEF from, to
<1>4. /\ DiskOK' /\ AllKnown'
      /\ UNCHANGED <<updating, repairing, catalogue, strict, promise, former, removed, crashes, damage>>
      /\ \/ /\ ~Exists(to) /\ Goto("endRepair") /\ UNCHANGED faults
            /\ disk'[from] = Nothing /\ disk'[to] = disk[from]
            /\ \A p \in Paths : p \notin {from, to} => disk'[p] = disk[p]
         \/ Goto("damagedBack") /\ UNCHANGED disk /\ ((Exists(to) /\ UNCHANGED faults) \/ Fault)
  BY <1>3, RenameIs, TaskPaths DEF RepairedIn, from, to
<1>5. TypeOK' /\ task' \in Tasks
  BY <1>4, StepTypes DEF Goto, Base, TypeOK
<1>6. PlacesInv'
  BY <1>1, <1>2, <1>3, <1>4, PathsAre, TaskPaths DEF PlacesInv, Goto, Updates, Holding,
       Exists, from, to
<1>7. RemovedInv'
  BY <1>1, <1>4, NotRemoved DEF RemovedInv, Quiet
<1>8. QED BY <1>4, <1>5, <1>6, <1>7 DEF Base

\* DamagedBack keeps Base.
LEMMA DamagedBackBased == ASSUME Base, DamagedBack PROVE Base'
<1> DEFINE from == Discard
           to == task.from
<1>1. pc = "damagedBack"
  BY DEF DamagedBack, Rename
<1>2. Exists(Discard)
  BY <1>1, TaskPaths, PathsAre DEF Base, PlacesInv, Updates, Holding
<1>3. from \in Paths /\ to \in Paths /\ from # to
  BY <1>2, TaskPaths, PathsAre
<1> HIDE DEF from, to
<1>4. /\ DiskOK' /\ AllKnown'
      /\ UNCHANGED <<updating, repairing, catalogue, strict, promise, former, removed, crashes, damage>>
      /\ \/ /\ ~Exists(to) /\ Goto("rollBack") /\ UNCHANGED faults
            /\ disk'[from] = Nothing /\ disk'[to] = disk[from]
            /\ \A p \in Paths : p \notin {from, to} => disk'[p] = disk[p]
         \/ Goto("idle") /\ UNCHANGED disk /\ ((Exists(to) /\ UNCHANGED faults) \/ Fault)
  BY <1>3, RenameIs, TaskPaths DEF DamagedBack, from, to
<1>5. TypeOK' /\ task' \in Tasks
  BY <1>4, StepTypes DEF Goto, Base, TypeOK
<1>6. PlacesInv'
  BY <1>1, <1>2, <1>3, <1>4, PathsAre, TaskPaths DEF PlacesInv, Goto, Updates, Holding,
       Exists, from, to
<1>7. RemovedInv'
  BY <1>1, <1>4, NotRemoved DEF RemovedInv, Quiet
<1>8. QED BY <1>4, <1>5, <1>6, <1>7 DEF Base

\* The deletions of the operations.
LEMMA ClearAsideBased == ASSUME Base, ClearAside PROVE Base'
<1> DEFINE at == AsideOf(task.from)
<1>1. pc = "clearAside"
  BY DEF ClearAside, DeleteOrFail, Delete
<1>2. at \in Paths /\ at \notin Candidates \cup {Staging, Parking}
  BY TaskPaths, PathsAre
<1> HIDE DEF at
<1>3. /\ DiskOK' /\ AllKnown'
      /\ UNCHANGED <<updating, repairing, catalogue, strict, promise, former, removed, crashes, damage>>
      /\ \A p \in Paths : p # at => disk'[p] = disk[p]
      /\ \/ Goto("asideOut") /\ UNCHANGED faults
         \/ UNCHANGED <<pc, task, faults>>
         \/ Goto("idle") /\ Fault
  BY <1>2, DeleteOrFailIs, TaskPaths DEF ClearAside, at
<1>4. TypeOK' /\ task' \in Tasks
  BY <1>3, StepTypes DEF Goto, Base, TypeOK
<1>5. PlacesInv'
  BY <1>1, <1>2, <1>3, TaskPaths, PathsAre DEF Base, PlacesInv, Goto, Updates, Holding,
       Exists
<1>6. RemovedInv'
  <2>1. disk'[Parking] = disk[Parking] /\ \A p \in Candidates : disk'[p] = disk[p]
    BY <1>2, <1>3, PathsAre
  <2>2. Installation' = Installation /\ Unfinished' = Unfinished
    BY <1>3, <2>1 DEF Installation, Unfinished, Exists
  <2>3. QED BY <1>1, <1>3, <2>2 DEF Base, RemovedInv, Quiet, Goto
<1>7. QED BY <1>3, <1>4, <1>5, <1>6 DEF Base

\* DeleteAside keeps Base.
LEMMA DeleteAsideBased == ASSUME Base, DeleteAside PROVE Base'
<1> DEFINE at == AsideOf(task.from)
<1>1. pc = "deleteAside"
  BY DEF DeleteAside, DeleteOrFail, Delete
<1>2. at \in Paths /\ at \notin Candidates \cup {Staging, Parking}
  BY TaskPaths, PathsAre
<1> HIDE DEF at
<1>3. /\ DiskOK' /\ AllKnown'
      /\ UNCHANGED <<updating, repairing, catalogue, strict, promise, former, removed, crashes, damage>>
      /\ \A p \in Paths : p # at => disk'[p] = disk[p]
      /\ \/ Goto("idle") /\ UNCHANGED faults
         \/ UNCHANGED <<pc, task, faults>>
         \/ Goto("idle") /\ Fault
  BY <1>2, DeleteOrFailIs, TaskPaths DEF DeleteAside, at
<1>4. TypeOK' /\ task' \in Tasks
  BY <1>3, StepTypes DEF Goto, Base, TypeOK
<1>5. PlacesInv'
  BY <1>1, <1>2, <1>3, TaskPaths, PathsAre DEF Base, PlacesInv, Goto, Updates, Holding,
       Exists
<1>6. RemovedInv'
  <2>1. disk'[Parking] = disk[Parking] /\ \A p \in Candidates : disk'[p] = disk[p]
    BY <1>2, <1>3, PathsAre
  <2>2. Installation' = Installation /\ Unfinished' = Unfinished
    BY <1>3, <2>1 DEF Installation, Unfinished, Exists
  <2>3. QED BY <1>1, <1>3, <2>2 DEF Base, RemovedInv, Quiet, Goto
<1>7. QED BY <1>3, <1>4, <1>5, <1>6 DEF Base

\* Clear keeps Base.
LEMMA ClearBased == ASSUME Base, Clear PROVE Base'
<1> DEFINE at == AsideOf(task.from)
<1>1. pc = "clear"
  BY DEF Clear, DeleteOrFail, Delete
<1>2. at \in Paths /\ at \notin Candidates \cup {Staging, Parking}
  BY TaskPaths, PathsAre
<1> HIDE DEF at
<1>3. /\ DiskOK' /\ AllKnown'
      /\ UNCHANGED <<updating, repairing, catalogue, strict, promise, former, removed, crashes, damage>>
      /\ \A p \in Paths : p # at => disk'[p] = disk[p]
      /\ \/ Goto("moveAside") /\ UNCHANGED faults
         \/ UNCHANGED <<pc, task, faults>>
         \/ Goto("idle") /\ Fault
  BY <1>2, DeleteOrFailIs, TaskPaths DEF Clear, at
<1>4. TypeOK' /\ task' \in Tasks
  BY <1>3, StepTypes DEF Goto, Base, TypeOK
<1>5. PlacesInv'
  BY <1>1, <1>2, <1>3, TaskPaths, PathsAre DEF Base, PlacesInv, Goto, Updates, Holding,
       Exists
<1>6. RemovedInv'
  <2>1. disk'[Parking] = disk[Parking] /\ \A p \in Candidates : disk'[p] = disk[p]
    BY <1>2, <1>3, PathsAre
  <2>2. Installation' = Installation /\ Unfinished' = Unfinished
    BY <1>3, <2>1 DEF Installation, Unfinished, Exists
  <2>3. QED BY <1>1, <1>3, <2>2 DEF Base, RemovedInv, Quiet, Goto
<1>7. QED BY <1>3, <1>4, <1>5, <1>6 DEF Base

\* Erase keeps Base.
LEMMA EraseBased == ASSUME Base, Erase PROVE Base'
<1> DEFINE at == AsideOf(task.from)
<1>1. pc = "erase"
  BY DEF Erase, DeleteOrFail, Delete
<1>2. at \in Paths /\ at \notin Candidates \cup {Staging, Parking}
  BY TaskPaths, PathsAre
<1> HIDE DEF at
<1>3. /\ DiskOK' /\ AllKnown'
      /\ UNCHANGED <<updating, repairing, catalogue, strict, promise, former, removed, crashes, damage>>
      /\ \A p \in Paths : p # at => disk'[p] = disk[p]
      /\ \/ Goto(IF task.doomed = {} THEN "idle" ELSE "clearPrevious") /\ UNCHANGED faults
         \/ UNCHANGED <<pc, task, faults>>
         \/ Goto("idle") /\ Fault
  BY <1>2, DeleteOrFailIs, TaskPaths DEF Erase, at
<1>4. TypeOK' /\ task' \in Tasks
  BY <1>3, StepTypes DEF Goto, Base, TypeOK
<1>5. PlacesInv'
  BY <1>1, <1>2, <1>3, TaskPaths, PathsAre DEF Base, PlacesInv, Goto, Updates, Holding,
       Exists
<1>6. RemovedInv'
  <2>1. disk'[Parking] = disk[Parking] /\ \A p \in Candidates : disk'[p] = disk[p]
    BY <1>2, <1>3, PathsAre
  <2>2. Installation' = Installation /\ Unfinished' = Unfinished
    BY <1>3, <2>1 DEF Installation, Unfinished, Exists
  <2>3. QED BY <1>1, <1>3, <2>2 DEF Base, RemovedInv, Quiet, Goto
<1>7. QED BY <1>3, <1>4, <1>5, <1>6 DEF Base

\* ClearPrevious keeps Base.
LEMMA ClearPreviousBased == ASSUME Base, ClearPrevious PROVE Base'
<1> DEFINE at == PreviousAside
<1>1. pc = "clearPrevious"
  BY DEF ClearPrevious, DeleteOrFail, Delete
<1>2. at \in Paths /\ at \notin Candidates \cup {Staging, Parking}
  BY TaskPaths, PathsAre
<1> HIDE DEF at
<1>3. /\ DiskOK' /\ AllKnown'
      /\ UNCHANGED <<updating, repairing, catalogue, strict, promise, former, removed, crashes, damage>>
      /\ \A p \in Paths : p # at => disk'[p] = disk[p]
      /\ \/ Goto("previousAside") /\ UNCHANGED faults
         \/ UNCHANGED <<pc, task, faults>>
         \/ Goto("idle") /\ Fault
  BY <1>2, DeleteOrFailIs, TaskPaths DEF ClearPrevious, at
<1>4. TypeOK' /\ task' \in Tasks
  BY <1>3, StepTypes DEF Goto, Base, TypeOK
<1>5. PlacesInv'
  BY <1>1, <1>2, <1>3, TaskPaths, PathsAre DEF Base, PlacesInv, Goto, Updates, Holding,
       Exists
<1>6. RemovedInv'
  <2>1. disk'[Parking] = disk[Parking] /\ \A p \in Candidates : disk'[p] = disk[p]
    BY <1>2, <1>3, PathsAre
  <2>2. Installation' = Installation /\ Unfinished' = Unfinished
    BY <1>3, <2>1 DEF Installation, Unfinished, Exists
  <2>3. QED BY <1>1, <1>3, <2>2 DEF Base, RemovedInv, Quiet, Goto
<1>7. QED BY <1>3, <1>4, <1>5, <1>6 DEF Base

\* ErasePrevious keeps Base.
LEMMA ErasePreviousBased == ASSUME Base, ErasePrevious PROVE Base'
<1> DEFINE at == PreviousAside
<1>1. pc = "erasePrevious"
  BY DEF ErasePrevious, DeleteOrFail, Delete
<1>2. at \in Paths /\ at \notin Candidates \cup {Staging, Parking}
  BY TaskPaths, PathsAre
<1> HIDE DEF at
<1>3. /\ DiskOK' /\ AllKnown'
      /\ UNCHANGED <<updating, repairing, catalogue, strict, promise, former, removed, crashes, damage>>
      /\ \A p \in Paths : p # at => disk'[p] = disk[p]
      /\ \/ Goto("idle") /\ UNCHANGED faults
         \/ UNCHANGED <<pc, task, faults>>
         \/ Goto("idle") /\ Fault
  BY <1>2, DeleteOrFailIs, TaskPaths DEF ErasePrevious, at
<1>4. TypeOK' /\ task' \in Tasks
  BY <1>3, StepTypes DEF Goto, Base, TypeOK
<1>5. PlacesInv'
  BY <1>1, <1>2, <1>3, TaskPaths, PathsAre DEF Base, PlacesInv, Goto, Updates, Holding,
       Exists
<1>6. RemovedInv'
  <2>1. disk'[Parking] = disk[Parking] /\ \A p \in Candidates : disk'[p] = disk[p]
    BY <1>2, <1>3, PathsAre
  <2>2. Installation' = Installation /\ Unfinished' = Unfinished
    BY <1>3, <2>1 DEF Installation, Unfinished, Exists
  <2>3. QED BY <1>1, <1>3, <2>2 DEF Base, RemovedInv, Quiet, Goto
<1>7. QED BY <1>3, <1>4, <1>5, <1>6 DEF Base

\* ClearDiscard keeps Base.
LEMMA ClearDiscardBased == ASSUME Base, ClearDiscard PROVE Base'
<1> DEFINE at == Discard
<1>1. pc = "clearDiscard"
  BY DEF ClearDiscard, DeleteOrFail, Delete
<1>2. at \in Paths /\ at \notin Candidates \cup {Staging, Parking}
  BY TaskPaths, PathsAre
<1> HIDE DEF at
<1>3. /\ DiskOK' /\ AllKnown'
      /\ UNCHANGED <<updating, repairing, catalogue, strict, promise, former, removed, crashes, damage>>
      /\ \A p \in Paths : p # at => disk'[p] = disk[p]
      /\ \/ Goto("damagedOut") /\ UNCHANGED faults
         \/ UNCHANGED <<pc, task, faults>>
         \/ Goto("idle") /\ Fault
  BY <1>2, DeleteOrFailIs, TaskPaths DEF ClearDiscard, at
<1>4. TypeOK' /\ task' \in Tasks
  BY <1>3, StepTypes DEF Goto, Base, TypeOK
<1>5. PlacesInv'
  BY <1>1, <1>2, <1>3, TaskPaths, PathsAre DEF Base, PlacesInv, Goto, Updates, Holding,
       Exists
<1>6. RemovedInv'
  <2>1. disk'[Parking] = disk[Parking] /\ \A p \in Candidates : disk'[p] = disk[p]
    BY <1>2, <1>3, PathsAre
  <2>2. Installation' = Installation /\ Unfinished' = Unfinished
    BY <1>3, <2>1 DEF Installation, Unfinished, Exists
  <2>3. QED BY <1>1, <1>3, <2>2 DEF Base, RemovedInv, Quiet, Goto
<1>7. QED BY <1>3, <1>4, <1>5, <1>6 DEF Base

\* DeleteDiscard keeps Base.
LEMMA DeleteDiscardBased == ASSUME Base, DeleteDiscard PROVE Base'
<1> DEFINE at == Discard
<1>1. pc = "deleteDiscard"
  BY DEF DeleteDiscard, DeleteOrFail, Delete
<1>2. at \in Paths /\ at \notin Candidates \cup {Staging, Parking}
  BY TaskPaths, PathsAre
<1> HIDE DEF at
<1>3. /\ DiskOK' /\ AllKnown'
      /\ UNCHANGED <<updating, repairing, catalogue, strict, promise, former, removed, crashes, damage>>
      /\ \A p \in Paths : p # at => disk'[p] = disk[p]
      /\ \/ Goto("idle") /\ UNCHANGED faults
         \/ UNCHANGED <<pc, task, faults>>
         \/ Goto("idle") /\ Fault
  BY <1>2, DeleteOrFailIs, TaskPaths DEF DeleteDiscard, at
<1>4. TypeOK' /\ task' \in Tasks
  BY <1>3, StepTypes DEF Goto, Base, TypeOK
<1>5. PlacesInv'
  BY <1>1, <1>2, <1>3, TaskPaths, PathsAre DEF Base, PlacesInv, Goto, Updates, Holding,
       Exists
<1>6. RemovedInv'
  <2>1. disk'[Parking] = disk[Parking] /\ \A p \in Candidates : disk'[p] = disk[p]
    BY <1>2, <1>3, PathsAre
  <2>2. Installation' = Installation /\ Unfinished' = Unfinished
    BY <1>3, <2>1 DEF Installation, Unfinished, Exists
  <2>3. QED BY <1>1, <1>3, <2>2 DEF Base, RemovedInv, Quiet, Goto
<1>7. QED BY <1>3, <1>4, <1>5, <1>6 DEF Base

\* The journals.
LEMMA WriteJournalBased == ASSUME Base, WriteJournal PROVE Base'
<1>1. /\ pc = "writeJournal" /\ UNCHANGED <<disk, catalogue, strict, promise, former, removed, crashes, damage>>
      /\ \/ updating' = CurrentRevision /\ repairing' = repairing /\ Goto("moveOut") /\ UNCHANGED faults
         \/ UNCHANGED <<updating, repairing>> /\ Goto("idle") /\ Fault
  BY DEF WriteJournal, UpdateJournal, Journal, historyVars
<1>2. CurrentRevision \in Revisions /\ task.from \in Candidates
  BY <1>1, TaskPaths DEF Base, PlacesInv, Updates, Holding, CurrentRevision
<1>3. DiskOK' /\ AllKnown'
  BY <1>1, TaskPaths DEF DiskOK, AllKnown, Known
<1>4. TypeOK' /\ task' \in Tasks
  <2>1. CurrentRevision \in 0 .. MaxRevision /\ None \in 0 .. MaxRevision
    BY TaskPaths, UpdateAssumption DEF CurrentRevision, DiskOK, Folder, None
  <2>2. updating' \in 0 .. Unnamed /\ repairing' \in Candidates \cup {NoPath}
    BY <1>1, <1>2, <2>1, UpdateAssumption DEF Base, TypeOK, Unnamed
  <2>3. QED BY <1>1, <1>3, <2>2, StepTypes DEF Goto, Base, TypeOK
<1>5. PlacesInv'
  BY <1>1, <1>2, <1>3 DEF Base, PlacesInv, Goto, Updates, Holding, Exists, CurrentRevision
<1>6. RemovedInv'
  BY <1>1, NotRemoved DEF RemovedInv, Quiet
<1>7. QED BY <1>3, <1>4, <1>5, <1>6 DEF Base

\* RemoveJournal keeps Base.
LEMMA RemoveJournalBased == ASSUME Base, RemoveJournal PROVE Base'
<1>1. /\ pc = "endUpdate" /\ UNCHANGED <<disk, catalogue, strict, promise, former, removed, crashes, damage>>
      /\ \/ updating' = None /\ repairing' = repairing /\ Goto("idle") /\ UNCHANGED faults
         \/ UNCHANGED <<updating, repairing>> /\ Goto("idle") /\ Fault
  BY DEF RemoveJournal, UpdateJournal, Journal, historyVars
<1>2. task.from \in Candidates
  BY <1>1, TaskPaths DEF Base, PlacesInv, Updates, Holding, CurrentRevision
<1>3. DiskOK' /\ AllKnown'
  BY <1>1, TaskPaths DEF DiskOK, AllKnown, Known
<1>4. TypeOK' /\ task' \in Tasks
  <2>1. CurrentRevision \in 0 .. MaxRevision /\ None \in 0 .. MaxRevision
    BY TaskPaths, UpdateAssumption DEF CurrentRevision, DiskOK, Folder, None
  <2>2. updating' \in 0 .. Unnamed /\ repairing' \in Candidates \cup {NoPath}
    BY <1>1, <1>2, <2>1, UpdateAssumption DEF Base, TypeOK, Unnamed
  <2>3. QED BY <1>1, <1>3, <2>2, StepTypes DEF Goto, Base, TypeOK
<1>5. PlacesInv'
  BY <1>1, <1>2, <1>3 DEF Base, PlacesInv, Goto, Updates, Holding, Exists, CurrentRevision
<1>6. RemovedInv'
  BY <1>1, NotRemoved DEF RemovedInv, Quiet
<1>7. QED BY <1>3, <1>4, <1>5, <1>6 DEF Base

\* StartRepair keeps Base.
LEMMA StartRepairBased == ASSUME Base, StartRepair PROVE Base'
<1>1. /\ pc = "startRepair" /\ UNCHANGED <<disk, catalogue, strict, promise, former, removed, crashes, damage>>
      /\ \/ updating' = updating /\ repairing' = task.from /\ Goto("gather") /\ UNCHANGED faults
         \/ UNCHANGED <<updating, repairing>> /\ Goto("idle") /\ Fault
  BY DEF StartRepair, RepairJournal, Journal, historyVars
<1>2. task.from \in Candidates
  BY <1>1, TaskPaths DEF Base, PlacesInv, Updates, Holding, CurrentRevision
<1>3. DiskOK' /\ AllKnown'
  BY <1>1, TaskPaths DEF DiskOK, AllKnown, Known
<1>4. TypeOK' /\ task' \in Tasks
  <2>1. CurrentRevision \in 0 .. MaxRevision /\ None \in 0 .. MaxRevision
    BY TaskPaths, UpdateAssumption DEF CurrentRevision, DiskOK, Folder, None
  <2>2. updating' \in 0 .. Unnamed /\ repairing' \in Candidates \cup {NoPath}
    BY <1>1, <1>2, <2>1, UpdateAssumption DEF Base, TypeOK, Unnamed
  <2>3. QED BY <1>1, <1>3, <2>2, StepTypes DEF Goto, Base, TypeOK
<1>5. PlacesInv'
  BY <1>1, <1>2, <1>3 DEF Base, PlacesInv, Goto, Updates, Holding, Exists, CurrentRevision
<1>6. RemovedInv'
  BY <1>1, NotRemoved DEF RemovedInv, Quiet
<1>7. QED BY <1>3, <1>4, <1>5, <1>6 DEF Base

\* RolledBack keeps Base.
LEMMA RolledBackBased == ASSUME Base, RolledBack PROVE Base'
<1>1. /\ pc = "rolledBack" /\ UNCHANGED <<disk, catalogue, strict, promise, former, removed, crashes, damage>>
      /\ \/ updating' = updating /\ repairing' = NoPath /\ Goto("idle") /\ UNCHANGED faults
         \/ UNCHANGED <<updating, repairing>> /\ Goto("idle") /\ Fault
  BY DEF RolledBack, RepairJournal, Journal, historyVars
<1>2. task.from \in Candidates
  BY <1>1, TaskPaths DEF Base, PlacesInv, Updates, Holding, CurrentRevision
<1>3. DiskOK' /\ AllKnown'
  BY <1>1, TaskPaths DEF DiskOK, AllKnown, Known
<1>4. TypeOK' /\ task' \in Tasks
  <2>1. CurrentRevision \in 0 .. MaxRevision /\ None \in 0 .. MaxRevision
    BY TaskPaths, UpdateAssumption DEF CurrentRevision, DiskOK, Folder, None
  <2>2. updating' \in 0 .. Unnamed /\ repairing' \in Candidates \cup {NoPath}
    BY <1>1, <1>2, <2>1, UpdateAssumption DEF Base, TypeOK, Unnamed
  <2>3. QED BY <1>1, <1>3, <2>2, StepTypes DEF Goto, Base, TypeOK
<1>5. PlacesInv'
  BY <1>1, <1>2, <1>3 DEF Base, PlacesInv, Goto, Updates, Holding, Exists, CurrentRevision
<1>6. RemovedInv'
  BY <1>1, NotRemoved DEF RemovedInv, Quiet
<1>7. QED BY <1>3, <1>4, <1>5, <1>6 DEF Base

\* EndRepair keeps Base.
LEMMA EndRepairBased == ASSUME Base, EndRepair PROVE Base'
<1>1. /\ pc = "endRepair" /\ UNCHANGED <<disk, catalogue, strict, promise, former, removed, crashes, damage>>
      /\ \/ updating' = updating /\ repairing' = NoPath /\ Goto("deleteDiscard") /\ UNCHANGED faults
         \/ UNCHANGED <<updating, repairing>> /\ Goto("idle") /\ Fault
  BY DEF EndRepair, RepairJournal, Journal, historyVars
<1>2. task.from \in Candidates
  BY <1>1, TaskPaths DEF Base, PlacesInv, Updates, Holding, CurrentRevision
<1>3. DiskOK' /\ AllKnown'
  BY <1>1, TaskPaths DEF DiskOK, AllKnown, Known
<1>4. TypeOK' /\ task' \in Tasks
  <2>1. CurrentRevision \in 0 .. MaxRevision /\ None \in 0 .. MaxRevision
    BY TaskPaths, UpdateAssumption DEF CurrentRevision, DiskOK, Folder, None
  <2>2. updating' \in 0 .. Unnamed /\ repairing' \in Candidates \cup {NoPath}
    BY <1>1, <1>2, <2>1, UpdateAssumption DEF Base, TypeOK, Unnamed
  <2>3. QED BY <1>1, <1>3, <2>2, StepTypes DEF Goto, Base, TypeOK
<1>5. PlacesInv'
  BY <1>1, <1>2, <1>3 DEF Base, PlacesInv, Goto, Updates, Holding, Exists, CurrentRevision
<1>6. RemovedInv'
  BY <1>1, NotRemoved DEF RemovedInv, Quiet
<1>7. QED BY <1>3, <1>4, <1>5, <1>6 DEF Base

\* The two steps that go through the previous versions.
LEMMA DropPreviousBased == ASSUME Base, DropPrevious PROVE Base'
<1>1. CASE Step("dropPrevious", IF task.op = "update" THEN "writeJournal" ELSE "idle")
  <2>1. /\ pc = "dropPrevious" /\ Goto(IF task.op = "update" THEN "writeJournal" ELSE "idle")
        /\ UNCHANGED <<disk, updating, repairing, catalogue, strict, promise, former, removed, crashes, faults, damage>>
    BY <1>1 DEF Step, historyVars, boundVars
  <2>2. DiskOK' /\ AllKnown'
    BY <2>1, TaskPaths DEF DiskOK, AllKnown, Known
  <2>3. TypeOK' /\ task' \in Tasks
    BY <2>1, <2>2, StepTypes DEF Goto, Base, TypeOK
  <2>4. PlacesInv'
    BY <2>1, <2>2 DEF Base, PlacesInv, Goto, Updates, Holding, Exists
  <2>5. RemovedInv'
    BY <2>1 DEF Base, RemovedInv, Quiet, Goto, Installation, Unfinished, Exists
  <2>6. QED BY <2>2, <2>3, <2>4, <2>5 DEF Base
<1>2. ASSUME NEW r \in task.doomed, DeleteOrFail("dropPrevious", Previous(r), "dropPrevious", "idle")
      PROVE  Base'
  <2>1. pc = "dropPrevious" /\ r \in Revisions
    BY <1>2 DEF DeleteOrFail, Delete, Base, TypeOK
  <2> DEFINE at == Previous(r)
  <2>2. at \in Paths /\ at \notin Candidates \cup {Staging, Parking, Discard}
    BY <2>1, PathsAre
  <2> HIDE DEF at
  <2>3. /\ DiskOK' /\ AllKnown'
        /\ UNCHANGED <<updating, repairing, catalogue, strict, promise, former, removed, crashes, damage>>
        /\ \A p \in Paths : p # at => disk'[p] = disk[p]
        /\ \/ Goto("dropPrevious") /\ UNCHANGED faults
           \/ UNCHANGED <<pc, task, faults>>
           \/ Goto("idle") /\ Fault
    BY <1>2, <2>2, DeleteOrFailIs, TaskPaths DEF at
  <2>4. TypeOK' /\ task' \in Tasks
    BY <2>3, StepTypes DEF Goto, Base, TypeOK
  <2>5. PlacesInv'
    BY <2>1, <2>2, <2>3, TaskPaths, PathsAre DEF Base, PlacesInv, Goto, Updates, Holding,
         Exists
  <2>6. RemovedInv'
    <3>1. disk'[Parking] = disk[Parking] /\ \A p \in Candidates : disk'[p] = disk[p]
      BY <2>2, <2>3, PathsAre
    <3>2. Installation' = Installation /\ Unfinished' = Unfinished
      BY <2>3, <3>1 DEF Installation, Unfinished, Exists
    <3>3. QED BY <2>1, <2>3, <3>2 DEF Base, RemovedInv, Quiet, Goto
  <2>7. QED BY <2>3, <2>4, <2>5, <2>6 DEF Base
<1>3. QED BY <1>1, <1>2 DEF DropPrevious

\* MovePreviousAside keeps Base.
LEMMA MovePreviousAsideBased == ASSUME Base, MovePreviousAside PROVE Base'
<1>1. PICK r \in task.doomed : Rename("previousAside", Previous(r), PreviousAside, "erasePrevious", "idle")
  BY DEF MovePreviousAside
<1>2. pc = "previousAside" /\ r \in Revisions
  BY <1>1 DEF Rename, Base, TypeOK
<1> DEFINE from == Previous(r)
           to == PreviousAside
<1>3. /\ from \in Paths /\ to \in Paths /\ from # to
      /\ from \notin Candidates \cup {Parking} /\ to \notin Candidates \cup {Parking}
  BY <1>2, PathsAre DEF Unread
<1> HIDE DEF from, to
<1>4. /\ DiskOK' /\ AllKnown'
      /\ UNCHANGED <<updating, repairing, catalogue, strict, promise, former, removed, crashes, damage>>
      /\ \/ /\ ~Exists(to) /\ Goto("erasePrevious") /\ UNCHANGED faults
            /\ disk'[from] = Nothing /\ disk'[to] = disk[from]
            /\ \A p \in Paths : p \notin {from, to} => disk'[p] = disk[p]
         \/ Goto("idle") /\ UNCHANGED disk /\ ((Exists(to) /\ UNCHANGED faults) \/ Fault)
  BY <1>1, <1>3, RenameIs, TaskPaths DEF from, to
<1>5. TypeOK' /\ task' \in Tasks
  BY <1>4, StepTypes DEF Goto, Base, TypeOK
<1>6. PlacesInv'
  BY <1>2, <1>4 DEF PlacesInv, Goto, Updates, Holding
<1>7. RemovedInv'
  <2>1. disk'[Parking] = disk[Parking] /\ \A p \in Candidates : disk'[p] = disk[p]
    BY <1>3, <1>4, PathsAre
  <2>2. Installation' = Installation /\ Unfinished' = Unfinished
    BY <1>4, <2>1 DEF Installation, Unfinished, Exists
  <2>3. QED BY <1>2, <1>4, <2>2 DEF Base, RemovedInv, Quiet, Goto
<1>8. QED BY <1>4, <1>5, <1>6, <1>7 DEF Base

-----------------------------------------------------------------------------
(* Where operations begin.                                                 *)

\* What is staged.
LEMMA StagedIs ==
  /\ \A r \in Revisions : Whole(r) \in Folder /\ Whole(r).rev = r /\ \A f \in Files : Whole(r).files[f] = "good"
  /\ \A r \in Revisions, S \in SUBSET Files :
       /\ Staged(r, S) \in Folder /\ Staged(r, S).rev = r
       /\ \A f \in Files : Staged(r, S).files[f] = IF f \in S THEN "good" ELSE "none"
BY DEF Whole, Staged, Folder, Revisions

\* Staging a download leaves the other folders alone.
LEMMA StagingIs ==
  ASSUME Base, NEW new \in Folder, new.rev \in Revisions, disk' = [disk EXCEPT ![Staging] = new]
  PROVE  /\ DiskOK' /\ AllKnown' /\ Exists(Staging)' /\ disk'[Staging] = new
         /\ \A p \in Paths : p # Staging => disk'[p] = disk[p]
<1>1. DiskOK' /\ disk'[Staging] = new /\ \A p \in Paths : p # Staging => disk'[p] = disk[p]
  BY PathsAre, TaskPaths, ReplacedIs
<1>2. Exists(Staging)'
  BY <1>1, NothingIs, UpdateAssumption DEF Exists, Revisions, None
<1>3. QED BY <1>1, <1>2, TaskPaths DEF AllKnown, Known

\* An operation begins on a package that is there, so on none that was removed.
LEMMA BeginBased ==
  ASSUME Base, NEW first, NEW locals, NEW folders, NEW what, Begin(first, locals, folders, what),
         locals \in Tasks, what \subseteq {"present", "usable", "whole"},
         DiskOK', AllKnown', \A p \in Paths : p # Staging => disk'[p] = disk[p],
         first \in {"install", "dropPrevious", "clearAside", "park", "clear", "startRepair"},
         \/ first = "install"
         \/ first = "dropPrevious" /\ locals.op = "delete"
         \/ Exists(locals.from),
         first = "park" => locals.kept \in Revisions,
         first = "startRepair" => Exists(Staging)'
  PROVE  Base'
<1>1. /\ pc = "idle" /\ pc' = first /\ task' = locals /\ promise' = what
      /\ removed' = (removed /\ first # "install")
      /\ UNCHANGED <<updating, repairing, catalogue, strict, crashes, faults, damage>>
  BY DEF Begin, boundVars
<1>2. TypeOK' /\ task' \in Tasks
  <2>1. former' \subseteq Revisions
    BY TaskPaths, IdentifiedExists, PathsAre DEF Begin, Discovered
  <2>2. QED BY <1>1, <2>1 DEF TypeOK, Base, DiskOK, Folder, Tasks
<1>3. \A p \in Candidates \cup {Parking} : Exists(p)' = Exists(p)
  BY PathsAre DEF Exists
<1>4. PlacesInv'
  <2>1. Exists(locals.from)' = Exists(locals.from)
    BY <1>3 DEF Tasks
  <2>2. QED BY <1>1, <2>1 DEF PlacesInv, Updates, Holding, Exists
<1>5. RemovedInv'
  <2>1. Installation' = Installation /\ Unfinished' = Unfinished
    BY <1>1, <1>3 DEF Installation, Unfinished
  <2>2. Exists(locals.from) => Installation # {}
    BY DEF Installation, Tasks
  <2>3. QED BY <1>1, <2>1, <2>2 DEF Base, RemovedInv, Quiet
<1>6. QED BY <1>2, <1>4, <1>5 DEF Base

\* What a package that is listed is.
LEMMA MaintainedIs ==
  ASSUME Base, NEW p \in Maintained
  PROVE  p \in Candidates /\ p \in Paths /\ Identified(p) /\ Exists(p)
BY IdentifiedExists, PathsAre DEF Maintained, Discovered, Damaged

\* The local variables of no operation.
LEMMA NoTaskIs ==
  /\ NoTask \in Tasks /\ NoTask.op = "none" /\ NoTask.from = Home /\ NoTask.kept = None
  /\ NoTask = [op |-> "none", from |-> Home, kept |-> None, doomed |-> {}, broken |-> {}, left |-> {}]
BY PathsAre, UpdateAssumption DEF NoTask, Tasks, None

\* BeginInstall keeps Base.
LEMMA BeginInstallBased == ASSUME Base, BeginInstall PROVE Base'
<1>1. catalogue \in Revisions /\ Whole(catalogue) \in Folder /\ Whole(catalogue).rev \in Revisions
  BY StagedIs DEF Base, TypeOK
<1>2. /\ Begin("install", NoTask, Stage(catalogue), {})
      /\ disk' = [disk EXCEPT ![Staging] = Whole(catalogue)]
  BY DEF BeginInstall, Stage, Begin
<1>3. DiskOK' /\ AllKnown' /\ \A p \in Paths : p # Staging => disk'[p] = disk[p]
  BY <1>1, <1>2, StagingIs
<1>4. QED BY <1>2, <1>3, BeginBased, NoTaskIs

\* BeginUpdate keeps Base.
LEMMA BeginUpdateBased == ASSUME Base, BeginUpdate PROVE Base'
<1>1. catalogue \in Revisions /\ Whole(catalogue) \in Folder /\ Whole(catalogue).rev \in Revisions
  BY StagedIs DEF Base, TypeOK
<1>2. PICK p \in Maintained :
        Begin(IF p \in Damaged THEN "clearAside" ELSE "dropPrevious",
              [NoTask EXCEPT !.op = "update", !.from = p, !.doomed = PreviousVersions],
              Stage(catalogue), Promise)
  BY DEF BeginUpdate
<1> DEFINE first == IF p \in Damaged THEN "clearAside" ELSE "dropPrevious"
           locals == [NoTask EXCEPT !.op = "update", !.from = p, !.doomed = PreviousVersions]
<1>3. locals \in Tasks /\ locals.from = p /\ Exists(p)
  BY MaintainedIs, NoTaskIs DEF Tasks, PreviousVersions
<1>4. DiskOK' /\ AllKnown' /\ \A q \in Paths : q # Staging => disk'[q] = disk[q]
  BY <1>1, <1>2, StagingIs DEF Begin, Stage
<1>5. Promise \subseteq {"present", "usable", "whole"} /\ first \in {"clearAside", "dropPrevious"}
  BY DEF Promise
<1>6. Begin(first, locals, Stage(catalogue), Promise)
  BY <1>2
<1> HIDE DEF first, locals
<1>7. QED BY <1>3, <1>4, <1>5, <1>6, BeginBased

\* BeginRevert keeps Base.
LEMMA BeginRevertBased == ASSUME Base, BeginRevert PROVE Base'
<1>1. PICK p \in Discovered, r \in PreviousVersions :
        Begin("park", [NoTask EXCEPT !.from = p, !.kept = r], disk, Promise)
  BY DEF BeginRevert
<1> DEFINE locals == [NoTask EXCEPT !.from = p, !.kept = r]
<1>2. locals \in Tasks /\ locals.from = p /\ locals.kept = r /\ r \in Revisions /\ Exists(p)
  <2>1. p \in Candidates /\ Exists(p)
    BY MaintainedIs DEF Maintained
  <2>2. r \in Revisions /\ r \in 0 .. MaxRevision
    BY UpdateAssumption DEF PreviousVersions, Revisions
  <2>3. QED BY <2>1, <2>2, NoTaskIs DEF Tasks
<1>3. DiskOK' /\ AllKnown' /\ disk' = disk
  BY <1>1, TaskPaths DEF Begin, DiskOK, AllKnown, Known
<1>4. Promise \subseteq {"present", "usable", "whole"}
  BY DEF Promise
<1>5. Begin("park", locals, disk, Promise)
  BY <1>1
<1> HIDE DEF locals
<1>6. QED BY <1>2, <1>3, <1>4, <1>5, BeginBased

\* BeginDeletePrevious keeps Base.
LEMMA BeginDeletePreviousBased == ASSUME Base, BeginDeletePrevious PROVE Base'
<1> DEFINE locals == [NoTask EXCEPT !.op = "delete", !.doomed = PreviousVersions]
<1>1. locals \in Tasks /\ locals.op = "delete"
  BY NoTaskIs DEF Tasks, PreviousVersions
<1>2. Begin("dropPrevious", locals, disk, Promise)
  BY DEF BeginDeletePrevious
<1>3. DiskOK' /\ AllKnown' /\ disk' = disk
  BY <1>2, TaskPaths DEF Begin, DiskOK, AllKnown, Known
<1>4. Promise \subseteq {"present", "usable", "whole"}
  BY DEF Promise
<1> HIDE DEF locals
<1>5. QED BY <1>1, <1>2, <1>3, <1>4, BeginBased

\* BeginRemove keeps Base.
LEMMA BeginRemoveBased == ASSUME Base, BeginRemove PROVE Base'
<1>1. PICK p \in Maintained, S \in {{}} \union {{r} : r \in PreviousVersions} :
        Begin("clear", [NoTask EXCEPT !.from = p, !.doomed = S], disk, {})
  BY DEF BeginRemove
<1> DEFINE locals == [NoTask EXCEPT !.from = p, !.doomed = S]
<1>2. S \subseteq Revisions
  BY DEF PreviousVersions
<1>3. locals \in Tasks /\ locals.from = p /\ Exists(p)
  BY <1>2, MaintainedIs, NoTaskIs DEF Tasks
<1>4. DiskOK' /\ AllKnown' /\ disk' = disk
  BY <1>1, TaskPaths DEF Begin, DiskOK, AllKnown, Known
<1>5. Begin("clear", locals, disk, {})
  BY <1>1
<1> HIDE DEF locals
<1>6. QED BY <1>3, <1>4, <1>5, BeginBased

\* BeginRepair keeps Base.
LEMMA BeginRepairBased == ASSUME Base, BeginRepair PROVE Base'
<1>1. PICK p \in Maintained :
        /\ disk[p].rev = catalogue /\ Assets \ Good(p) # {}
        /\ Begin("startRepair", [NoTask EXCEPT !.from = p, !.broken = Assets \ Good(p)],
                 [disk EXCEPT ![Staging] = Staged(catalogue, Assets \ Good(p))], Promise)
  BY DEF BeginRepair
<1> DEFINE locals == [NoTask EXCEPT !.from = p, !.broken = Assets \ Good(p)]
           new == Staged(catalogue, Assets \ Good(p))
<1>2. locals \in Tasks /\ locals.from = p /\ Exists(p)
  BY MaintainedIs, NoTaskIs DEF Tasks
<1>3. new \in Folder /\ new.rev \in Revisions
  BY StagedIs, FilesAre DEF Base, TypeOK
<1>4. disk' = [disk EXCEPT ![Staging] = new]
  BY <1>1 DEF Begin
<1>5. Begin("startRepair", locals, disk', Promise)
  BY <1>1 DEF Begin
<1> HIDE DEF locals, new
<1>6. DiskOK' /\ AllKnown' /\ Exists(Staging)' /\ \A q \in Paths : q # Staging => disk'[q] = disk[q]
  BY <1>3, <1>4, StagingIs
<1>7. Promise \subseteq {"present", "usable", "whole"}
  BY DEF Promise
<1>8. QED BY <1>2, <1>5, <1>6, <1>7, BeginBased

-----------------------------------------------------------------------------
(* The other steps.                                                        *)

\* Nothing that is kept of a removal is about the staging folder.
LEMMA StillRemoved ==
  ASSUME Base, \A p \in Candidates \cup {Parking} : disk'[p] = disk[p],
         UNCHANGED <<updating, repairing>>, removed' = removed, Quiet => Quiet'
  PROVE  RemovedInv'
<1>1. Installation' = Installation /\ Unfinished' = Unfinished
  BY DEF Installation, Unfinished, Exists
<1>2. QED BY <1>1 DEF Base, RemovedInv

\* DownloadFails keeps Base.
LEMMA DownloadFailsBased == ASSUME Base, DownloadFails PROVE Base'
<1>1. PICK S \in SUBSET Assets : disk' = [disk EXCEPT ![Staging] = Staged(catalogue, S)]
  BY DEF DownloadFails
<1>2. /\ pc = "idle"
      /\ UNCHANGED <<updating, repairing, catalogue, strict, pc, task, promise, former, removed, crashes, faults, damage>>
  BY DEF DownloadFails, historyVars, boundVars
<1>3. Staged(catalogue, S) \in Folder /\ Staged(catalogue, S).rev \in Revisions
  BY StagedIs, FilesAre DEF Base, TypeOK
<1>4. DiskOK' /\ AllKnown' /\ \A p \in Paths : p # Staging => disk'[p] = disk[p]
  BY <1>1, <1>3, StagingIs
<1>5. TypeOK' /\ task' \in Tasks
  BY <1>2, <1>4, StepTypes DEF Base, TypeOK
<1>6. PlacesInv'
  BY <1>2, <1>4 DEF PlacesInv, Updates, Holding
<1>7. RemovedInv'
  BY <1>2, <1>4, PathsAre, StillRemoved DEF Quiet
<1>8. QED BY <1>5, <1>6, <1>7 DEF Base

\* CheckRestored keeps Base.
LEMMA CheckRestoredBased == ASSUME Base, CheckRestored PROVE Base'
<1>1. /\ pc = "check" /\ Goto(IF Validates(Home) THEN "keep" ELSE "unrestore")
      /\ UNCHANGED <<disk, updating, repairing, catalogue, strict, promise, former, removed, crashes, faults, damage>>
  BY DEF CheckRestored, Step, historyVars, boundVars
<1>2. DiskOK' /\ AllKnown'
  BY <1>1, TaskPaths DEF DiskOK, AllKnown, Known
<1>3. TypeOK' /\ task' \in Tasks
  BY <1>1, <1>2, StepTypes DEF Goto, Base, TypeOK
<1>4. PlacesInv'
  BY <1>1, <1>2 DEF Base, PlacesInv, Goto, Updates, Holding, Exists
<1>5. RemovedInv'
  BY <1>1, NotRemoved DEF RemovedInv, Quiet
<1>6. QED BY <1>3, <1>4, <1>5 DEF Base

\* MoveAside keeps Base.
LEMMA MoveAsideBased == ASSUME Base, MoveAside PROVE Base'
<1> DEFINE from == task.from
           to == AsideOf(task.from)
<1>1. /\ pc = "moveAside"
      /\ UNCHANGED <<updating, repairing, catalogue, strict, promise, former, crashes, damage>>
      /\ \/ /\ ~Exists(to) /\ disk' = [disk EXCEPT ![to] = disk[from], ![from] = Nothing]
            /\ Goto("erase") /\ removed' = (Installation = {from} /\ ~Unfinished) /\ UNCHANGED faults
         \/ Fault /\ Goto("idle") /\ UNCHANGED <<disk, removed>>
  BY DEF MoveAside, FileStep
<1>2. /\ from \in Paths /\ to \in Paths /\ from # to /\ from \in Candidates
      /\ to \notin Candidates \cup {Parking} /\ from # Parking
  BY TaskPaths, PathsAre
<1> HIDE DEF from, to
<1>3. CASE UNCHANGED <<disk, removed>> /\ Fault /\ Goto("idle")
  <2>1. DiskOK' /\ AllKnown'
    BY <1>3, TaskPaths DEF DiskOK, AllKnown, Known
  <2>2. Goto("idle") /\ removed' = FALSE
    BY <1>1, <1>3, NotRemoved DEF Quiet
  <2>3. TypeOK' /\ task' \in Tasks
    BY <1>1, <1>3, <2>1, <2>2, StepTypes DEF Goto, Base, TypeOK
  <2>4. QED BY <2>1, <2>2, <2>3 DEF Base, PlacesInv, RemovedInv, Goto, Updates, Holding
<1>4. CASE /\ disk' = [disk EXCEPT ![to] = disk[from], ![from] = Nothing] /\ Goto("erase")
           /\ removed' = (Installation = {from} /\ ~Unfinished) /\ UNCHANGED faults
  <2>1. /\ DiskOK' /\ disk'[from] = Nothing /\ disk'[to] = disk[from]
        /\ \A p \in Paths : p \notin {from, to} => disk'[p] = disk[p]
    BY <1>2, <1>4, MovedIs, TaskPaths
  <2>2. AllKnown'
    BY <1>2, <2>1, TaskPaths DEF AllKnown, Known
  <2>3. TypeOK' /\ task' \in Tasks
    BY <1>1, <1>4, <2>1, StepTypes DEF Goto, Base, TypeOK
  <2>4. PlacesInv'
    BY <1>4, <2>2 DEF PlacesInv, Goto, Updates, Holding
  <2>5. RemovedInv'
    <3>1. \A p \in Candidates \cup {Parking} : Exists(p)' <=> p # from /\ Exists(p)
      BY <1>2, <2>1, PathsAre DEF Exists
    <3>2. Installation' = Installation \ {from} /\ Unfinished' = Unfinished
      BY <1>1, <1>2, <3>1 DEF Installation, Unfinished
    <3>3. QED BY <1>4, <3>2 DEF RemovedInv, Quiet, Goto
  <2>6. QED BY <2>2, <2>3, <2>4, <2>5 DEF Base
<1>5. QED BY <1>1, <1>3, <1>4

\* A file that is carried between two folders keeps both of them.
LEMMA CarriedKeeps ==
  ASSUME DiskOK, AllKnown, NEW from \in Paths, NEW to \in Paths, from # to, NEW f \in Files,
         Exists(to), Carried(f, from, to)
  PROVE  /\ DiskOK' /\ AllKnown' /\ Exists(to)'
         /\ disk[from].files[f] # "none" => (Exists(from) /\ Exists(from)')
         /\ \A p \in Paths : p \notin {from, to} => disk'[p] = disk[p]
<1>1. /\ DiskOK' /\ disk'[from].rev = disk[from].rev /\ disk'[to].rev = disk[to].rev
      /\ disk'[to].files[f] = disk[from].files[f] /\ disk'[from].files[f] = "none"
      /\ \A g \in Files : g # f => /\ disk'[to].files[g] = disk[to].files[g]
                                   /\ disk'[from].files[g] = disk[from].files[g]
      /\ \A p \in Paths : p \notin {from, to} => disk'[p] = disk[p]
  BY CarriedIs
<1>2. Known(to)' /\ Exists(to)'
  BY <1>1, KnownExists, NothingIs, UpdateAssumption DEF AllKnown, Known, Exists,
       Revisions, None
<1>3. disk[from].files[f] # "none" => Exists(from) /\ Exists(from)' /\ Known(from)'
  <2>1. SUFFICES ASSUME disk[from].files[f] # "none"
                 PROVE  disk[from].rev \in Revisions /\ Exists(from)
    BY <1>1, NothingIs, UpdateAssumption DEF Known, Exists, Revisions, None
  <2>2. Exists(from) /\ Known(from)
    BY <2>1, NothingIs DEF Exists, AllKnown
  <2>3. QED BY <2>2, KnownExists
<1>4. disk[from].files[f] = "none" => Known(from)'
  <2>1. SUFFICES ASSUME disk[from].files[f] = "none", disk[from] = Nothing
                 PROVE  disk'[from] = Nothing
    BY <1>1 DEF Known, AllKnown
  <2>2. \A g \in Files : disk'[from].files[g] = "none"
    BY <1>1, <2>1, NothingIs
  <2>3. disk'[from] \in Folder /\ disk'[from].rev = None
    BY <1>1, <2>1, NothingIs DEF DiskOK
  <2>4. QED BY <2>2, <2>3 DEF Folder, Nothing
<1>5. QED BY <1>1, <1>2, <1>3, <1>4 DEF AllKnown, Known

\* put_back_missing_files: it is done, carries a file or fails.
LEMMA PutBackIs ==
  ASSUME DiskOK, AllKnown, NEW p \in Paths, p # Staging, Exists(p),
         NEW at, NEW next, NEW failed, PutBack(at, p, next, failed)
  PROVE  /\ DiskOK' /\ AllKnown' /\ Exists(p)' /\ pc = at
         /\ UNCHANGED <<updating, repairing, catalogue, strict, promise, former, removed, crashes, damage>>
         /\ \A q \in Paths : q \notin {p, Staging} => disk'[q] = disk[q]
         /\ \/ MissingIn(p) = {} /\ Goto(next) /\ UNCHANGED <<disk, faults>>
            \/ /\ \E f \in MissingIn(p) : f \in Files /\ Carried(f, Staging, p)
               /\ UNCHANGED <<pc, task, faults>>
            \/ Goto(failed) /\ UNCHANGED disk /\ Fault
<1>1. ASSUME UNCHANGED disk PROVE DiskOK' /\ AllKnown' /\ Exists(p)'
  BY <1>1 DEF DiskOK, AllKnown, Known, Exists
<1>2. ASSUME NEW f \in MissingIn(p), UNCHANGED <<pc, task, faults>>,
             disk' = [disk EXCEPT ![p].files[f] = disk[Staging].files[f], ![Staging].files[f] = "none"]
      PROVE  /\ DiskOK' /\ AllKnown' /\ Exists(p)' /\ f \in Files /\ Carried(f, Staging, p)
             /\ \A q \in Paths : q \notin {p, Staging} => disk'[q] = disk[q]
  <2>1. f \in Files
    BY DEF MissingIn, Present
  <2>2. Carried(f, Staging, p)
    BY <1>2 DEF Carried
  <2>3. QED BY <2>1, <2>2, PathsAre, CarriedKeeps
<1>3. CASE /\ UNCHANGED <<pc, task, faults>>
           /\ \E f \in MissingIn(p) : disk' = [disk EXCEPT ![p].files[f] = disk[Staging].files[f],
                                                         ![Staging].files[f] = "none"]
  BY <1>2, <1>3 DEF PutBack, FileStep
<1>4. CASE \/ MissingIn(p) = {} /\ Goto(next) /\ UNCHANGED <<disk, faults>>
           \/ Goto(failed) /\ UNCHANGED disk /\ Fault
  BY <1>1, <1>4 DEF PutBack, FileStep
<1>5. QED BY <1>3, <1>4 DEF PutBack

\* RollBack keeps Base.
LEMMA RollBackBased == ASSUME Base, RollBack PROVE Base'
<1>1. pc = "rollBack"
  BY DEF RollBack, PutBack
<1>2. Exists(task.from) /\ task.from \in Paths /\ task.from # Staging /\ DiskOK /\ AllKnown
  BY <1>1, TaskPaths DEF Base, PlacesInv, Holding
<1>3. /\ DiskOK' /\ AllKnown' /\ disk'[task.from] # Nothing
      /\ UNCHANGED <<updating, repairing, catalogue, strict, promise, former, removed, crashes, damage>>
      /\ \/ Goto("rolledBack") /\ UNCHANGED <<disk, faults>>
         \/ UNCHANGED <<pc, task, faults>>
         \/ Goto("idle") /\ UNCHANGED disk /\ Fault
  <2> DEFINE at == task.from
  <2>1. at \in Paths /\ at # Staging /\ Exists(at) /\ PutBack("rollBack", at, "rolledBack", "idle")
    BY <1>2 DEF RollBack
  <2> HIDE DEF at
  <2>2. /\ DiskOK' /\ AllKnown' /\ disk'[at] # Nothing
        /\ UNCHANGED <<updating, repairing, catalogue, strict, promise, former, removed, crashes, damage>>
        /\ \/ Goto("rolledBack") /\ UNCHANGED <<disk, faults>>
           \/ UNCHANGED <<pc, task, faults>>
           \/ Goto("idle") /\ UNCHANGED disk /\ Fault
    BY <1>2, <2>1, PutBackIs DEF Exists
  <2>3. QED
    BY <2>2 DEF at
<1>4. TypeOK' /\ task' \in Tasks
  BY <1>3, StepTypes DEF Goto, Base, TypeOK
<1>5. PlacesInv'
  BY <1>1, <1>3 DEF PlacesInv, Goto, Updates, Holding, Exists
<1>6. RemovedInv'
  BY <1>1, <1>3, NotRemoved DEF RemovedInv, Quiet
<1>7. QED BY <1>3, <1>4, <1>5, <1>6 DEF Base

\* Gather keeps Base.
LEMMA GatherBased == ASSUME Base, Gather PROVE Base'
<1> DEFINE left == {a \in Assets \ task.broken : a \in Present(task.from)}
<1>1. /\ pc = "gather"
      /\ UNCHANGED <<updating, repairing, catalogue, strict, promise, former, removed, crashes, damage>>
      /\ \/ Goto("assemble") /\ UNCHANGED <<disk, faults>>
         \/ /\ \E a \in left : Carried(a, task.from, Staging)
            /\ UNCHANGED <<pc, task, faults>>
         \/ Goto("rollBack") /\ UNCHANGED disk /\ Fault
  BY DEF Gather, FileStep, Carried
<1>2. /\ Exists(task.from) /\ task.from \in Paths /\ task.from # Staging /\ DiskOK /\ AllKnown
      /\ Exists(Staging) /\ Staging \in Paths
  BY <1>1, TaskPaths, PathsAre DEF Base, PlacesInv, Holding
<1>3. /\ DiskOK' /\ AllKnown' /\ disk'[task.from] # Nothing /\ disk'[Staging] # Nothing
  <2>1. CASE UNCHANGED disk
    BY <1>2, <2>1 DEF DiskOK, AllKnown, Known, Exists
  <2>2. ASSUME NEW a \in left, Carried(a, task.from, Staging)
        PROVE  DiskOK' /\ AllKnown' /\ disk'[task.from] # Nothing /\ disk'[Staging] # Nothing
    <3>1. a \in Files /\ disk[task.from].files[a] # "none"
      BY DEF Present
    <3>2. QED BY <1>2, <2>2, <3>1, CarriedKeeps DEF Exists
  <2>3. QED BY <1>1, <2>1, <2>2
<1>4. TypeOK' /\ task' \in Tasks
  BY <1>1, <1>3, StepTypes DEF Goto, Base, TypeOK
<1>5. PlacesInv'
  BY <1>1, <1>2, <1>3 DEF PlacesInv, Goto, Updates, Holding, Exists
<1>6. RemovedInv'
  BY <1>1, NotRemoved DEF RemovedInv, Quiet
<1>7. QED BY <1>3, <1>4, <1>5, <1>6 DEF Base

\* A file that is written keeps what is known of its folder.
LEMMA WrittenKeeps ==
  ASSUME DiskOK, AllKnown, NEW at \in Paths, NEW f \in Files, NEW how \in {"good", "bad", "gone", "none"},
         disk' = [disk EXCEPT ![at].files[f] = how],
         Exists(at) \/ how = "none"
  PROVE  /\ DiskOK' /\ AllKnown' /\ (Exists(at)' <=> Exists(at))
         /\ \A p \in Paths : p # at => disk'[p] = disk[p]
<1>1. /\ DiskOK' /\ disk'[at].rev = disk[at].rev /\ disk'[at].files[f] = how
      /\ \A g \in Files : g # f => disk'[at].files[g] = disk[at].files[g]
      /\ \A p \in Paths : p # at => disk'[p] = disk[p]
  BY WrittenIs
<1>2. CASE Exists(at)
  <2>1. disk[at].rev \in Revisions
    BY <1>2, KnownExists DEF AllKnown
  <2>2. disk'[at].rev \in Revisions /\ Exists(at)'
    BY <1>1, <2>1, NothingIs DEF Exists
  <2>3. QED BY <1>1, <1>2, <2>2 DEF AllKnown, Known
<1>3. CASE ~Exists(at)
  <2>1. disk[at] = Nothing /\ how = "none"
    BY <1>3 DEF Exists
  <2>2. \A g \in Files : disk'[at].files[g] = "none"
    BY <1>1, <2>1, NothingIs
  <2>3. disk'[at] \in Folder /\ disk'[at].rev = None
    BY <1>1, <2>1, NothingIs DEF DiskOK
  <2>4. disk'[at] = Nothing
    BY <2>2, <2>3 DEF Folder, Nothing
  <2>5. QED BY <1>1, <1>3, <2>4 DEF AllKnown, Known, Exists
<1>4. QED BY <1>2, <1>3

\* Assemble keeps Base.
LEMMA AssembleBased == ASSUME Base, Assemble PROVE Base'
<1>1. /\ pc = "assemble"
      /\ UNCHANGED <<updating, repairing, catalogue, strict, promise, former, removed, crashes, damage>>
      /\ \/ disk' = [disk EXCEPT ![Staging].files[Manifest] = "good"] /\ Goto("clearDiscard") /\ UNCHANGED faults
         \/ Fault /\ Goto("rollBack") /\ UNCHANGED disk
  BY DEF Assemble, FileStep
<1>2. /\ Exists(task.from) /\ task.from \in Paths /\ task.from # Staging /\ DiskOK /\ AllKnown
      /\ Exists(Staging) /\ Staging \in Paths
  BY <1>1, TaskPaths, PathsAre DEF Base, PlacesInv, Holding
<1>3. /\ DiskOK' /\ AllKnown' /\ disk'[task.from] = disk[task.from]
  <2>1. CASE UNCHANGED disk
    BY <1>2, <2>1 DEF DiskOK, AllKnown, Known
  <2>2. CASE disk' = [disk EXCEPT ![Staging].files[Manifest] = "good"]
    BY <1>2, <2>2, FilesAre, WrittenKeeps
  <2>3. QED BY <1>1, <2>1, <2>2
<1>4. TypeOK' /\ task' \in Tasks
  BY <1>1, <1>3, StepTypes DEF Goto, Base, TypeOK
<1>5. PlacesInv'
  BY <1>1, <1>2, <1>3 DEF PlacesInv, Goto, Updates, Holding, Exists
<1>6. RemovedInv'
  BY <1>1, NotRemoved DEF RemovedInv, Quiet
<1>7. QED BY <1>3, <1>4, <1>5, <1>6 DEF Base

\* Crash keeps Base.
LEMMA CrashBased == ASSUME Base, Crash PROVE Base'
<1>1. /\ pc # "idle" /\ pc' = "down" /\ task' = NoTask /\ crashes' = crashes + 1 /\ crashes < MaxCrashes
      /\ UNCHANGED <<catalogue, strict, promise, former, removed, faults, damage>>
      /\ updating' = updating \/ (pc = "writeJournal" /\ updating' = Unnamed)
      /\ repairing' = repairing \/ (pc = "startRepair" /\ repairing' = Home)
  BY DEF Crash, historyVars
<1>2. DiskOK' /\ AllKnown' /\ \A p \in Paths : p # Staging => disk'[p] = disk[p]
  <2>1. CASE UNCHANGED disk
    BY <2>1, TaskPaths DEF DiskOK, AllKnown, Known
  <2>2. CASE disk' = [disk EXCEPT ![Staging].files[Manifest] = "none"]
    BY <2>2, FilesAre, PathsAre, TaskPaths, WrittenKeeps
  <2>3. QED BY <2>1, <2>2 DEF Crash
<1>3. TypeOK' /\ task' \in Tasks
  <2>1. updating' \in 0 .. Unnamed /\ repairing' \in Candidates \cup {NoPath}
    BY <1>1, PathsAre, UpdateAssumption DEF Base, TypeOK, Unnamed
  <2>2. QED BY <1>1, <1>2, <2>1, NoTaskIs, UpdateAssumption DEF Base, TypeOK, DiskOK,
       Folder, Tasks
<1>4. PlacesInv'
  BY <1>1, <1>2 DEF PlacesInv, Updates, Holding
<1>5. RemovedInv'
  <2>1. CASE pc \in {"writeJournal", "startRepair"}
    BY <1>1, <2>1, NotRemoved DEF RemovedInv, Quiet
  <2>2. CASE pc \notin {"writeJournal", "startRepair"}
    BY <1>1, <1>2, <2>2, PathsAre, StillRemoved DEF Quiet
  <2>3. QED BY <2>1, <2>2
<1>6. QED BY <1>2, <1>3, <1>4, <1>5 DEF Base

\* Quit keeps Base.
LEMMA QuitBased == ASSUME Base, Quit PROVE Base'
<1>1. /\ pc = "idle" /\ Goto("down")
      /\ UNCHANGED <<disk, updating, repairing, catalogue, strict, promise, former, removed, crashes, faults, damage>>
  BY DEF Quit, Step, historyVars, boundVars
<1>2. DiskOK' /\ AllKnown'
  BY <1>1, TaskPaths DEF DiskOK, AllKnown, Known
<1>3. TypeOK' /\ task' \in Tasks
  BY <1>1, <1>2, StepTypes DEF Goto, Base, TypeOK
<1>4. PlacesInv'
  BY <1>1, <1>2 DEF PlacesInv, Goto, Updates, Holding
<1>5. RemovedInv'
  BY <1>1, StillRemoved DEF Quiet, Goto
<1>6. QED BY <1>2, <1>3, <1>4, <1>5 DEF Base

\* Start keeps Base.
LEMMA StartBased == ASSUME Base, Start PROVE Base'
<1>1. /\ pc = "down" /\ pc' = "sweep" /\ catalogue' \in Revisions
      /\ task' = [NoTask EXCEPT !.left = Leftovers]
      /\ UNCHANGED <<disk, updating, repairing, strict, promise, former, removed, crashes, faults, damage>>
  BY DEF Start, historyVars, boundVars
<1>2. DiskOK' /\ AllKnown'
  BY <1>1, TaskPaths DEF DiskOK, AllKnown, Known
<1>3. TypeOK' /\ task' \in Tasks
  <2>1. task' \in Tasks
    BY <1>1, NoTaskIs DEF Tasks, Leftovers
  <2>2. QED BY <1>1, <2>1 DEF Base, TypeOK, Tasks
<1>4. PlacesInv'
  BY <1>1, <1>2 DEF PlacesInv, Updates, Holding
<1>5. RemovedInv'
  BY <1>1, StillRemoved DEF Quiet
<1>6. QED BY <1>2, <1>3, <1>4, <1>5 DEF Base

\* Damage keeps Base.
LEMMA DamageBased == ASSUME Base, Damage PROVE Base'
<1>1. /\ pc = "idle" /\ damage < MaxDamage /\ damage' = damage + 1 /\ promise' = {} /\ former' = {}
      /\ UNCHANGED <<updating, repairing, catalogue, strict, pc, task, removed, crashes, faults>>
  BY DEF Damage
<1>2. PICK p \in Installation, a \in Assets, how \in {"bad", "gone"} : disk' = [disk EXCEPT ![p].files[a] = how]
  BY DEF Damage
<1>3. p \in Paths /\ a \in Files /\ Exists(p) /\ Installation # {}
  BY PathsAre, FilesAre DEF Installation
<1>4. DiskOK' /\ AllKnown'
  BY <1>2, <1>3, TaskPaths, WrittenKeeps
<1>5. TypeOK' /\ task' \in Tasks
  BY <1>1, <1>4, UpdateAssumption DEF Base, TypeOK, DiskOK, Folder
<1>6. PlacesInv'
  BY <1>1, <1>4 DEF PlacesInv, Updates, Holding
<1>7. RemovedInv'
  BY <1>1, <1>3 DEF Base, RemovedInv
<1>8. QED BY <1>4, <1>5, <1>6, <1>7 DEF Base

-----------------------------------------------------------------------------
(* Recovery keeps what holds whichever step failed.                        *)

Recovering == pc' \in {"sweep", "recover", "revert", "down", "idle"}

\* A step of the recovery only has the disk and what was removed to mind.
LEMMA RecoveryTypes ==
  ASSUME Base, DiskOK', AllKnown', Recovering, UNCHANGED <<catalogue, strict, promise, former, crashes, damage, removed>>,
         updating' \in {updating, None}, repairing' \in {repairing, NoPath},
         task' \in {task, NoTask} \/ task' \in Tasks,
         faults' = faults \/ Fault, RemovedInv'
  PROVE  Base'
<1>1. updating' \in 0 .. Unnamed /\ repairing' \in Candidates \cup {NoPath} /\ removed' \in BOOLEAN
  BY UpdateAssumption DEF Base, TypeOK, None, Unnamed
<1>2. TypeOK' /\ task' \in Tasks
  BY <1>1, StepTypes
<1>3. PlacesInv'
  BY DEF PlacesInv, Updates, Holding, Recovering
<1>4. QED BY <1>2, <1>3 DEF Base

\* A rename of the recovery keeps Base; nothing was removed where one is due.
LEMMA ResumeBased ==
  ASSUME Base, removed = FALSE, NEW from \in Paths, NEW to \in Paths, from # to,
         NEW at \in {"recover", "revert"}, Rename(at, from, to, at, "down")
  PROVE  Base'
<1>1. /\ DiskOK' /\ AllKnown'
      /\ UNCHANGED <<updating, repairing, catalogue, strict, promise, former, removed, crashes, damage>>
      /\ \/ Goto(at) /\ UNCHANGED faults
         \/ Goto("down") /\ (UNCHANGED faults \/ Fault)
  BY RenameIs, TaskPaths
<1>2. RemovedInv'
  BY <1>1 DEF RemovedInv
<1>3. QED BY <1>1, <1>2, RecoveryTypes DEF Goto, Recovering

\* So does the removal of a journal.
LEMMA JournalBased ==
  ASSUME Base, removed = FALSE, NEW rev \in {updating, None}, NEW folder \in {repairing, NoPath},
         Journal("recover", rev, folder, "recover", "down")
  PROVE  Base'
<1>1. /\ UNCHANGED <<disk, catalogue, strict, promise, former, removed, crashes, damage>>
      /\ updating' \in {updating, rev} /\ repairing' \in {repairing, folder}
      /\ \/ Goto("recover") /\ UNCHANGED faults
         \/ Goto("down") /\ Fault
  BY DEF Journal, historyVars
<1>2. DiskOK' /\ AllKnown'
  BY <1>1, TaskPaths DEF DiskOK, AllKnown, Known
<1>3. RemovedInv'
  BY <1>1 DEF RemovedInv
<1>4. updating' \in {updating, None} /\ repairing' \in {repairing, NoPath}
  BY <1>1
<1>5. QED BY <1>1, <1>2, <1>3, <1>4, RecoveryTypes DEF Goto, Recovering

\* What recovery deletes is neither installed nor parked.
LEMMA SweptBased ==
  ASSUME Base, NEW p \in Paths, p \notin Candidates \cup {Parking},
         NEW at \in {"recover", "revert"}, NEW next \in {"recover", "revert"},
         NEW failed \in {"revert", "down"}, DeleteOrFail(at, p, next, failed)
  PROVE  Base'
<1>1. /\ DiskOK' /\ AllKnown' /\ pc = at
      /\ UNCHANGED <<updating, repairing, catalogue, strict, promise, former, removed, crashes, damage>>
      /\ \A q \in Paths : q # p => disk'[q] = disk[q]
      /\ \/ Goto(next) /\ UNCHANGED faults
         \/ UNCHANGED <<pc, task, faults>>
         \/ Goto(failed) /\ Fault
  BY DeleteOrFailIs, TaskPaths
<1>2. Recovering
  BY <1>1 DEF Recovering, Goto
<1>3. RemovedInv'
  <2>1. \A q \in Candidates \cup {Parking} : disk'[q] = disk[q]
    BY <1>1, PathsAre
  <2>2. QED BY <1>1, <1>2, <2>1, StillRemoved DEF Quiet, Recovering
<1>4. QED BY <1>1, <1>2, <1>3, RecoveryTypes DEF Goto

\* The folders that were moved aside are none of those that are read.
LEMMA UnreadIs ==
  /\ Unread \subseteq Paths
  /\ \A p \in Unread : p \notin Candidates \cup {Staging, Discard, Parking}
BY DEF Unread, Paths, Aside, PreviousAside, Candidates, Installed, Staging, Discard,
     Parking, None

\* ResumeRevert keeps Base.
LEMMA ResumeRevertBased == ASSUME Base, ResumeRevert PROVE Base'
<1>1. Exists(Parking) /\ disk[Parking].rev \in Revisions
  BY TaskPaths, PathsAre DEF ResumeRevert
<1>2. removed = FALSE
  BY <1>1 DEF Base, RemovedInv, Unfinished, TypeOK
<1>3. Kept \in Paths /\ Kept \notin Candidates \cup {Parking}
  BY <1>1, PathsAre DEF Kept
<1>4. CASE DeleteOrFail("revert", Kept, "revert", "down")
  BY <1>3, <1>4, SweptBased
<1>5. CASE ResumeParked(Parking, Kept)
  BY <1>2, <1>3, <1>5, PathsAre, ResumeBased DEF ResumeParked
<1>6. CASE Exists(Home) /\ ResumeParked(Home, Previous(disk[Home].rev))
  <2>1. disk[Home].rev \in Revisions
    BY <1>6, TaskPaths, PathsAre
  <2>2. Previous(disk[Home].rev) \in Paths /\ Previous(disk[Home].rev) # Home /\ Home \in Paths
    BY <2>1, PathsAre
  <2>3. QED BY <1>2, <1>6, <2>2, ResumeBased DEF ResumeParked
<1>7. CASE ResumeParked(Parking, Home)
  BY <1>2, <1>7, PathsAre, ResumeBased DEF ResumeParked
<1>8. QED BY <1>4, <1>5, <1>6, <1>7 DEF ResumeRevert

\* ResumeRepair keeps Base.
LEMMA ResumeRepairBased == ASSUME Base, ResumeRepair PROVE Base'
<1>1. repairing \in Candidates /\ repairing \in Paths /\ repairing \notin {Staging, Discard}
  BY PathsAre DEF ResumeRepair, Base, TypeOK
<1>2. removed = FALSE
  BY DEF ResumeRepair, Base, RemovedInv, Unfinished, TypeOK
<1>3. CASE ResumeRename(Staging, repairing)
  BY <1>1, <1>2, <1>3, PathsAre, ResumeBased DEF ResumeRename
<1>4. CASE ResumeRename(Discard, repairing)
  BY <1>1, <1>2, <1>4, PathsAre, ResumeBased DEF ResumeRename
<1>5. CASE Exists(repairing) /\ PutBack("recover", repairing, "recover", "down")
  <2>1. /\ DiskOK' /\ AllKnown' /\ pc = "recover"
        /\ UNCHANGED <<updating, repairing, catalogue, strict, promise, former, removed, crashes, damage>>
        /\ \/ Goto("recover") /\ UNCHANGED <<disk, faults>>
           \/ UNCHANGED <<pc, task, faults>>
           \/ Goto("down") /\ UNCHANGED disk /\ Fault
    BY <1>1, <1>5, PutBackIs, TaskPaths
  <2>2. Recovering /\ RemovedInv'
    BY <1>2, <2>1 DEF Recovering, RemovedInv, Goto
  <2>3. QED BY <2>1, <2>2, RecoveryTypes DEF Goto
<1>6. CASE RepairJournal("recover", NoPath, "recover", "down")
  BY <1>2, <1>6, JournalBased DEF RepairJournal
<1>7. QED BY <1>3, <1>4, <1>5, <1>6 DEF ResumeRepair

\* ResumeUpdate keeps Base.
LEMMA ResumeUpdateBased == ASSUME Base, ResumeUpdate PROVE Base'
<1>2. removed = FALSE
  BY DEF ResumeUpdate, Base, RemovedInv, Unfinished, TypeOK
<1>3. CASE ResumeRename(Staging, Home)
  BY <1>2, <1>3, PathsAre, ResumeBased DEF ResumeRename
<1>4. ASSUME NEW r \in NamedPrevious, ResumeRename(Previous(r), Home) PROVE Base'
  BY <1>2, <1>4, PathsAre, ResumeBased DEF ResumeRename, NamedPrevious
<1>5. CASE UpdateJournal("recover", None, "recover", "down")
  BY <1>2, <1>5, JournalBased DEF UpdateJournal
<1>6. QED BY <1>3, <1>4, <1>5 DEF ResumeUpdate

\* A leftover is deleted or not, and has been tried.
LEMMA SweepIs ==
  ASSUME Base, Sweep
  PROVE  /\ DiskOK' /\ AllKnown' /\ pc = "sweep" /\ pc' \in {"sweep", "recover"}
         /\ UNCHANGED <<updating, repairing, catalogue, strict, promise, former, removed, crashes, damage>>
         /\ task' \in Tasks /\ task'.from = task.from
         /\ \A q \in Paths : q \notin Unread => disk'[q] = disk[q]
         /\ faults' = faults \/ Fault
<1>1. /\ pc = "sweep" /\ task \in Tasks /\ task.left \subseteq Unread
      /\ UNCHANGED <<updating, repairing, catalogue, strict, promise, former, removed, crashes, damage>>
  BY DEF Sweep, FileStep, Base, Tasks
<1>2. ASSUME UNCHANGED disk PROVE DiskOK' /\ AllKnown'
  BY <1>2, TaskPaths DEF DiskOK, AllKnown, Known
<1>3. CASE task.left = {} /\ Goto("recover") /\ UNCHANGED <<disk, faults>>
  BY <1>1, <1>2, <1>3 DEF Goto
<1>4. ASSUME NEW p \in task.left, task' = [task EXCEPT !.left = @ \ {p}], UNCHANGED pc,
             \/ disk' = [disk EXCEPT ![p] = Nothing] /\ UNCHANGED faults
             \/ Fault /\ UNCHANGED disk
      PROVE  /\ DiskOK' /\ AllKnown' /\ task' \in Tasks /\ task'.from = task.from
             /\ \A q \in Paths : q \notin Unread => disk'[q] = disk[q]
  <2>1. task' \in Tasks /\ task'.from = task.from
    BY <1>1, <1>4 DEF Tasks
  <2>2. p \in Unread /\ p \in Paths
    BY <1>1, UnreadIs
  <2>3. CASE disk' = [disk EXCEPT ![p] = Nothing]
    <3>1. DiskOK' /\ disk'[p] = Nothing /\ \A q \in Paths : q # p => disk'[q] = disk[q]
      BY <2>2, <2>3, ReplacedIs, NothingIs, TaskPaths
    <3>2. QED BY <2>1, <2>2, <3>1, TaskPaths DEF AllKnown, Known
  <2>4. CASE UNCHANGED disk
    BY <1>2, <2>1, <2>4
  <2>5. QED BY <1>4, <2>3, <2>4
<1>5. QED BY <1>1, <1>3, <1>4 DEF Sweep

\* A step of the recovery that only moves on.
LEMMA PassedBased ==
  ASSUME Base, NEW at \in {"recover", "revert"}, NEW next \in {"revert", "idle"}, Step(at, next)
  PROVE  Base'
<1>1. /\ pc = at /\ Goto(next)
      /\ UNCHANGED <<disk, updating, repairing, catalogue, strict, promise, former, removed, crashes, faults, damage>>
  BY DEF Step, historyVars, boundVars
<1>2. DiskOK' /\ AllKnown'
  BY <1>1, TaskPaths DEF DiskOK, AllKnown, Known
<1>3. RemovedInv'
  BY <1>1, StillRemoved DEF Quiet, Goto
<1>4. QED BY <1>1, <1>2, <1>3, RecoveryTypes DEF Recovering, Goto

\* Recovery keeps Base.
LEMMA RecoveryBased == ASSUME Base, Recovery PROVE Base'
<1>1. CASE Sweep
  <2>1. \A q \in Candidates \cup {Parking} : disk'[q] = disk[q]
    BY <1>1, SweepIs, UnreadIs, PathsAre
  <2>2. RemovedInv'
    BY <1>1, <2>1, SweepIs, StillRemoved DEF Quiet
  <2>3. QED BY <1>1, <2>2, SweepIs, RecoveryTypes DEF Recovering
<1>2. CASE ResumeUpdate
  BY <1>2, ResumeUpdateBased
<1>3. CASE DropDiscard
  <2>1. CASE DeleteOrFail("recover", Discard, "revert", "revert")
    BY <2>1, PathsAre, SweptBased
  <2>2. CASE Step("recover", "revert")
    BY <2>2, PassedBased
  <2>3. QED BY <1>3, <2>1, <2>2 DEF DropDiscard
<1>4. CASE Recovered
  BY <1>4, PassedBased DEF Recovered
<1>5. QED
  BY <1>1, <1>2, <1>3, <1>4, ResumeRepairBased, ResumeRevertBased DEF Recovery

-----------------------------------------------------------------------------
(* What holds whichever step failed, of the whole specification.           *)

\* Base holds at first.
LEMMA BaseInit == ASSUME Init PROVE Base
<1>1. PICK n \in Folders : disk = [p \in Paths |-> IF p = Installed(n) THEN Whole(1) ELSE Nothing]
  BY DEF Init
<1>2. /\ updating = None /\ repairing = NoPath /\ catalogue = 1 /\ strict \in BOOLEAN
      /\ pc = "idle" /\ task = NoTask /\ promise = {} /\ former = {} /\ removed = FALSE
      /\ crashes = 0 /\ faults = 0 /\ damage = 0
  BY DEF Init
<1>3. 1 \in Revisions
  BY UpdateAssumption DEF Revisions
<1>4. Whole(1) \in Folder /\ Whole(1).rev = 1
  BY <1>3, StagedIs DEF Whole
<1>5. DiskOK
  BY <1>1, <1>4, NothingIs DEF DiskOK
<1>6. AllKnown
  BY <1>1, <1>3, <1>4 DEF AllKnown, Known
<1>7. TypeOK /\ task \in Tasks
  <2>1. task \in Tasks /\ catalogue \in Revisions
    BY <1>2, <1>3, NoTaskIs
  <2>2. /\ updating \in 0 .. Unnamed /\ repairing \in Candidates \cup {NoPath}
        /\ crashes \in 0 .. MaxCrashes /\ faults \in 0 .. MaxFaults /\ damage \in 0 .. MaxDamage
        /\ promise \subseteq {"present", "usable", "whole"} /\ former \subseteq Revisions /\ removed \in BOOLEAN
    <3>1. \A k \in Nat : 0 \in 0 .. k
      OBVIOUS
    <3>2. MaxRevision + 1 \in Nat /\ MaxCrashes \in Nat /\ MaxFaults \in Nat /\ MaxDamage \in Nat
      BY UpdateAssumption
    <3>3. QED BY <1>2, <3>1, <3>2 DEF None, Unnamed
  <2>3. QED BY <1>2, <1>5, <2>1, <2>2 DEF TypeOK, DiskOK, Folder, Tasks
<1>8. QED BY <1>2, <1>6, <1>7 DEF Base, PlacesInv, RemovedInv, Updates, Holding

\* Every step keeps Base.
LEMMA BaseStep == ASSUME Base, [Next]_vars PROVE Base'
<1>1. CASE UNCHANGED vars
  BY <1>1 DEF vars, historyVars, boundVars, Base, TypeOK, PlacesInv, RemovedInv, Updates,
       Holding, Quiet,
     AllKnown, Known, Exists, Installation, Unfinished, CurrentRevision
<1>2. CASE Operation
  BY <1>2, BeginInstallBased, InstallBased, DownloadFailsBased, BeginUpdateBased,
       DropPreviousBased,
     WriteJournalBased, MoveOutBased, MoveInBased, MoveBackBased, RemoveJournalBased, ClearAsideBased,
     AsideOutBased, AsideInBased, AsideBackBased, DeleteAsideBased, BeginRevertBased, ParkBased,
     RestoreBased, CheckRestoredBased, UnrestoreBased, UnparkBased, KeepBased, BeginDeletePreviousBased,
     BeginRemoveBased, ClearBased, MoveAsideBased, EraseBased, ClearPreviousBased,
     MovePreviousAsideBased, ErasePreviousBased, BeginRepairBased, StartRepairBased, GatherBased,
     AssembleBased, ClearDiscardBased, DamagedOutBased, RepairedInBased, DamagedBackBased,
     RollBackBased, RolledBackBased, EndRepairBased, DeleteDiscardBased DEF Operation
<1>3. QED BY <1>1, <1>2, RecoveryBased, CrashBased, QuitBased, StartBased,
     DamageBased DEF Next

\* Whatever fails, every operation finds the folders its next step is about.
LEMMA BaseAlways == Spec => []Base
BY BaseInit, BaseStep, PTL DEF Spec

\* Whatever fails, and however the folder is named, the variables keep their types.
THEOREM TypeCorrect == Spec => []TypeOK
<1>1. Base => TypeOK
  BY DEF Base
<1>2. QED BY <1>1, BaseAlways, PTL

\* A package the user removed while nothing was left unfinished stays away until it
\* is installed again, whatever fails and whenever the host crashes.
THEOREM RemovedStays == Spec => []RemovedStaysAway
<1>1. Base => RemovedStaysAway
  BY DEF Base, RemovedInv, RemovedStaysAway
<1>2. QED BY <1>1, BaseAlways, PTL

-----------------------------------------------------------------------------
(* What holds as long as no file operation failed.                         *)

\* A step before the first failure, if there is one.
Calm == Base /\ CrashInv /\ faults' = 0

\* Without a failure, a file operation does what it says.
LEMMA NoFault == ASSUME Base, Fault PROVE faults' # 0
BY DEF Fault, Base, TypeOK

\* The package is installed in its own folder, and in no other.
LEMMA CalmIs ==
  ASSUME Base, CrashInv
  PROVE  /\ DiskOK /\ AllKnown /\ task.from = Home /\ AsideOf(task.from) = Aside("id")
         /\ ~Exists(Installed("other"))
         /\ Maintained \subseteq {Home} /\ Discovered \subseteq {Home} /\ Damaged \subseteq {Home}
         /\ Installation \subseteq {Home}
<1>1. Candidates = {Home, Installed("other")} /\ ~Exists(Installed("other"))
  BY DEF Candidates, Home, CrashInv, AtHome, Exists
<1>2. AsideOf(Home) = Aside("id")
  BY DEF AsideOf, Home, Installed
<1>3. QED BY <1>1, <1>2, TaskPaths, MaintainedIs DEF CrashInv, AtHome, Maintained,
     Discovered, Damaged, Installation

\* The folders the package is told by, and those it is told by at some steps only.
LEMMA FoldersAre ==
  /\ {Home, Installed("other"), Staging, Discard, Parking, Aside("id"), PreviousAside} \subseteq Paths
  /\ Home # Installed("other") /\ Home # Staging /\ Home # Discard /\ Home # Parking /\ Home # Aside("id") /\ Home # PreviousAside
  /\ Installed("other") # Staging /\ Installed("other") # Discard /\ Installed("other") # Parking
  /\ Installed("other") # Aside("id") /\ Installed("other") # PreviousAside
  /\ Staging # Discard /\ Staging # Parking /\ Staging # Aside("id") /\ Staging # PreviousAside
  /\ Discard # Parking /\ Discard # Aside("id") /\ Discard # PreviousAside
  /\ Parking # Aside("id") /\ Parking # PreviousAside /\ Aside("id") # PreviousAside
  /\ Home # NoPath
  /\ \A r \in Revisions :
       /\ Previous(r) \in Paths
       /\ Previous(r) \notin {Home, Installed("other"), Staging, Discard, Parking, Aside("id"), PreviousAside}
BY DEF Home, Staging, Discard, Parking, PreviousAside, Paths, Installed, NoPath, Aside,
     Previous, None

\* The renames of the operations.

\* The staged package has all its files.
LEMMA InstallCalm == ASSUME Calm, Install PROVE CrashInv'
<1>1. pc = "install"
  BY TaskPaths, PathsAre, CalmIs DEF Calm, Install, Rename, Base, PlacesInv, Updates,
       Holding
<1>2. /\ UNCHANGED <<updating, repairing, strict, promise, former>>
      /\ pc' = "idle"
      /\ task' = NoTask
      /\ disk'[Staging] = Nothing
      /\ disk'[Home] = disk[Staging]
      /\ disk'[Installed("other")] = disk[Installed("other")]
      /\ disk'[Discard] = disk[Discard]
      /\ disk'[Parking] = disk[Parking]
  BY <1>1, RenameIs, FoldersAre, CalmIs, NoFault DEF Calm, Install, Goto, CrashInv,
       WayIsFree
<1>3. AtHome'
  BY <1>1, <1>2, NoTaskIs, FoldersAre DEF Calm, CrashInv, AtHome
<1>4. Journals'
  BY <1>1, <1>2, FoldersAre, UnnamedIs DEF Calm, CrashInv, Journals, InUpdate, InRepair,
       Open, None
<1>5. WayIsFree'
  BY <1>1, <1>2 DEF Calm, CrashInv, WayIsFree, Journals, InUpdate, InRepair, Open, None,
       Exists
<1>6. StagedInv'
  BY <1>1, <1>2, NothingIs, FilesAre DEF Calm, CrashInv, StagedInv, RepairInv, Updates,
       Journals, InUpdate, InRepair, Open, None, Exists, Identified, AllGood, Validates,
       Present, Good, Lacks
<1>7. RepairInv'
  BY <1>1, <1>2, FoldersAre, NothingIs, FilesAre DEF Calm, CrashInv, RepairInv, StagedInv,
       Journals, InUpdate, InRepair, Open, None, Exists, Identified, AllGood, Validates,
       Present, Good, Lacks
<1>8. UpdateInv'
  BY <1>1, <1>2, NothingIs, FilesAre DEF Calm, CrashInv, UpdateInv, KeepsPromise,
       StagedInv, PromiseInv, Free, Reverting, Updates, Journals, InUpdate, InRepair,
       Open, None, Exists, Identified, AllGood, Validates, Present, Good, Lacks
<1>9. PromiseInv'
  BY <1>1, <1>2, NothingIs, FilesAre, FoldersAre DEF Calm, CrashInv, PromiseInv, AtHome,
       KeepsPromise, UpdateInv, RepairInv, StagedInv, WayIsFree, Updates, Free, Reverting,
       Journals, InUpdate, InRepair, Open, None, Exists, Identified, AllGood, Validates,
       Present, Good, Lacks
<1>10. QED BY <1>3, <1>4, <1>5, <1>6, <1>7, <1>8, <1>9 DEF Calm, CrashInv

\* The package that worked is kept under the revision the journal names.
LEMMA MoveOutCalm == ASSUME Calm, MoveOut PROVE CrashInv'
<1>1. pc = "moveOut" /\ CurrentRevision \in Revisions /\ updating = CurrentRevision
  BY TaskPaths, PathsAre, CalmIs DEF Calm, MoveOut, Rename, Base, PlacesInv, Updates,
       Holding, CurrentRevision
<1>2. /\ UNCHANGED <<updating, repairing, strict, promise, former>>
      /\ \/ /\ pc' = "moveIn"
            /\ task' = task
            /\ disk'[Home] = Nothing
            /\ disk'[Previous(updating)] = disk[Home]
            /\ disk'[Installed("other")] = disk[Installed("other")]
            /\ disk'[Staging] = disk[Staging]
            /\ disk'[Discard] = disk[Discard]
            /\ disk'[Parking] = disk[Parking]
         \/ pc' = "endUpdate" /\ task' = task /\ UNCHANGED disk
  BY <1>1, RenameIs, FoldersAre, CalmIs, NoFault DEF Calm, MoveOut, Goto
<1>3. AtHome'
  BY <1>1, <1>2, NoTaskIs, FoldersAre DEF Calm, CrashInv, AtHome
<1>4. Journals'
  BY <1>1, <1>2, FoldersAre, UnnamedIs DEF Calm, CrashInv, Journals, InUpdate, InRepair,
       Open, None
<1>5. WayIsFree'
  BY <1>1, <1>2 DEF Calm, CrashInv, WayIsFree, Journals, InUpdate, InRepair, Open, None,
       Exists
<1>6. StagedInv'
  BY <1>1, <1>2, NothingIs, FilesAre DEF Calm, CrashInv, StagedInv, RepairInv, Updates,
       Journals, InUpdate, InRepair, Open, None, Exists, Identified, AllGood, Validates,
       Present, Good, Lacks
<1>7. RepairInv'
  BY <1>1, <1>2, FoldersAre, NothingIs, FilesAre DEF Calm, CrashInv, RepairInv, StagedInv,
       Journals, InUpdate, InRepair, Open, None, Exists, Identified, AllGood, Validates,
       Present, Good, Lacks
<1>8. UpdateInv'
  BY <1>1, <1>2, NothingIs, FilesAre DEF Calm, CrashInv, UpdateInv, KeepsPromise,
       StagedInv, PromiseInv, Free, Reverting, Updates, Journals, InUpdate, InRepair,
       Open, None, Exists, Identified, AllGood, Validates, Present, Good, Lacks
<1>9. PromiseInv'
  BY <1>1, <1>2, NothingIs, FilesAre, FoldersAre DEF Calm, CrashInv, PromiseInv, AtHome,
       KeepsPromise, UpdateInv, RepairInv, StagedInv, WayIsFree, Updates, Free, Reverting,
       Journals, InUpdate, InRepair, Open, None, Exists, Identified, AllGood, Validates,
       Present, Good, Lacks
<1>10. QED BY <1>3, <1>4, <1>5, <1>6, <1>7, <1>8, <1>9 DEF Calm, CrashInv

\* The new package has all its files.
LEMMA MoveInCalm == ASSUME Calm, MoveIn PROVE CrashInv'
<1>1. pc = "moveIn" /\ updating \in Revisions
  BY TaskPaths, PathsAre, CalmIs DEF Calm, MoveIn, Rename, Base, PlacesInv, Updates, Holding
<1>2. /\ UNCHANGED <<updating, repairing, strict, promise, former>>
      /\ pc' = "endUpdate"
      /\ task' = task
      /\ disk'[Staging] = Nothing
      /\ disk'[Home] = disk[Staging]
      /\ disk'[Installed("other")] = disk[Installed("other")]
      /\ disk'[Discard] = disk[Discard]
      /\ disk'[Parking] = disk[Parking]
      /\ disk'[Previous(updating)] = disk[Previous(updating)]
  BY <1>1, RenameIs, FoldersAre, CalmIs, NoFault DEF Calm, MoveIn, Goto, CrashInv, WayIsFree
<1>3. AtHome'
  BY <1>1, <1>2, NoTaskIs, FoldersAre DEF Calm, CrashInv, AtHome
<1>4. Journals'
  BY <1>1, <1>2, FoldersAre, UnnamedIs DEF Calm, CrashInv, Journals, InUpdate, InRepair,
       Open, None
<1>5. WayIsFree'
  BY <1>1, <1>2 DEF Calm, CrashInv, WayIsFree, Journals, InUpdate, InRepair, Open, None,
       Exists
<1>6. StagedInv'
  BY <1>1, <1>2, NothingIs, FilesAre DEF Calm, CrashInv, StagedInv, RepairInv, Updates,
       Journals, InUpdate, InRepair, Open, None, Exists, Identified, AllGood, Validates,
       Present, Good, Lacks
<1>7. RepairInv'
  BY <1>1, <1>2, FoldersAre, NothingIs, FilesAre DEF Calm, CrashInv, RepairInv, StagedInv,
       Journals, InUpdate, InRepair, Open, None, Exists, Identified, AllGood, Validates,
       Present, Good, Lacks
<1>8. UpdateInv'
  BY <1>1, <1>2, NothingIs, FilesAre DEF Calm, CrashInv, UpdateInv, KeepsPromise,
       StagedInv, PromiseInv, Free, Reverting, Updates, Journals, InUpdate, InRepair,
       Open, None, Exists, Identified, AllGood, Validates, Present, Good, Lacks
<1>9. PromiseInv'
  BY <1>1, <1>2, NothingIs, FilesAre, FoldersAre DEF Calm, CrashInv, PromiseInv, AtHome,
       KeepsPromise, UpdateInv, RepairInv, StagedInv, WayIsFree, Updates, Free, Reverting,
       Journals, InUpdate, InRepair, Open, None, Exists, Identified, AllGood, Validates,
       Present, Good, Lacks
<1>10. QED BY <1>3, <1>4, <1>5, <1>6, <1>7, <1>8, <1>9 DEF Calm, CrashInv

\* Only a damaged package is moved aside, and that was promised to nobody.
LEMMA AsideOutCalm == ASSUME Calm, AsideOut PROVE CrashInv'
<1>1. pc = "asideOut"
  BY TaskPaths, PathsAre, CalmIs DEF Calm, AsideOut, Rename, Base, PlacesInv, Updates,
       Holding
<1>2. /\ UNCHANGED <<updating, repairing, strict, promise, former>>
      /\ pc' = "asideIn"
      /\ task' = task
      /\ disk'[Home] = Nothing
      /\ disk'[Aside("id")] = disk[Home]
      /\ disk'[Installed("other")] = disk[Installed("other")]
      /\ disk'[Staging] = disk[Staging]
      /\ disk'[Discard] = disk[Discard]
      /\ disk'[Parking] = disk[Parking]
  BY <1>1, RenameIs, FoldersAre, CalmIs, NoFault DEF Calm, AsideOut, Goto, CrashInv,
       WayIsFree
<1>3. AtHome'
  BY <1>1, <1>2, NoTaskIs, FoldersAre DEF Calm, CrashInv, AtHome
<1>4. Journals'
  BY <1>1, <1>2, FoldersAre, UnnamedIs DEF Calm, CrashInv, Journals, InUpdate, InRepair,
       Open, None
<1>5. WayIsFree'
  BY <1>1, <1>2 DEF Calm, CrashInv, WayIsFree, Journals, InUpdate, InRepair, Open, None,
       Exists
<1>6. StagedInv'
  BY <1>1, <1>2, NothingIs, FilesAre DEF Calm, CrashInv, StagedInv, RepairInv, Updates,
       Journals, InUpdate, InRepair, Open, None, Exists, Identified, AllGood, Validates,
       Present, Good, Lacks
<1>7. RepairInv'
  BY <1>1, <1>2, FoldersAre, NothingIs, FilesAre DEF Calm, CrashInv, RepairInv, StagedInv,
       Journals, InUpdate, InRepair, Open, None, Exists, Identified, AllGood, Validates,
       Present, Good, Lacks
<1>8. UpdateInv'
  BY <1>1, <1>2, NothingIs, FilesAre DEF Calm, CrashInv, UpdateInv, KeepsPromise,
       StagedInv, PromiseInv, Free, Reverting, Updates, Journals, InUpdate, InRepair,
       Open, None, Exists, Identified, AllGood, Validates, Present, Good, Lacks
<1>9. PromiseInv'
  BY <1>1, <1>2, NothingIs, FilesAre, FoldersAre DEF Calm, CrashInv, PromiseInv, AtHome,
       KeepsPromise, UpdateInv, RepairInv, StagedInv, WayIsFree, Updates, Free, Reverting,
       Journals, InUpdate, InRepair, Open, None, Exists, Identified, AllGood, Validates,
       Present, Good, Lacks
<1>10. QED BY <1>3, <1>4, <1>5, <1>6, <1>7, <1>8, <1>9 DEF Calm, CrashInv

\* The new package has all its files.
LEMMA AsideInCalm == ASSUME Calm, AsideIn PROVE CrashInv'
<1>1. pc = "asideIn"
  BY TaskPaths, PathsAre, CalmIs DEF Calm, AsideIn, Rename, Base, PlacesInv, Updates,
       Holding
<1>2. /\ UNCHANGED <<updating, repairing, strict, promise, former>>
      /\ pc' = "deleteAside"
      /\ task' = task
      /\ disk'[Staging] = Nothing
      /\ disk'[Home] = disk[Staging]
      /\ disk'[Installed("other")] = disk[Installed("other")]
      /\ disk'[Discard] = disk[Discard]
      /\ disk'[Parking] = disk[Parking]
  BY <1>1, RenameIs, FoldersAre, CalmIs, NoFault DEF Calm, AsideIn, Goto, CrashInv,
       WayIsFree
<1>3. AtHome'
  BY <1>1, <1>2, NoTaskIs, FoldersAre DEF Calm, CrashInv, AtHome
<1>4. Journals'
  BY <1>1, <1>2, FoldersAre, UnnamedIs DEF Calm, CrashInv, Journals, InUpdate, InRepair,
       Open, None
<1>5. WayIsFree'
  BY <1>1, <1>2 DEF Calm, CrashInv, WayIsFree, Journals, InUpdate, InRepair, Open, None,
       Exists
<1>6. StagedInv'
  BY <1>1, <1>2, NothingIs, FilesAre DEF Calm, CrashInv, StagedInv, RepairInv, Updates,
       Journals, InUpdate, InRepair, Open, None, Exists, Identified, AllGood, Validates,
       Present, Good, Lacks
<1>7. RepairInv'
  BY <1>1, <1>2, FoldersAre, NothingIs, FilesAre DEF Calm, CrashInv, RepairInv, StagedInv,
       Journals, InUpdate, InRepair, Open, None, Exists, Identified, AllGood, Validates,
       Present, Good, Lacks
<1>8. UpdateInv'
  BY <1>1, <1>2, NothingIs, FilesAre DEF Calm, CrashInv, UpdateInv, KeepsPromise,
       StagedInv, PromiseInv, Free, Reverting, Updates, Journals, InUpdate, InRepair,
       Open, None, Exists, Identified, AllGood, Validates, Present, Good, Lacks
<1>9. PromiseInv'
  BY <1>1, <1>2, NothingIs, FilesAre, FoldersAre DEF Calm, CrashInv, PromiseInv, AtHome,
       KeepsPromise, UpdateInv, RepairInv, StagedInv, WayIsFree, Updates, Free, Reverting,
       Journals, InUpdate, InRepair, Open, None, Exists, Identified, AllGood, Validates,
       Present, Good, Lacks
<1>10. QED BY <1>3, <1>4, <1>5, <1>6, <1>7, <1>8, <1>9 DEF Calm, CrashInv

\* The package that worked is parked.
LEMMA ParkCalm == ASSUME Calm, Park PROVE CrashInv'
<1>1. pc = "park" /\ task.kept \in Revisions
  BY TaskPaths, PathsAre, CalmIs DEF Calm, Park, Rename, Base, PlacesInv, Updates, Holding
<1>2. /\ UNCHANGED <<updating, repairing, strict, promise, former>>
      /\ pc' = "restore"
      /\ task' = task
      /\ disk'[Home] = Nothing
      /\ disk'[Parking] = disk[Home]
      /\ disk'[Installed("other")] = disk[Installed("other")]
      /\ disk'[Staging] = disk[Staging]
      /\ disk'[Discard] = disk[Discard]
      /\ disk'[Previous(task.kept)] = disk[Previous(task.kept)]
  BY <1>1, RenameIs, FoldersAre, CalmIs, NoFault DEF Calm, Park, Goto, CrashInv, WayIsFree
<1>3. AtHome'
  BY <1>1, <1>2, NoTaskIs, FoldersAre DEF Calm, CrashInv, AtHome
<1>4. Journals'
  BY <1>1, <1>2, FoldersAre, UnnamedIs DEF Calm, CrashInv, Journals, InUpdate, InRepair,
       Open, None
<1>5. WayIsFree'
  BY <1>1, <1>2 DEF Calm, CrashInv, WayIsFree, Journals, InUpdate, InRepair, Open, None,
       Exists
<1>6. StagedInv'
  BY <1>1, <1>2, NothingIs, FilesAre DEF Calm, CrashInv, StagedInv, RepairInv, Updates,
       Journals, InUpdate, InRepair, Open, None, Exists, Identified, AllGood, Validates,
       Present, Good, Lacks
<1>7. RepairInv'
  BY <1>1, <1>2, FoldersAre, NothingIs, FilesAre DEF Calm, CrashInv, RepairInv, StagedInv,
       Journals, InUpdate, InRepair, Open, None, Exists, Identified, AllGood, Validates,
       Present, Good, Lacks
<1>8. UpdateInv'
  BY <1>1, <1>2, NothingIs, FilesAre DEF Calm, CrashInv, UpdateInv, KeepsPromise,
       StagedInv, PromiseInv, Free, Reverting, Updates, Journals, InUpdate, InRepair,
       Open, None, Exists, Identified, AllGood, Validates, Present, Good, Lacks
<1>9. PromiseInv'
  BY <1>1, <1>2, NothingIs, FilesAre, FoldersAre DEF Calm, CrashInv, PromiseInv, AtHome,
       KeepsPromise, UpdateInv, RepairInv, StagedInv, WayIsFree, Updates, Free, Reverting,
       Journals, InUpdate, InRepair, Open, None, Exists, Identified, AllGood, Validates,
       Present, Good, Lacks
<1>10. QED BY <1>3, <1>4, <1>5, <1>6, <1>7, <1>8, <1>9 DEF Calm, CrashInv

\* The kept version takes its place; what worked stays parked.
LEMMA RestoreCalm == ASSUME Calm, Restore PROVE CrashInv'
<1>1. pc = "restore" /\ task.kept \in Revisions
  BY TaskPaths, PathsAre, CalmIs DEF Calm, Restore, Rename, Base, PlacesInv, Updates,
       Holding
<1>2. /\ UNCHANGED <<updating, repairing, strict, promise, former>>
      /\ pc' = "check"
      /\ task' = task
      /\ disk'[Previous(task.kept)] = Nothing
      /\ disk'[Home] = disk[Previous(task.kept)]
      /\ disk'[Installed("other")] = disk[Installed("other")]
      /\ disk'[Staging] = disk[Staging]
      /\ disk'[Discard] = disk[Discard]
      /\ disk'[Parking] = disk[Parking]
  BY <1>1, RenameIs, FoldersAre, CalmIs, NoFault DEF Calm, Restore, Goto, CrashInv,
       WayIsFree
<1>3. AtHome'
  BY <1>1, <1>2, NoTaskIs, FoldersAre DEF Calm, CrashInv, AtHome
<1>4. Journals'
  BY <1>1, <1>2, FoldersAre, UnnamedIs DEF Calm, CrashInv, Journals, InUpdate, InRepair,
       Open, None
<1>5. WayIsFree'
  BY <1>1, <1>2 DEF Calm, CrashInv, WayIsFree, Journals, InUpdate, InRepair, Open, None,
       Exists
<1>6. StagedInv'
  BY <1>1, <1>2, NothingIs, FilesAre DEF Calm, CrashInv, StagedInv, RepairInv, Updates,
       Journals, InUpdate, InRepair, Open, None, Exists, Identified, AllGood, Validates,
       Present, Good, Lacks
<1>7. RepairInv'
  BY <1>1, <1>2, FoldersAre, NothingIs, FilesAre DEF Calm, CrashInv, RepairInv, StagedInv,
       Journals, InUpdate, InRepair, Open, None, Exists, Identified, AllGood, Validates,
       Present, Good, Lacks
<1>8. UpdateInv'
  BY <1>1, <1>2, NothingIs, FilesAre DEF Calm, CrashInv, UpdateInv, KeepsPromise,
       StagedInv, PromiseInv, Free, Reverting, Updates, Journals, InUpdate, InRepair,
       Open, None, Exists, Identified, AllGood, Validates, Present, Good, Lacks
<1>9. PromiseInv'
  BY <1>1, <1>2, NothingIs, FilesAre, FoldersAre DEF Calm, CrashInv, PromiseInv, AtHome,
       KeepsPromise, UpdateInv, RepairInv, StagedInv, WayIsFree, Updates, Free, Reverting,
       Journals, InUpdate, InRepair, Open, None, Exists, Identified, AllGood, Validates,
       Present, Good, Lacks
<1>10. QED BY <1>3, <1>4, <1>5, <1>6, <1>7, <1>8, <1>9 DEF Calm, CrashInv

\* A version that does not validate goes back; what worked stays parked.
LEMMA UnrestoreCalm == ASSUME Calm, Unrestore PROVE CrashInv'
<1>1. pc = "unrestore" /\ task.kept \in Revisions
  BY TaskPaths, PathsAre, CalmIs DEF Calm, Unrestore, Rename, Base, PlacesInv, Updates,
       Holding
<1>2. /\ UNCHANGED <<updating, repairing, strict, promise, former>>
      /\ pc' = "unpark"
      /\ task' = task
      /\ disk'[Home] = Nothing
      /\ disk'[Previous(task.kept)] = disk[Home]
      /\ disk'[Installed("other")] = disk[Installed("other")]
      /\ disk'[Staging] = disk[Staging]
      /\ disk'[Discard] = disk[Discard]
      /\ disk'[Parking] = disk[Parking]
  BY <1>1, RenameIs, FoldersAre, CalmIs, NoFault DEF Calm, Unrestore, Goto, CrashInv,
       WayIsFree
<1>3. AtHome'
  BY <1>1, <1>2, NoTaskIs, FoldersAre DEF Calm, CrashInv, AtHome
<1>4. Journals'
  BY <1>1, <1>2, FoldersAre, UnnamedIs DEF Calm, CrashInv, Journals, InUpdate, InRepair,
       Open, None
<1>5. WayIsFree'
  BY <1>1, <1>2 DEF Calm, CrashInv, WayIsFree, Journals, InUpdate, InRepair, Open, None,
       Exists
<1>6. StagedInv'
  BY <1>1, <1>2, NothingIs, FilesAre DEF Calm, CrashInv, StagedInv, RepairInv, Updates,
       Journals, InUpdate, InRepair, Open, None, Exists, Identified, AllGood, Validates,
       Present, Good, Lacks
<1>7. RepairInv'
  BY <1>1, <1>2, FoldersAre, NothingIs, FilesAre DEF Calm, CrashInv, RepairInv, StagedInv,
       Journals, InUpdate, InRepair, Open, None, Exists, Identified, AllGood, Validates,
       Present, Good, Lacks
<1>8. UpdateInv'
  BY <1>1, <1>2, NothingIs, FilesAre DEF Calm, CrashInv, UpdateInv, KeepsPromise,
       StagedInv, PromiseInv, Free, Reverting, Updates, Journals, InUpdate, InRepair,
       Open, None, Exists, Identified, AllGood, Validates, Present, Good, Lacks
<1>9. PromiseInv'
  BY <1>1, <1>2, NothingIs, FilesAre, FoldersAre DEF Calm, CrashInv, PromiseInv, AtHome,
       KeepsPromise, UpdateInv, RepairInv, StagedInv, WayIsFree, Updates, Free, Reverting,
       Journals, InUpdate, InRepair, Open, None, Exists, Identified, AllGood, Validates,
       Present, Good, Lacks
<1>10. QED BY <1>3, <1>4, <1>5, <1>6, <1>7, <1>8, <1>9 DEF Calm, CrashInv

\* What worked takes its place again.
LEMMA UnparkCalm == ASSUME Calm, Unpark PROVE CrashInv'
<1>1. pc = "unpark"
  BY TaskPaths, PathsAre, CalmIs DEF Calm, Unpark, Rename, Base, PlacesInv, Updates, Holding
<1>2. /\ UNCHANGED <<updating, repairing, strict, promise, former>>
      /\ pc' = "idle"
      /\ task' = NoTask
      /\ disk'[Parking] = Nothing
      /\ disk'[Home] = disk[Parking]
      /\ disk'[Installed("other")] = disk[Installed("other")]
      /\ disk'[Staging] = disk[Staging]
      /\ disk'[Discard] = disk[Discard]
  BY <1>1, RenameIs, FoldersAre, CalmIs, NoFault DEF Calm, Unpark, Goto, CrashInv, WayIsFree
<1>3. AtHome'
  BY <1>1, <1>2, NoTaskIs, FoldersAre DEF Calm, CrashInv, AtHome
<1>4. Journals'
  BY <1>1, <1>2, FoldersAre, UnnamedIs DEF Calm, CrashInv, Journals, InUpdate, InRepair,
       Open, None
<1>5. WayIsFree'
  BY <1>1, <1>2 DEF Calm, CrashInv, WayIsFree, Journals, InUpdate, InRepair, Open, None,
       Exists
<1>6. StagedInv'
  BY <1>1, <1>2, NothingIs, FilesAre DEF Calm, CrashInv, StagedInv, RepairInv, Updates,
       Journals, InUpdate, InRepair, Open, None, Exists, Identified, AllGood, Validates,
       Present, Good, Lacks
<1>7. RepairInv'
  BY <1>1, <1>2, FoldersAre, NothingIs, FilesAre DEF Calm, CrashInv, RepairInv, StagedInv,
       Journals, InUpdate, InRepair, Open, None, Exists, Identified, AllGood, Validates,
       Present, Good, Lacks
<1>8. UpdateInv'
  BY <1>1, <1>2, NothingIs, FilesAre DEF Calm, CrashInv, UpdateInv, KeepsPromise,
       StagedInv, PromiseInv, Free, Reverting, Updates, Journals, InUpdate, InRepair,
       Open, None, Exists, Identified, AllGood, Validates, Present, Good, Lacks
<1>9. PromiseInv'
  BY <1>1, <1>2, NothingIs, FilesAre, FoldersAre DEF Calm, CrashInv, PromiseInv, AtHome,
       KeepsPromise, UpdateInv, RepairInv, StagedInv, WayIsFree, Updates, Free, Reverting,
       Journals, InUpdate, InRepair, Open, None, Exists, Identified, AllGood, Validates,
       Present, Good, Lacks
<1>10. QED BY <1>3, <1>4, <1>5, <1>6, <1>7, <1>8, <1>9 DEF Calm, CrashInv

\* The restored version validates; whether the parked one is kept does not matter.
LEMMA KeepCalm == ASSUME Calm, Keep PROVE CrashInv'
<1>1. pc = "keep" /\ disk[Parking].rev \in Revisions
  BY TaskPaths, PathsAre, CalmIs DEF Calm, Keep, Rename, Base, PlacesInv, Updates, Holding
<1>2. /\ UNCHANGED <<updating, repairing, strict, promise, former>>
      /\ \/ /\ pc' = "idle"
            /\ task' = NoTask
            /\ disk'[Parking] = Nothing
            /\ disk'[Previous(disk[Parking].rev)] = disk[Parking]
            /\ disk'[Home] = disk[Home]
            /\ disk'[Installed("other")] = disk[Installed("other")]
            /\ disk'[Staging] = disk[Staging]
            /\ disk'[Discard] = disk[Discard]
         \/ pc' = "idle" /\ task' = NoTask /\ UNCHANGED disk
  BY <1>1, RenameIs, FoldersAre, CalmIs, NoFault DEF Calm, Keep, Goto
<1>3. AtHome'
  BY <1>1, <1>2, NoTaskIs, FoldersAre DEF Calm, CrashInv, AtHome
<1>4. Journals'
  BY <1>1, <1>2, FoldersAre, UnnamedIs DEF Calm, CrashInv, Journals, InUpdate, InRepair,
       Open, None
<1>5. WayIsFree'
  BY <1>1, <1>2 DEF Calm, CrashInv, WayIsFree, Journals, InUpdate, InRepair, Open, None,
       Exists
<1>6. StagedInv'
  BY <1>1, <1>2, NothingIs, FilesAre DEF Calm, CrashInv, StagedInv, RepairInv, Updates,
       Journals, InUpdate, InRepair, Open, None, Exists, Identified, AllGood, Validates,
       Present, Good, Lacks
<1>7. RepairInv'
  BY <1>1, <1>2, FoldersAre, NothingIs, FilesAre DEF Calm, CrashInv, RepairInv, StagedInv,
       Journals, InUpdate, InRepair, Open, None, Exists, Identified, AllGood, Validates,
       Present, Good, Lacks
<1>8. UpdateInv'
  BY <1>1, <1>2, NothingIs, FilesAre DEF Calm, CrashInv, UpdateInv, KeepsPromise,
       StagedInv, PromiseInv, Free, Reverting, Updates, Journals, InUpdate, InRepair,
       Open, None, Exists, Identified, AllGood, Validates, Present, Good, Lacks
<1>9. PromiseInv'
  BY <1>1, <1>2, NothingIs, FilesAre, FoldersAre DEF Calm, CrashInv, PromiseInv, AtHome,
       KeepsPromise, UpdateInv, RepairInv, StagedInv, WayIsFree, Updates, Free, Reverting,
       Journals, InUpdate, InRepair, Open, None, Exists, Identified, AllGood, Validates,
       Present, Good, Lacks
<1>10. QED BY <1>3, <1>4, <1>5, <1>6, <1>7, <1>8, <1>9 DEF Calm, CrashInv

\* The staging folder has all the files, and the discarded package a manifest.
LEMMA DamagedOutCalm == ASSUME Calm, DamagedOut PROVE CrashInv'
<1>1. pc = "damagedOut"
  BY TaskPaths, PathsAre, CalmIs DEF Calm, DamagedOut, Rename, Base, PlacesInv, Updates,
       Holding
<1>2. /\ UNCHANGED <<updating, repairing, strict, promise, former>>
      /\ pc' = "repairedIn"
      /\ task' = task
      /\ disk'[Home] = Nothing
      /\ disk'[Discard] = disk[Home]
      /\ disk'[Installed("other")] = disk[Installed("other")]
      /\ disk'[Staging] = disk[Staging]
      /\ disk'[Parking] = disk[Parking]
  BY <1>1, RenameIs, FoldersAre, CalmIs, NoFault DEF Calm, DamagedOut, Goto, CrashInv,
       WayIsFree
<1>3. AtHome'
  BY <1>1, <1>2, NoTaskIs, FoldersAre DEF Calm, CrashInv, AtHome
<1>4. Journals'
  BY <1>1, <1>2, FoldersAre, UnnamedIs DEF Calm, CrashInv, Journals, InUpdate, InRepair,
       Open, None
<1>5. WayIsFree'
  BY <1>1, <1>2 DEF Calm, CrashInv, WayIsFree, Journals, InUpdate, InRepair, Open, None,
       Exists
<1>6. StagedInv'
  BY <1>1, <1>2, NothingIs, FilesAre DEF Calm, CrashInv, StagedInv, RepairInv, Updates,
       Journals, InUpdate, InRepair, Open, None, Exists, Identified, AllGood, Validates,
       Present, Good, Lacks
<1>7. RepairInv'
  BY <1>1, <1>2, FoldersAre, NothingIs, FilesAre DEF Calm, CrashInv, RepairInv, StagedInv,
       Journals, InUpdate, InRepair, Open, None, Exists, Identified, AllGood, Validates,
       Present, Good, Lacks
<1>8. UpdateInv'
  BY <1>1, <1>2, NothingIs, FilesAre DEF Calm, CrashInv, UpdateInv, KeepsPromise,
       StagedInv, PromiseInv, Free, Reverting, Updates, Journals, InUpdate, InRepair,
       Open, None, Exists, Identified, AllGood, Validates, Present, Good, Lacks
<1>9. PromiseInv'
  BY <1>1, <1>2, NothingIs, FilesAre, FoldersAre DEF Calm, CrashInv, PromiseInv, AtHome,
       KeepsPromise, UpdateInv, RepairInv, StagedInv, WayIsFree, Updates, Free, Reverting,
       Journals, InUpdate, InRepair, Open, None, Exists, Identified, AllGood, Validates,
       Present, Good, Lacks
<1>10. QED BY <1>3, <1>4, <1>5, <1>6, <1>7, <1>8, <1>9 DEF Calm, CrashInv

\* The repaired package has all its files.
LEMMA RepairedInCalm == ASSUME Calm, RepairedIn PROVE CrashInv'
<1>1. pc = "repairedIn"
  BY TaskPaths, PathsAre, CalmIs DEF Calm, RepairedIn, Rename, Base, PlacesInv, Updates,
       Holding
<1>2. /\ UNCHANGED <<updating, repairing, strict, promise, former>>
      /\ pc' = "endRepair"
      /\ task' = task
      /\ disk'[Staging] = Nothing
      /\ disk'[Home] = disk[Staging]
      /\ disk'[Installed("other")] = disk[Installed("other")]
      /\ disk'[Discard] = disk[Discard]
      /\ disk'[Parking] = disk[Parking]
  BY <1>1, RenameIs, FoldersAre, CalmIs, NoFault DEF Calm, RepairedIn, Goto, CrashInv,
       WayIsFree
<1>3. AtHome'
  BY <1>1, <1>2, NoTaskIs, FoldersAre DEF Calm, CrashInv, AtHome
<1>4. Journals'
  BY <1>1, <1>2, FoldersAre, UnnamedIs DEF Calm, CrashInv, Journals, InUpdate, InRepair,
       Open, None
<1>5. WayIsFree'
  BY <1>1, <1>2 DEF Calm, CrashInv, WayIsFree, Journals, InUpdate, InRepair, Open, None,
       Exists
<1>6. StagedInv'
  BY <1>1, <1>2, NothingIs, FilesAre DEF Calm, CrashInv, StagedInv, RepairInv, Updates,
       Journals, InUpdate, InRepair, Open, None, Exists, Identified, AllGood, Validates,
       Present, Good, Lacks
<1>7. RepairInv'
  BY <1>1, <1>2, FoldersAre, NothingIs, FilesAre DEF Calm, CrashInv, RepairInv, StagedInv,
       Journals, InUpdate, InRepair, Open, None, Exists, Identified, AllGood, Validates,
       Present, Good, Lacks
<1>8. UpdateInv'
  BY <1>1, <1>2, NothingIs, FilesAre DEF Calm, CrashInv, UpdateInv, KeepsPromise,
       StagedInv, PromiseInv, Free, Reverting, Updates, Journals, InUpdate, InRepair,
       Open, None, Exists, Identified, AllGood, Validates, Present, Good, Lacks
<1>9. PromiseInv'
  BY <1>1, <1>2, NothingIs, FilesAre, FoldersAre DEF Calm, CrashInv, PromiseInv, AtHome,
       KeepsPromise, UpdateInv, RepairInv, StagedInv, WayIsFree, Updates, Free, Reverting,
       Journals, InUpdate, InRepair, Open, None, Exists, Identified, AllGood, Validates,
       Present, Good, Lacks
<1>10. QED BY <1>3, <1>4, <1>5, <1>6, <1>7, <1>8, <1>9 DEF Calm, CrashInv

\* The deletions of the operations.

\* A leftover that is deleted is read by nobody.
LEMMA ClearAsideCalm == ASSUME Calm, ClearAside PROVE CrashInv'
<1>1. pc = "clearAside"
  BY DEF ClearAside, DeleteOrFail, Delete
<1>2. /\ UNCHANGED <<updating, repairing, strict, promise, former>>
      /\ pc' = "asideOut"
      /\ task' = task
      /\ disk'[Aside("id")] = Nothing
      /\ disk'[Home] = disk[Home]
      /\ disk'[Installed("other")] = disk[Installed("other")]
      /\ disk'[Staging] = disk[Staging]
      /\ disk'[Discard] = disk[Discard]
      /\ disk'[Parking] = disk[Parking]
  BY <1>1, DeleteOrFailIs, FoldersAre, CalmIs, NoFault, UnreadIs DEF Calm, ClearAside,
       Goto, Unread
<1>3. AtHome'
  BY <1>1, <1>2, NoTaskIs, FoldersAre DEF Calm, CrashInv, AtHome
<1>4. Journals'
  BY <1>1, <1>2, FoldersAre, UnnamedIs DEF Calm, CrashInv, Journals, InUpdate, InRepair,
       Open, None
<1>5. WayIsFree'
  BY <1>1, <1>2 DEF Calm, CrashInv, WayIsFree, Journals, InUpdate, InRepair, Open, None,
       Exists
<1>6. StagedInv'
  BY <1>1, <1>2, NothingIs, FilesAre DEF Calm, CrashInv, StagedInv, RepairInv, Updates,
       Journals, InUpdate, InRepair, Open, None, Exists, Identified, AllGood, Validates,
       Present, Good, Lacks
<1>7. RepairInv'
  BY <1>1, <1>2, FoldersAre, NothingIs, FilesAre DEF Calm, CrashInv, RepairInv, StagedInv,
       Journals, InUpdate, InRepair, Open, None, Exists, Identified, AllGood, Validates,
       Present, Good, Lacks
<1>8. UpdateInv'
  BY <1>1, <1>2, NothingIs, FilesAre DEF Calm, CrashInv, UpdateInv, KeepsPromise,
       StagedInv, PromiseInv, Free, Reverting, Updates, Journals, InUpdate, InRepair,
       Open, None, Exists, Identified, AllGood, Validates, Present, Good, Lacks
<1>9. PromiseInv'
  BY <1>1, <1>2, NothingIs, FilesAre, FoldersAre DEF Calm, CrashInv, PromiseInv, AtHome,
       KeepsPromise, UpdateInv, RepairInv, StagedInv, WayIsFree, Updates, Free, Reverting,
       Journals, InUpdate, InRepair, Open, None, Exists, Identified, AllGood, Validates,
       Present, Good, Lacks
<1>10. QED BY <1>3, <1>4, <1>5, <1>6, <1>7, <1>8, <1>9 DEF Calm, CrashInv

\* A leftover that is deleted is read by nobody.
LEMMA DeleteAsideCalm == ASSUME Calm, DeleteAside PROVE CrashInv'
<1>1. pc = "deleteAside"
  BY DEF DeleteAside, DeleteOrFail, Delete
<1>2. /\ UNCHANGED <<updating, repairing, strict, promise, former>>
      /\ pc' = "idle"
      /\ task' = NoTask
      /\ disk'[Aside("id")] = Nothing
      /\ disk'[Home] = disk[Home]
      /\ disk'[Installed("other")] = disk[Installed("other")]
      /\ disk'[Staging] = disk[Staging]
      /\ disk'[Discard] = disk[Discard]
      /\ disk'[Parking] = disk[Parking]
  BY <1>1, DeleteOrFailIs, FoldersAre, CalmIs, NoFault, UnreadIs DEF Calm, DeleteAside,
       Goto, Unread
<1>3. AtHome'
  BY <1>1, <1>2, NoTaskIs, FoldersAre DEF Calm, CrashInv, AtHome
<1>4. Journals'
  BY <1>1, <1>2, FoldersAre, UnnamedIs DEF Calm, CrashInv, Journals, InUpdate, InRepair,
       Open, None
<1>5. WayIsFree'
  BY <1>1, <1>2 DEF Calm, CrashInv, WayIsFree, Journals, InUpdate, InRepair, Open, None,
       Exists
<1>6. StagedInv'
  BY <1>1, <1>2, NothingIs, FilesAre DEF Calm, CrashInv, StagedInv, RepairInv, Updates,
       Journals, InUpdate, InRepair, Open, None, Exists, Identified, AllGood, Validates,
       Present, Good, Lacks
<1>7. RepairInv'
  BY <1>1, <1>2, FoldersAre, NothingIs, FilesAre DEF Calm, CrashInv, RepairInv, StagedInv,
       Journals, InUpdate, InRepair, Open, None, Exists, Identified, AllGood, Validates,
       Present, Good, Lacks
<1>8. UpdateInv'
  BY <1>1, <1>2, NothingIs, FilesAre DEF Calm, CrashInv, UpdateInv, KeepsPromise,
       StagedInv, PromiseInv, Free, Reverting, Updates, Journals, InUpdate, InRepair,
       Open, None, Exists, Identified, AllGood, Validates, Present, Good, Lacks
<1>9. PromiseInv'
  BY <1>1, <1>2, NothingIs, FilesAre, FoldersAre DEF Calm, CrashInv, PromiseInv, AtHome,
       KeepsPromise, UpdateInv, RepairInv, StagedInv, WayIsFree, Updates, Free, Reverting,
       Journals, InUpdate, InRepair, Open, None, Exists, Identified, AllGood, Validates,
       Present, Good, Lacks
<1>10. QED BY <1>3, <1>4, <1>5, <1>6, <1>7, <1>8, <1>9 DEF Calm, CrashInv

\* A leftover that is deleted is read by nobody.
LEMMA ClearCalm == ASSUME Calm, Clear PROVE CrashInv'
<1>1. pc = "clear"
  BY DEF Clear, DeleteOrFail, Delete
<1>2. /\ UNCHANGED <<updating, repairing, strict, promise, former>>
      /\ pc' = "moveAside"
      /\ task' = task
      /\ disk'[Aside("id")] = Nothing
      /\ disk'[Home] = disk[Home]
      /\ disk'[Installed("other")] = disk[Installed("other")]
      /\ disk'[Staging] = disk[Staging]
      /\ disk'[Discard] = disk[Discard]
      /\ disk'[Parking] = disk[Parking]
  BY <1>1, DeleteOrFailIs, FoldersAre, CalmIs, NoFault, UnreadIs DEF Calm, Clear, Goto,
       Unread
<1>3. AtHome'
  BY <1>1, <1>2, NoTaskIs, FoldersAre DEF Calm, CrashInv, AtHome
<1>4. Journals'
  BY <1>1, <1>2, FoldersAre, UnnamedIs DEF Calm, CrashInv, Journals, InUpdate, InRepair,
       Open, None
<1>5. WayIsFree'
  BY <1>1, <1>2 DEF Calm, CrashInv, WayIsFree, Journals, InUpdate, InRepair, Open, None,
       Exists
<1>6. StagedInv'
  BY <1>1, <1>2, NothingIs, FilesAre DEF Calm, CrashInv, StagedInv, RepairInv, Updates,
       Journals, InUpdate, InRepair, Open, None, Exists, Identified, AllGood, Validates,
       Present, Good, Lacks
<1>7. RepairInv'
  BY <1>1, <1>2, FoldersAre, NothingIs, FilesAre DEF Calm, CrashInv, RepairInv, StagedInv,
       Journals, InUpdate, InRepair, Open, None, Exists, Identified, AllGood, Validates,
       Present, Good, Lacks
<1>8. UpdateInv'
  BY <1>1, <1>2, NothingIs, FilesAre DEF Calm, CrashInv, UpdateInv, KeepsPromise,
       StagedInv, PromiseInv, Free, Reverting, Updates, Journals, InUpdate, InRepair,
       Open, None, Exists, Identified, AllGood, Validates, Present, Good, Lacks
<1>9. PromiseInv'
  BY <1>1, <1>2, NothingIs, FilesAre, FoldersAre DEF Calm, CrashInv, PromiseInv, AtHome,
       KeepsPromise, UpdateInv, RepairInv, StagedInv, WayIsFree, Updates, Free, Reverting,
       Journals, InUpdate, InRepair, Open, None, Exists, Identified, AllGood, Validates,
       Present, Good, Lacks
<1>10. QED BY <1>3, <1>4, <1>5, <1>6, <1>7, <1>8, <1>9 DEF Calm, CrashInv

\* A leftover that is deleted is read by nobody.
LEMMA EraseCalm == ASSUME Calm, Erase PROVE CrashInv'
<1>1. pc = "erase"
  BY DEF Erase, DeleteOrFail, Delete
<1>2. /\ UNCHANGED <<updating, repairing, strict, promise, former>>
      /\ pc' \in {"idle", "clearPrevious"}
      /\ task' \in {task, NoTask}
      /\ disk'[Aside("id")] = Nothing
      /\ disk'[Home] = disk[Home]
      /\ disk'[Installed("other")] = disk[Installed("other")]
      /\ disk'[Staging] = disk[Staging]
      /\ disk'[Discard] = disk[Discard]
      /\ disk'[Parking] = disk[Parking]
  BY <1>1, DeleteOrFailIs, FoldersAre, CalmIs, NoFault, UnreadIs DEF Calm, Erase, Goto,
       Unread
<1>3. AtHome'
  BY <1>1, <1>2, NoTaskIs, FoldersAre DEF Calm, CrashInv, AtHome
<1>4. Journals'
  BY <1>1, <1>2, FoldersAre, UnnamedIs DEF Calm, CrashInv, Journals, InUpdate, InRepair,
       Open, None
<1>5. WayIsFree'
  BY <1>1, <1>2 DEF Calm, CrashInv, WayIsFree, Journals, InUpdate, InRepair, Open, None,
       Exists
<1>6. StagedInv'
  BY <1>1, <1>2, NothingIs, FilesAre DEF Calm, CrashInv, StagedInv, RepairInv, Updates,
       Journals, InUpdate, InRepair, Open, None, Exists, Identified, AllGood, Validates,
       Present, Good, Lacks
<1>7. RepairInv'
  BY <1>1, <1>2, FoldersAre, NothingIs, FilesAre DEF Calm, CrashInv, RepairInv, StagedInv,
       Journals, InUpdate, InRepair, Open, None, Exists, Identified, AllGood, Validates,
       Present, Good, Lacks
<1>8. UpdateInv'
  BY <1>1, <1>2, NothingIs, FilesAre DEF Calm, CrashInv, UpdateInv, KeepsPromise,
       StagedInv, PromiseInv, Free, Reverting, Updates, Journals, InUpdate, InRepair,
       Open, None, Exists, Identified, AllGood, Validates, Present, Good, Lacks
<1>9. PromiseInv'
  BY <1>1, <1>2, NothingIs, FilesAre, FoldersAre DEF Calm, CrashInv, PromiseInv, AtHome,
       KeepsPromise, UpdateInv, RepairInv, StagedInv, WayIsFree, Updates, Free, Reverting,
       Journals, InUpdate, InRepair, Open, None, Exists, Identified, AllGood, Validates,
       Present, Good, Lacks
<1>10. QED BY <1>3, <1>4, <1>5, <1>6, <1>7, <1>8, <1>9 DEF Calm, CrashInv

\* A leftover that is deleted is read by nobody.
LEMMA ClearPreviousCalm == ASSUME Calm, ClearPrevious PROVE CrashInv'
<1>1. pc = "clearPrevious"
  BY DEF ClearPrevious, DeleteOrFail, Delete
<1>2. /\ UNCHANGED <<updating, repairing, strict, promise, former>>
      /\ pc' = "previousAside"
      /\ task' = task
      /\ disk'[PreviousAside] = Nothing
      /\ disk'[Home] = disk[Home]
      /\ disk'[Installed("other")] = disk[Installed("other")]
      /\ disk'[Staging] = disk[Staging]
      /\ disk'[Discard] = disk[Discard]
      /\ disk'[Parking] = disk[Parking]
  BY <1>1, DeleteOrFailIs, FoldersAre, CalmIs, NoFault, UnreadIs DEF Calm, ClearPrevious,
       Goto, Unread
<1>3. AtHome'
  BY <1>1, <1>2, NoTaskIs, FoldersAre DEF Calm, CrashInv, AtHome
<1>4. Journals'
  BY <1>1, <1>2, FoldersAre, UnnamedIs DEF Calm, CrashInv, Journals, InUpdate, InRepair,
       Open, None
<1>5. WayIsFree'
  BY <1>1, <1>2 DEF Calm, CrashInv, WayIsFree, Journals, InUpdate, InRepair, Open, None,
       Exists
<1>6. StagedInv'
  BY <1>1, <1>2, NothingIs, FilesAre DEF Calm, CrashInv, StagedInv, RepairInv, Updates,
       Journals, InUpdate, InRepair, Open, None, Exists, Identified, AllGood, Validates,
       Present, Good, Lacks
<1>7. RepairInv'
  BY <1>1, <1>2, FoldersAre, NothingIs, FilesAre DEF Calm, CrashInv, RepairInv, StagedInv,
       Journals, InUpdate, InRepair, Open, None, Exists, Identified, AllGood, Validates,
       Present, Good, Lacks
<1>8. UpdateInv'
  BY <1>1, <1>2, NothingIs, FilesAre DEF Calm, CrashInv, UpdateInv, KeepsPromise,
       StagedInv, PromiseInv, Free, Reverting, Updates, Journals, InUpdate, InRepair,
       Open, None, Exists, Identified, AllGood, Validates, Present, Good, Lacks
<1>9. PromiseInv'
  BY <1>1, <1>2, NothingIs, FilesAre, FoldersAre DEF Calm, CrashInv, PromiseInv, AtHome,
       KeepsPromise, UpdateInv, RepairInv, StagedInv, WayIsFree, Updates, Free, Reverting,
       Journals, InUpdate, InRepair, Open, None, Exists, Identified, AllGood, Validates,
       Present, Good, Lacks
<1>10. QED BY <1>3, <1>4, <1>5, <1>6, <1>7, <1>8, <1>9 DEF Calm, CrashInv

\* A leftover that is deleted is read by nobody.
LEMMA ErasePreviousCalm == ASSUME Calm, ErasePrevious PROVE CrashInv'
<1>1. pc = "erasePrevious"
  BY DEF ErasePrevious, DeleteOrFail, Delete
<1>2. /\ UNCHANGED <<updating, repairing, strict, promise, former>>
      /\ pc' = "idle"
      /\ task' = NoTask
      /\ disk'[PreviousAside] = Nothing
      /\ disk'[Home] = disk[Home]
      /\ disk'[Installed("other")] = disk[Installed("other")]
      /\ disk'[Staging] = disk[Staging]
      /\ disk'[Discard] = disk[Discard]
      /\ disk'[Parking] = disk[Parking]
  BY <1>1, DeleteOrFailIs, FoldersAre, CalmIs, NoFault, UnreadIs DEF Calm, ErasePrevious,
       Goto, Unread
<1>3. AtHome'
  BY <1>1, <1>2, NoTaskIs, FoldersAre DEF Calm, CrashInv, AtHome
<1>4. Journals'
  BY <1>1, <1>2, FoldersAre, UnnamedIs DEF Calm, CrashInv, Journals, InUpdate, InRepair,
       Open, None
<1>5. WayIsFree'
  BY <1>1, <1>2 DEF Calm, CrashInv, WayIsFree, Journals, InUpdate, InRepair, Open, None,
       Exists
<1>6. StagedInv'
  BY <1>1, <1>2, NothingIs, FilesAre DEF Calm, CrashInv, StagedInv, RepairInv, Updates,
       Journals, InUpdate, InRepair, Open, None, Exists, Identified, AllGood, Validates,
       Present, Good, Lacks
<1>7. RepairInv'
  BY <1>1, <1>2, FoldersAre, NothingIs, FilesAre DEF Calm, CrashInv, RepairInv, StagedInv,
       Journals, InUpdate, InRepair, Open, None, Exists, Identified, AllGood, Validates,
       Present, Good, Lacks
<1>8. UpdateInv'
  BY <1>1, <1>2, NothingIs, FilesAre DEF Calm, CrashInv, UpdateInv, KeepsPromise,
       StagedInv, PromiseInv, Free, Reverting, Updates, Journals, InUpdate, InRepair,
       Open, None, Exists, Identified, AllGood, Validates, Present, Good, Lacks
<1>9. PromiseInv'
  BY <1>1, <1>2, NothingIs, FilesAre, FoldersAre DEF Calm, CrashInv, PromiseInv, AtHome,
       KeepsPromise, UpdateInv, RepairInv, StagedInv, WayIsFree, Updates, Free, Reverting,
       Journals, InUpdate, InRepair, Open, None, Exists, Identified, AllGood, Validates,
       Present, Good, Lacks
<1>10. QED BY <1>3, <1>4, <1>5, <1>6, <1>7, <1>8, <1>9 DEF Calm, CrashInv

\* An old discarded folder is deleted while the package is in its place.
LEMMA ClearDiscardCalm == ASSUME Calm, ClearDiscard PROVE CrashInv'
<1>1. pc = "clearDiscard"
  BY DEF ClearDiscard, DeleteOrFail, Delete
<1>2. /\ UNCHANGED <<updating, repairing, strict, promise, former>>
      /\ disk'[Home] = disk[Home]
      /\ disk'[Installed("other")] = disk[Installed("other")]
      /\ disk'[Staging] = disk[Staging]
      /\ disk'[Parking] = disk[Parking]
      /\ \/ pc' = "damagedOut" /\ task' = task /\ disk'[Discard] = Nothing
         \/ UNCHANGED <<pc, task>>
  BY <1>1, DeleteOrFailIs, FoldersAre, CalmIs, NoFault, UnreadIs DEF Calm, ClearDiscard,
       Goto, Unread
<1>3. AtHome'
  BY <1>1, <1>2, NoTaskIs, FoldersAre DEF Calm, CrashInv, AtHome
<1>4. Journals'
  BY <1>1, <1>2, FoldersAre, UnnamedIs DEF Calm, CrashInv, Journals, InUpdate, InRepair,
       Open, None
<1>5. WayIsFree'
  BY <1>1, <1>2 DEF Calm, CrashInv, WayIsFree, Journals, InUpdate, InRepair, Open, None,
       Exists
<1>6. StagedInv'
  BY <1>1, <1>2, NothingIs, FilesAre DEF Calm, CrashInv, StagedInv, RepairInv, Updates,
       Journals, InUpdate, InRepair, Open, None, Exists, Identified, AllGood, Validates,
       Present, Good, Lacks
<1>7. RepairInv'
  BY <1>1, <1>2, FoldersAre, NothingIs, FilesAre DEF Calm, CrashInv, RepairInv, StagedInv,
       Journals, InUpdate, InRepair, Open, None, Exists, Identified, AllGood, Validates,
       Present, Good, Lacks
<1>8. UpdateInv'
  BY <1>1, <1>2, NothingIs, FilesAre DEF Calm, CrashInv, UpdateInv, KeepsPromise,
       StagedInv, PromiseInv, Free, Reverting, Updates, Journals, InUpdate, InRepair,
       Open, None, Exists, Identified, AllGood, Validates, Present, Good, Lacks
<1>9. PromiseInv'
  BY <1>1, <1>2, NothingIs, FilesAre, FoldersAre DEF Calm, CrashInv, PromiseInv, AtHome,
       KeepsPromise, UpdateInv, RepairInv, StagedInv, WayIsFree, Updates, Free, Reverting,
       Journals, InUpdate, InRepair, Open, None, Exists, Identified, AllGood, Validates,
       Present, Good, Lacks
<1>10. QED BY <1>3, <1>4, <1>5, <1>6, <1>7, <1>8, <1>9 DEF Calm, CrashInv

\* The discarded package is deleted when the repaired one is in its place.
LEMMA DeleteDiscardCalm == ASSUME Calm, DeleteDiscard PROVE CrashInv'
<1>1. pc = "deleteDiscard"
  BY DEF DeleteDiscard, DeleteOrFail, Delete
<1>2. /\ UNCHANGED <<updating, repairing, strict, promise, former>>
      /\ disk'[Home] = disk[Home]
      /\ disk'[Installed("other")] = disk[Installed("other")]
      /\ disk'[Staging] = disk[Staging]
      /\ disk'[Parking] = disk[Parking]
      /\ \/ pc' = "idle" /\ task' = NoTask /\ disk'[Discard] = Nothing
         \/ UNCHANGED <<pc, task>>
  BY <1>1, DeleteOrFailIs, FoldersAre, CalmIs, NoFault, UnreadIs DEF Calm, DeleteDiscard,
       Goto, Unread
<1>3. AtHome'
  BY <1>1, <1>2, NoTaskIs, FoldersAre DEF Calm, CrashInv, AtHome
<1>4. Journals'
  BY <1>1, <1>2, FoldersAre, UnnamedIs DEF Calm, CrashInv, Journals, InUpdate, InRepair,
       Open, None
<1>5. WayIsFree'
  BY <1>1, <1>2 DEF Calm, CrashInv, WayIsFree, Journals, InUpdate, InRepair, Open, None,
       Exists
<1>6. StagedInv'
  BY <1>1, <1>2, NothingIs, FilesAre DEF Calm, CrashInv, StagedInv, RepairInv, Updates,
       Journals, InUpdate, InRepair, Open, None, Exists, Identified, AllGood, Validates,
       Present, Good, Lacks
<1>7. RepairInv'
  BY <1>1, <1>2, FoldersAre, NothingIs, FilesAre DEF Calm, CrashInv, RepairInv, StagedInv,
       Journals, InUpdate, InRepair, Open, None, Exists, Identified, AllGood, Validates,
       Present, Good, Lacks
<1>8. UpdateInv'
  BY <1>1, <1>2, NothingIs, FilesAre DEF Calm, CrashInv, UpdateInv, KeepsPromise,
       StagedInv, PromiseInv, Free, Reverting, Updates, Journals, InUpdate, InRepair,
       Open, None, Exists, Identified, AllGood, Validates, Present, Good, Lacks
<1>9. PromiseInv'
  BY <1>1, <1>2, NothingIs, FilesAre, FoldersAre DEF Calm, CrashInv, PromiseInv, AtHome,
       KeepsPromise, UpdateInv, RepairInv, StagedInv, WayIsFree, Updates, Free, Reverting,
       Journals, InUpdate, InRepair, Open, None, Exists, Identified, AllGood, Validates,
       Present, Good, Lacks
<1>10. QED BY <1>3, <1>4, <1>5, <1>6, <1>7, <1>8, <1>9 DEF Calm, CrashInv

\* The journals.

\* The journal is written while the package is in its place.
LEMMA WriteJournalCalm == ASSUME Calm, WriteJournal PROVE CrashInv'
<1>1. pc = "writeJournal" /\ CurrentRevision \in Revisions /\ CurrentRevision \notin {None, Unnamed} /\ Exists(Home)
  BY TaskPaths, CalmIs, UpdateAssumption DEF Calm, WriteJournal, UpdateJournal, Journal,
       Base, PlacesInv, Updates, CurrentRevision, None, Unnamed, Revisions
<1>2. /\ pc' = "moveOut" /\ task' = task /\ updating' = CurrentRevision /\ repairing' = repairing
      /\ UNCHANGED <<disk, strict, promise, former>>
  BY <1>1, CalmIs, NoFault DEF Calm, WriteJournal, UpdateJournal, Journal, Goto, historyVars
<1>3. AtHome'
  BY <1>1, <1>2, NoTaskIs, FoldersAre DEF Calm, CrashInv, AtHome
<1>4. Journals'
  BY <1>1, <1>2, FoldersAre, UnnamedIs DEF Calm, CrashInv, Journals, InUpdate, InRepair,
       Open, None
<1>5. WayIsFree'
  BY <1>1, <1>2 DEF Calm, CrashInv, WayIsFree, Journals, InUpdate, InRepair, Open, None,
       Exists
<1>6. StagedInv'
  BY <1>1, <1>2, NothingIs, FilesAre DEF Calm, CrashInv, StagedInv, RepairInv, Updates,
       Journals, InUpdate, InRepair, Open, None, Exists, Identified, AllGood, Validates,
       Present, Good, Lacks
<1>7. RepairInv'
  BY <1>1, <1>2, FoldersAre, NothingIs, FilesAre DEF Calm, CrashInv, RepairInv, StagedInv,
       Journals, InUpdate, InRepair, Open, None, Exists, Identified, AllGood, Validates,
       Present, Good, Lacks
<1>8. UpdateInv'
  BY <1>1, <1>2, NothingIs, FilesAre DEF Calm, CrashInv, UpdateInv, KeepsPromise,
       StagedInv, PromiseInv, Free, Reverting, Updates, Journals, InUpdate, InRepair,
       Open, None, Exists, Identified, AllGood, Validates, Present, Good, Lacks
<1>9. PromiseInv'
  BY <1>1, <1>2, NothingIs, FilesAre, FoldersAre DEF Calm, CrashInv, PromiseInv, AtHome,
       KeepsPromise, UpdateInv, RepairInv, StagedInv, WayIsFree, Updates, Free, Reverting,
       Journals, InUpdate, InRepair, Open, None, Exists, Identified, AllGood, Validates,
       Present, Good, Lacks
<1>10. QED BY <1>3, <1>4, <1>5, <1>6, <1>7, <1>8, <1>9 DEF Calm, CrashInv

\* The journal ends with a package in its place that keeps the promise.
LEMMA RemoveJournalCalm == ASSUME Calm, RemoveJournal PROVE CrashInv'
<1>1. pc = "endUpdate"
  BY TaskPaths, CalmIs, UpdateAssumption DEF Calm, RemoveJournal, UpdateJournal, Journal,
       Base, PlacesInv, Updates, CurrentRevision, None, Unnamed, Revisions
<1>2. /\ pc' = "idle" /\ task' = NoTask /\ updating' = None /\ repairing' = repairing
      /\ UNCHANGED <<disk, strict, promise, former>>
  BY <1>1, CalmIs, NoFault DEF Calm, RemoveJournal, UpdateJournal, Journal, Goto,
       historyVars
<1>3. AtHome'
  BY <1>1, <1>2, NoTaskIs, FoldersAre DEF Calm, CrashInv, AtHome
<1>4. Journals'
  BY <1>1, <1>2, FoldersAre, UnnamedIs DEF Calm, CrashInv, Journals, InUpdate, InRepair,
       Open, None
<1>5. WayIsFree'
  BY <1>1, <1>2 DEF Calm, CrashInv, WayIsFree, Journals, InUpdate, InRepair, Open, None,
       Exists
<1>6. StagedInv'
  BY <1>1, <1>2, NothingIs, FilesAre DEF Calm, CrashInv, StagedInv, RepairInv, Updates,
       Journals, InUpdate, InRepair, Open, None, Exists, Identified, AllGood, Validates,
       Present, Good, Lacks
<1>7. RepairInv'
  BY <1>1, <1>2, FoldersAre, NothingIs, FilesAre DEF Calm, CrashInv, RepairInv, StagedInv,
       Journals, InUpdate, InRepair, Open, None, Exists, Identified, AllGood, Validates,
       Present, Good, Lacks
<1>8. UpdateInv'
  BY <1>1, <1>2, NothingIs, FilesAre DEF Calm, CrashInv, UpdateInv, KeepsPromise,
       StagedInv, PromiseInv, Free, Reverting, Updates, Journals, InUpdate, InRepair,
       Open, None, Exists, Identified, AllGood, Validates, Present, Good, Lacks
<1>9. PromiseInv'
  BY <1>1, <1>2, NothingIs, FilesAre, FoldersAre DEF Calm, CrashInv, PromiseInv, AtHome,
       KeepsPromise, UpdateInv, RepairInv, StagedInv, WayIsFree, Updates, Free, Reverting,
       Journals, InUpdate, InRepair, Open, None, Exists, Identified, AllGood, Validates,
       Present, Good, Lacks
<1>10. QED BY <1>3, <1>4, <1>5, <1>6, <1>7, <1>8, <1>9 DEF Calm, CrashInv

\* The package and the staging folder have every file between them.
LEMMA StartRepairCalm == ASSUME Calm, StartRepair PROVE CrashInv'
<1>1. pc = "startRepair"
  BY TaskPaths, CalmIs, UpdateAssumption DEF Calm, StartRepair, RepairJournal, Journal,
       Base, PlacesInv, Updates, CurrentRevision, None, Unnamed, Revisions
<1>2. /\ pc' = "gather" /\ task' = task /\ updating' = updating /\ repairing' = Home
      /\ UNCHANGED <<disk, strict, promise, former>>
  BY <1>1, CalmIs, NoFault DEF Calm, StartRepair, RepairJournal, Journal, Goto, historyVars
<1>3. AtHome'
  BY <1>1, <1>2, NoTaskIs, FoldersAre DEF Calm, CrashInv, AtHome
<1>4. Journals'
  BY <1>1, <1>2, FoldersAre, UnnamedIs DEF Calm, CrashInv, Journals, InUpdate, InRepair,
       Open, None
<1>5. WayIsFree'
  BY <1>1, <1>2 DEF Calm, CrashInv, WayIsFree, Journals, InUpdate, InRepair, Open, None,
       Exists
<1>6. StagedInv'
  BY <1>1, <1>2, NothingIs, FilesAre DEF Calm, CrashInv, StagedInv, RepairInv, Updates,
       Journals, InUpdate, InRepair, Open, None, Exists, Identified, AllGood, Validates,
       Present, Good, Lacks
<1>7. RepairInv'
  BY <1>1, <1>2, FoldersAre, NothingIs, FilesAre DEF Calm, CrashInv, RepairInv, StagedInv,
       Journals, InUpdate, InRepair, Open, None, Exists, Identified, AllGood, Validates,
       Present, Good, Lacks
<1>8. UpdateInv'
  BY <1>1, <1>2, NothingIs, FilesAre DEF Calm, CrashInv, UpdateInv, KeepsPromise,
       StagedInv, PromiseInv, Free, Reverting, Updates, Journals, InUpdate, InRepair,
       Open, None, Exists, Identified, AllGood, Validates, Present, Good, Lacks
<1>9. PromiseInv'
  BY <1>1, <1>2, NothingIs, FilesAre, FoldersAre DEF Calm, CrashInv, PromiseInv, AtHome,
       KeepsPromise, UpdateInv, RepairInv, StagedInv, WayIsFree, Updates, Free, Reverting,
       Journals, InUpdate, InRepair, Open, None, Exists, Identified, AllGood, Validates,
       Present, Good, Lacks
<1>10. QED BY <1>3, <1>4, <1>5, <1>6, <1>7, <1>8, <1>9 DEF Calm, CrashInv

\* The repair ends with a package in its place that has all its files.
LEMMA EndRepairCalm == ASSUME Calm, EndRepair PROVE CrashInv'
<1>1. pc = "endRepair"
  BY TaskPaths, CalmIs, UpdateAssumption DEF Calm, EndRepair, RepairJournal, Journal,
       Base, PlacesInv, Updates, CurrentRevision, None, Unnamed, Revisions
<1>2. /\ pc' = "deleteDiscard" /\ task' = task /\ updating' = updating /\ repairing' = NoPath
      /\ UNCHANGED <<disk, strict, promise, former>>
  BY <1>1, CalmIs, NoFault DEF Calm, EndRepair, RepairJournal, Journal, Goto, historyVars
<1>3. AtHome'
  BY <1>1, <1>2, NoTaskIs, FoldersAre DEF Calm, CrashInv, AtHome
<1>4. Journals'
  BY <1>1, <1>2, FoldersAre, UnnamedIs DEF Calm, CrashInv, Journals, InUpdate, InRepair,
       Open, None
<1>5. WayIsFree'
  BY <1>1, <1>2 DEF Calm, CrashInv, WayIsFree, Journals, InUpdate, InRepair, Open, None,
       Exists
<1>6. StagedInv'
  BY <1>1, <1>2, NothingIs, FilesAre DEF Calm, CrashInv, StagedInv, RepairInv, Updates,
       Journals, InUpdate, InRepair, Open, None, Exists, Identified, AllGood, Validates,
       Present, Good, Lacks
<1>7. RepairInv'
  BY <1>1, <1>2, FoldersAre, NothingIs, FilesAre DEF Calm, CrashInv, RepairInv, StagedInv,
       Journals, InUpdate, InRepair, Open, None, Exists, Identified, AllGood, Validates,
       Present, Good, Lacks
<1>8. UpdateInv'
  BY <1>1, <1>2, NothingIs, FilesAre DEF Calm, CrashInv, UpdateInv, KeepsPromise,
       StagedInv, PromiseInv, Free, Reverting, Updates, Journals, InUpdate, InRepair,
       Open, None, Exists, Identified, AllGood, Validates, Present, Good, Lacks
<1>9. PromiseInv'
  BY <1>1, <1>2, NothingIs, FilesAre, FoldersAre DEF Calm, CrashInv, PromiseInv, AtHome,
       KeepsPromise, UpdateInv, RepairInv, StagedInv, WayIsFree, Updates, Free, Reverting,
       Journals, InUpdate, InRepair, Open, None, Exists, Identified, AllGood, Validates,
       Present, Good, Lacks
<1>10. QED BY <1>3, <1>4, <1>5, <1>6, <1>7, <1>8, <1>9 DEF Calm, CrashInv

\* The steps that no crash alone leads to.
LEMMA NeverCalm ==
  ASSUME Calm
  PROVE  ~MoveBack /\ ~AsideBack /\ ~DamagedBack /\ ~RollBack /\ ~RolledBack
BY DEF Calm, CrashInv, Journals, MoveBack, AsideBack, DamagedBack, RollBack, RolledBack,
     Rename,
       PutBack, RepairJournal, Journal

\* The two steps that go through the previous versions.
LEMMA DropPreviousCalm == ASSUME Calm, DropPrevious PROVE CrashInv'
<1>1. pc = "dropPrevious" /\ task.doomed \subseteq Revisions
  BY DEF Calm, Base, TypeOK, DropPrevious, Step, DeleteOrFail, Delete
<1>2. /\ UNCHANGED <<updating, repairing, strict, promise, former>>
      /\ disk'[Home] = disk[Home] /\ disk'[Installed("other")] = disk[Installed("other")]
      /\ disk'[Staging] = disk[Staging] /\ disk'[Discard] = disk[Discard] /\ disk'[Parking] = disk[Parking]
      /\ \/ pc' = "writeJournal" /\ task.op = "update" /\ task' = task
         \/ pc' = "idle" /\ task' = NoTask
         \/ pc' = "dropPrevious" /\ task' = task
  <2>1. CASE Step("dropPrevious", IF task.op = "update" THEN "writeJournal" ELSE "idle")
    BY <2>1 DEF Step, Goto, historyVars, boundVars
  <2>2. ASSUME NEW r \in task.doomed, DeleteOrFail("dropPrevious", Previous(r), "dropPrevious", "idle")
        PROVE  /\ UNCHANGED <<updating, repairing, strict, promise, former>>
               /\ disk'[Home] = disk[Home] /\ disk'[Installed("other")] = disk[Installed("other")]
               /\ disk'[Staging] = disk[Staging] /\ disk'[Discard] = disk[Discard]
               /\ disk'[Parking] = disk[Parking] /\ pc' = "dropPrevious" /\ task' = task
    BY <1>1, <2>2, DeleteOrFailIs, FoldersAre, CalmIs, NoFault DEF Calm, Goto
  <2>3. QED BY <2>1, <2>2 DEF DropPrevious
<1>3. AtHome'
  BY <1>1, <1>2, NoTaskIs, FoldersAre DEF Calm, CrashInv, AtHome
<1>4. Journals'
  BY <1>1, <1>2, FoldersAre, UnnamedIs DEF Calm, CrashInv, Journals, InUpdate, InRepair,
       Open, None
<1>5. WayIsFree'
  BY <1>1, <1>2 DEF Calm, CrashInv, WayIsFree, Journals, InUpdate, InRepair, Open, None,
       Exists
<1>6. StagedInv'
  BY <1>1, <1>2, NothingIs, FilesAre DEF Calm, CrashInv, StagedInv, RepairInv, Updates,
       Journals, InUpdate, InRepair, Open, None, Exists, Identified, AllGood, Validates,
       Present, Good, Lacks
<1>7. RepairInv'
  BY <1>1, <1>2, FoldersAre, NothingIs, FilesAre DEF Calm, CrashInv, RepairInv, StagedInv,
       Journals, InUpdate, InRepair, Open, None, Exists, Identified, AllGood, Validates,
       Present, Good, Lacks
<1>8. UpdateInv'
  BY <1>1, <1>2, NothingIs, FilesAre DEF Calm, CrashInv, UpdateInv, KeepsPromise,
       StagedInv, PromiseInv, Free, Reverting, Updates, Journals, InUpdate, InRepair,
       Open, None, Exists, Identified, AllGood, Validates, Present, Good, Lacks
<1>9. PromiseInv'
  BY <1>1, <1>2, NothingIs, FilesAre, FoldersAre DEF Calm, CrashInv, PromiseInv, AtHome,
       KeepsPromise, UpdateInv, RepairInv, StagedInv, WayIsFree, Updates, Free, Reverting,
       Journals, InUpdate, InRepair, Open, None, Exists, Identified, AllGood, Validates,
       Present, Good, Lacks
<1>10. QED BY <1>3, <1>4, <1>5, <1>6, <1>7, <1>8, <1>9 DEF Calm, CrashInv

\* Nothing was promised of a previous version that is removed.
LEMMA MovePreviousAsideCalm == ASSUME Calm, MovePreviousAside PROVE CrashInv'
<1>1. pc = "previousAside" /\ task.doomed \subseteq Revisions
  BY DEF Calm, Base, TypeOK, MovePreviousAside, Rename
<1>2. /\ UNCHANGED <<updating, repairing, strict, promise, former>>
      /\ pc' = "erasePrevious" /\ task' = task
      /\ disk'[Home] = disk[Home] /\ disk'[Installed("other")] = disk[Installed("other")]
      /\ disk'[Staging] = disk[Staging] /\ disk'[Discard] = disk[Discard] /\ disk'[Parking] = disk[Parking]
  <2>1. PICK r \in task.doomed : Rename("previousAside", Previous(r), PreviousAside, "erasePrevious", "idle")
    BY DEF MovePreviousAside
  <2>2. QED BY <1>1, <2>1, RenameIs, FoldersAre, CalmIs, NoFault DEF Calm, Goto, CrashInv,
       WayIsFree
<1>3. AtHome'
  BY <1>1, <1>2, NoTaskIs, FoldersAre DEF Calm, CrashInv, AtHome
<1>4. Journals'
  BY <1>1, <1>2, FoldersAre, UnnamedIs DEF Calm, CrashInv, Journals, InUpdate, InRepair,
       Open, None
<1>5. WayIsFree'
  BY <1>1, <1>2 DEF Calm, CrashInv, WayIsFree, Journals, InUpdate, InRepair, Open, None,
       Exists
<1>6. StagedInv'
  BY <1>1, <1>2, NothingIs, FilesAre DEF Calm, CrashInv, StagedInv, RepairInv, Updates,
       Journals, InUpdate, InRepair, Open, None, Exists, Identified, AllGood, Validates,
       Present, Good, Lacks
<1>7. RepairInv'
  BY <1>1, <1>2, FoldersAre, NothingIs, FilesAre DEF Calm, CrashInv, RepairInv, StagedInv,
       Journals, InUpdate, InRepair, Open, None, Exists, Identified, AllGood, Validates,
       Present, Good, Lacks
<1>8. UpdateInv'
  BY <1>1, <1>2, NothingIs, FilesAre DEF Calm, CrashInv, UpdateInv, KeepsPromise,
       StagedInv, PromiseInv, Free, Reverting, Updates, Journals, InUpdate, InRepair,
       Open, None, Exists, Identified, AllGood, Validates, Present, Good, Lacks
<1>9. PromiseInv'
  BY <1>1, <1>2, NothingIs, FilesAre, FoldersAre DEF Calm, CrashInv, PromiseInv, AtHome,
       KeepsPromise, UpdateInv, RepairInv, StagedInv, WayIsFree, Updates, Free, Reverting,
       Journals, InUpdate, InRepair, Open, None, Exists, Identified, AllGood, Validates,
       Present, Good, Lacks
<1>10. QED BY <1>3, <1>4, <1>5, <1>6, <1>7, <1>8, <1>9 DEF Calm, CrashInv

\* A removal promises nothing.
LEMMA MoveAsideCalm == ASSUME Calm, MoveAside PROVE CrashInv'
<1>1. pc = "moveAside"
  BY DEF MoveAside
<1>2. /\ UNCHANGED <<updating, repairing, strict, promise, former>>
      /\ pc' = "erase" /\ task' = task
      /\ disk'[Home] = Nothing /\ disk'[Installed("other")] = disk[Installed("other")]
      /\ disk'[Staging] = disk[Staging] /\ disk'[Discard] = disk[Discard] /\ disk'[Parking] = disk[Parking]
  <2>1. disk' = [disk EXCEPT ![Aside("id")] = disk[Home], ![Home] = Nothing]
    BY CalmIs, NoFault DEF Calm, MoveAside
  <2>2. /\ disk'[Home] = Nothing /\ disk'[Aside("id")] = disk[Home]
        /\ \A p \in Paths : p \notin {Home, Aside("id")} => disk'[p] = disk[p]
    BY <2>1, MovedIs, FoldersAre, CalmIs DEF Calm
  <2>3. pc' = "erase" /\ task' = task /\ UNCHANGED <<updating, repairing, strict, promise, former>>
    BY CalmIs, NoFault DEF Calm, MoveAside, FileStep, Goto
  <2>4. QED BY <2>2, <2>3, FoldersAre
<1>3. AtHome'
  BY <1>1, <1>2, NoTaskIs, FoldersAre DEF Calm, CrashInv, AtHome
<1>4. Journals'
  BY <1>1, <1>2, FoldersAre, UnnamedIs DEF Calm, CrashInv, Journals, InUpdate, InRepair,
       Open, None
<1>5. WayIsFree'
  BY <1>1, <1>2 DEF Calm, CrashInv, WayIsFree, Journals, InUpdate, InRepair, Open, None,
       Exists
<1>6. StagedInv'
  BY <1>1, <1>2, NothingIs, FilesAre DEF Calm, CrashInv, StagedInv, RepairInv, Updates,
       Journals, InUpdate, InRepair, Open, None, Exists, Identified, AllGood, Validates,
       Present, Good, Lacks
<1>7. RepairInv'
  BY <1>1, <1>2, FoldersAre, NothingIs, FilesAre DEF Calm, CrashInv, RepairInv, StagedInv,
       Journals, InUpdate, InRepair, Open, None, Exists, Identified, AllGood, Validates,
       Present, Good, Lacks
<1>8. UpdateInv'
  BY <1>1, <1>2, NothingIs, FilesAre DEF Calm, CrashInv, UpdateInv, KeepsPromise,
       StagedInv, PromiseInv, Free, Reverting, Updates, Journals, InUpdate, InRepair,
       Open, None, Exists, Identified, AllGood, Validates, Present, Good, Lacks
<1>9. PromiseInv'
  BY <1>1, <1>2, NothingIs, FilesAre, FoldersAre DEF Calm, CrashInv, PromiseInv, AtHome,
       KeepsPromise, UpdateInv, RepairInv, StagedInv, WayIsFree, Updates, Free, Reverting,
       Journals, InUpdate, InRepair, Open, None, Exists, Identified, AllGood, Validates,
       Present, Good, Lacks
<1>10. QED BY <1>3, <1>4, <1>5, <1>6, <1>7, <1>8, <1>9 DEF Calm, CrashInv

\* The parked package is given up only for one that validates.
LEMMA CheckRestoredCalm == ASSUME Calm, CheckRestored PROVE CrashInv'
<1>1. pc = "check"
  BY DEF CheckRestored, Step
<1>2. /\ UNCHANGED <<disk, updating, repairing, strict, promise, former, task>>
      /\ \/ Validates(Home) /\ pc' = "keep"
         \/ ~Validates(Home) /\ pc' = "unrestore"
  BY DEF CheckRestored, Step, Goto, historyVars
<1>3. AtHome'
  BY <1>1, <1>2, NoTaskIs, FoldersAre DEF Calm, CrashInv, AtHome
<1>4. Journals'
  BY <1>1, <1>2, FoldersAre, UnnamedIs DEF Calm, CrashInv, Journals, InUpdate, InRepair,
       Open, None
<1>5. WayIsFree'
  BY <1>1, <1>2 DEF Calm, CrashInv, WayIsFree, Journals, InUpdate, InRepair, Open, None,
       Exists
<1>6. StagedInv'
  BY <1>1, <1>2, NothingIs, FilesAre DEF Calm, CrashInv, StagedInv, RepairInv, Updates,
       Journals, InUpdate, InRepair, Open, None, Exists, Identified, AllGood, Validates,
       Present, Good, Lacks
<1>7. RepairInv'
  BY <1>1, <1>2, FoldersAre, NothingIs, FilesAre DEF Calm, CrashInv, RepairInv, StagedInv,
       Journals, InUpdate, InRepair, Open, None, Exists, Identified, AllGood, Validates,
       Present, Good, Lacks
<1>8. UpdateInv'
  BY <1>1, <1>2, NothingIs, FilesAre DEF Calm, CrashInv, UpdateInv, KeepsPromise,
       StagedInv, PromiseInv, Free, Reverting, Updates, Journals, InUpdate, InRepair,
       Open, None, Exists, Identified, AllGood, Validates, Present, Good, Lacks
<1>9. PromiseInv'
  BY <1>1, <1>2, NothingIs, FilesAre, FoldersAre DEF Calm, CrashInv, PromiseInv, AtHome,
       KeepsPromise, UpdateInv, RepairInv, StagedInv, WayIsFree, Updates, Free, Reverting,
       Journals, InUpdate, InRepair, Open, None, Exists, Identified, AllGood, Validates,
       Present, Good, Lacks
<1>10. QED BY <1>3, <1>4, <1>5, <1>6, <1>7, <1>8, <1>9 DEF Calm, CrashInv

\* The start of an operation.
LEMMA BeginInstallCalm == ASSUME Calm, BeginInstall PROVE CrashInv'
<1>1. pc = "idle" /\ ~Exists(Home)
  BY DEF BeginInstall, Begin
<1>2. /\ UNCHANGED <<updating, repairing, strict>> /\ promise' = {}
      /\ pc' = "install" /\ task' = NoTask
      /\ disk'[Home] = disk[Home] /\ disk'[Installed("other")] = disk[Installed("other")]
      /\ disk'[Staging] = Whole(catalogue)
      /\ disk'[Discard] = disk[Discard] /\ disk'[Parking] = disk[Parking]
  <2>1. catalogue \in Revisions
    BY DEF Calm, Base, TypeOK
  <2>2. disk' = [disk EXCEPT ![Staging] = Whole(catalogue)] /\ Whole(catalogue) \in Folder
    BY <2>1, StagedIs DEF BeginInstall, Begin, Stage
  <2>3. QED BY <2>2, ReplacedIs, FoldersAre, CalmIs DEF Calm, BeginInstall, Begin
<1>3. AllGood(Staging)' /\ Identified(Staging)'
  BY <1>2, FilesAre DEF AllGood, Identified, Whole
<1>4. AtHome'
  BY <1>1, <1>2, <1>3, NoTaskIs, FoldersAre DEF Calm, CrashInv, AtHome
<1>5. Journals'
  BY <1>1, <1>2, <1>3, FoldersAre, UnnamedIs DEF Calm, CrashInv, Journals, InUpdate,
       InRepair, Open, None
<1>6. WayIsFree'
  BY <1>1, <1>2, <1>3 DEF Calm, CrashInv, WayIsFree, Journals, InUpdate, InRepair, Open,
       None, Exists
<1>7. StagedInv'
  BY <1>1, <1>2, <1>3, NothingIs, FilesAre DEF Calm, CrashInv, StagedInv, RepairInv,
       Updates, Journals, InUpdate, InRepair, Open, None, Exists, Identified, AllGood,
       Validates, Present, Good, Lacks
<1>8. RepairInv'
  BY <1>1, <1>2, <1>3, FoldersAre, NothingIs, FilesAre DEF Calm, CrashInv, RepairInv,
       StagedInv, Journals, InUpdate, InRepair, Open, None, Exists, Identified, AllGood,
       Validates, Present, Good, Lacks
<1>9. UpdateInv'
  BY <1>1, <1>2, <1>3, NothingIs, FilesAre DEF Calm, CrashInv, UpdateInv, KeepsPromise,
       StagedInv, PromiseInv, Free, Reverting, Updates, Journals, InUpdate, InRepair,
       Open, None, Exists, Identified, AllGood, Validates, Present, Good, Lacks
<1>10. PromiseInv'
  BY <1>1, <1>2, <1>3, NothingIs, FilesAre, FoldersAre DEF Calm, CrashInv, PromiseInv,
       AtHome, KeepsPromise, UpdateInv, RepairInv, StagedInv, WayIsFree, Updates, Free,
       Reverting, Journals, InUpdate, InRepair, Open, None, Exists, Identified, AllGood,
       Validates, Present, Good, Lacks
<1>11. QED BY <1>4, <1>5, <1>6, <1>7, <1>8, <1>9, <1>10 DEF Calm, CrashInv

\* What an operation must not make untrue is true when it begins.
LEMMA PromiseIs ==
  /\ "usable" \in Promise <=> Usable
  /\ "whole" \in Promise => ~Unfinished /\ AllWhole(Candidates \union {Previous(r) : r \in Revisions})
BY DEF Promise

\* A package that works is kept, and only one that does not is moved aside.
LEMMA BeginUpdateCalm == ASSUME Calm, BeginUpdate PROVE CrashInv'
<1>1. pc = "idle"
  BY DEF BeginUpdate, Begin
<1>2. /\ UNCHANGED <<updating, repairing, strict>> /\ promise' = Promise
      /\ \/ pc' = "clearAside" /\ ~Usable
         \/ pc' = "dropPrevious" /\ (Usable => Validates(Home))
      /\ task'.from = Home
      /\ disk'[Home] = disk[Home] /\ disk'[Installed("other")] = disk[Installed("other")]
      /\ disk'[Staging] = Whole(catalogue)
      /\ disk'[Discard] = disk[Discard] /\ disk'[Parking] = disk[Parking]
  <2>1. catalogue \in Revisions
    BY DEF Calm, Base, TypeOK
  <2>2. PICK p \in Maintained :
          Begin(IF p \in Damaged THEN "clearAside" ELSE "dropPrevious",
                [NoTask EXCEPT !.op = "update", !.from = p, !.doomed = PreviousVersions],
                Stage(catalogue), Promise)
    BY DEF BeginUpdate
  <2>3. disk' = [disk EXCEPT ![Staging] = Whole(catalogue)] /\ Whole(catalogue) \in Folder
    BY <2>1, <2>2, StagedIs DEF Begin, Stage
  <2>4. p = Home
    BY <2>2, CalmIs DEF Calm
  <2>5. task'.from = Home
    BY <2>2, <2>4, NoTaskIs DEF Begin, Tasks
  <2>6. p \in Damaged => ~Usable
    BY DEF Damaged, Usable
  <2>7. Usable => Validates(Home)
    BY CalmIs DEF Calm, Usable, Discovered
  <2>8. disk'[Staging] = Whole(catalogue) /\ \A q \in Paths : q # Staging => disk'[q] = disk[q]
    BY <2>3, ReplacedIs, FoldersAre, CalmIs DEF Calm
  <2>9. /\ UNCHANGED <<updating, repairing, strict>> /\ promise' = Promise
        /\ pc' = IF p \in Damaged THEN "clearAside" ELSE "dropPrevious"
    BY <2>2 DEF Begin
  <2>10. QED BY <2>5, <2>6, <2>7, <2>8, <2>9, FoldersAre
<1>3. AllGood(Staging)' /\ Identified(Staging)'
  BY <1>2, FilesAre DEF AllGood, Identified, Whole
<1>4. /\ "usable" \in promise' => Validates(Home) /\ pc' # "clearAside"
      /\ "whole" \in promise' => ~Exists(Parking) /\ (Exists(Home) => Lacks(Home) = {})
  BY <1>2, PromiseIs, PathsAre DEF AllWhole, Unfinished
<1>5. AtHome'
  BY <1>1, <1>2, <1>3, <1>4, NoTaskIs, FoldersAre DEF Calm, CrashInv, AtHome
<1>6. Journals'
  BY <1>1, <1>2, <1>3, <1>4, FoldersAre, UnnamedIs DEF Calm, CrashInv, Journals, InUpdate,
       InRepair, Open, None
<1>7. WayIsFree'
  BY <1>1, <1>2, <1>3, <1>4 DEF Calm, CrashInv, WayIsFree, Journals, InUpdate, InRepair,
       Open, None, Exists
<1>8. StagedInv'
  BY <1>1, <1>2, <1>3, <1>4, NothingIs, FilesAre DEF Calm, CrashInv, StagedInv, RepairInv,
       Updates, Journals, InUpdate, InRepair, Open, None, Exists, Identified, AllGood,
       Validates, Present, Good, Lacks
<1>9. RepairInv'
  BY <1>1, <1>2, <1>3, <1>4, FoldersAre, NothingIs, FilesAre DEF Calm, CrashInv,
       RepairInv, StagedInv, Journals, InUpdate, InRepair, Open, None, Exists, Identified,
       AllGood, Validates, Present, Good, Lacks
<1>10. UpdateInv'
  BY <1>1, <1>2, <1>3, <1>4, NothingIs, FilesAre DEF Calm, CrashInv, UpdateInv,
       KeepsPromise, StagedInv, PromiseInv, Free, Reverting, Updates, Journals, InUpdate,
       InRepair, Open, None, Exists, Identified, AllGood, Validates, Present, Good, Lacks
<1>11. PromiseInv'
  BY <1>1, <1>2, <1>3, <1>4, NothingIs, FilesAre, FoldersAre DEF Calm, CrashInv,
       PromiseInv, AtHome, KeepsPromise, UpdateInv, RepairInv, StagedInv, WayIsFree,
       Updates, Free, Reverting, Journals, InUpdate, InRepair, Open, None, Exists,
       Identified, AllGood, Validates, Present, Good, Lacks
<1>12. QED BY <1>5, <1>6, <1>7, <1>8, <1>9, <1>10, <1>11 DEF Calm, CrashInv

\* Nothing is parked, and the version to restore lacks no file.
LEMMA BeginRevertCalm == ASSUME Calm, BeginRevert PROVE CrashInv'
<1>1. pc = "idle" /\ ~Exists(Parking)
  BY DEF BeginRevert, Begin
<1>2. /\ UNCHANGED <<disk, updating, repairing, strict>> /\ promise' = Promise
      /\ pc' = "park" /\ task'.from = Home /\ task'.kept \in PreviousVersions
  <2>1. PICK p \in Discovered, r \in PreviousVersions :
          Begin("park", [NoTask EXCEPT !.from = p, !.kept = r], disk, Promise)
    BY DEF BeginRevert
  <2>2. p = Home
    BY <2>1, CalmIs DEF Calm
  <2>3. task'.from = Home /\ task'.kept = r
    BY <2>1, <2>2, NoTaskIs DEF Begin, Tasks
  <2>4. QED BY <2>1, <2>3 DEF Begin
<1>3. /\ "usable" \in promise' => Validates(Home)
      /\ "whole" \in promise' => (Exists(Home) => Lacks(Home) = {}) /\ Lacks(Previous(task'.kept)) = {}
  <2>1. Usable => Validates(Home)
    BY CalmIs DEF Calm, Usable, Discovered
  <2>2. Exists(Previous(task'.kept)) /\ task'.kept \in Revisions
    BY <1>2, IdentifiedExists DEF PreviousVersions
  <2>3. QED BY <1>2, <2>1, <2>2, PromiseIs, PathsAre DEF AllWhole
<1> HIDE DEF Promise
<1>4. AtHome'
  BY <1>1, <1>2, <1>3, NoTaskIs, FoldersAre DEF Calm, CrashInv, AtHome
<1>5. Journals'
  BY <1>1, <1>2, <1>3, FoldersAre, UnnamedIs DEF Calm, CrashInv, Journals, InUpdate,
       InRepair, Open, None
<1>6. WayIsFree'
  BY <1>1, <1>2, <1>3 DEF Calm, CrashInv, WayIsFree, Journals, InUpdate, InRepair, Open,
       None, Exists
<1>7. StagedInv'
  BY <1>1, <1>2, <1>3, NothingIs, FilesAre DEF Calm, CrashInv, StagedInv, RepairInv,
       Updates, Journals, InUpdate, InRepair, Open, None, Exists, Identified, AllGood,
       Validates, Present, Good, Lacks
<1>8. RepairInv'
  BY <1>1, <1>2, <1>3, FoldersAre, NothingIs, FilesAre DEF Calm, CrashInv, RepairInv,
       StagedInv, Journals, InUpdate, InRepair, Open, None, Exists, Identified, AllGood,
       Validates, Present, Good, Lacks
<1>9. UpdateInv'
  BY <1>1, <1>2, <1>3, NothingIs, FilesAre DEF Calm, CrashInv, UpdateInv, KeepsPromise,
       StagedInv, PromiseInv, Free, Reverting, Updates, Journals, InUpdate, InRepair,
       Open, None, Exists, Identified, AllGood, Validates, Present, Good, Lacks
<1>10. PromiseInv'
  BY <1>1, <1>2, <1>3, NothingIs, FilesAre, FoldersAre DEF Calm, CrashInv, PromiseInv,
       AtHome, KeepsPromise, UpdateInv, RepairInv, StagedInv, WayIsFree, Updates, Free,
       Reverting, Journals, InUpdate, InRepair, Open, None, Exists, Identified, AllGood,
       Validates, Present, Good, Lacks
<1>11. QED BY <1>4, <1>5, <1>6, <1>7, <1>8, <1>9, <1>10 DEF Calm, CrashInv

\* The installed package is not touched.
LEMMA BeginDeletePreviousCalm == ASSUME Calm, BeginDeletePrevious PROVE CrashInv'
<1>1. pc = "idle"
  BY DEF BeginDeletePrevious, Begin
<1>2. /\ UNCHANGED <<disk, updating, repairing, strict>> /\ promise' = Promise
      /\ pc' = "dropPrevious" /\ task'.from = Home /\ task'.op = "delete"
  BY NoTaskIs DEF BeginDeletePrevious, Begin, Tasks
<1>3. /\ "usable" \in promise' => Validates(Home)
      /\ "whole" \in promise' => ~Exists(Parking) /\ (Exists(Home) => Lacks(Home) = {})
  <2>1. Usable => Validates(Home)
    BY CalmIs DEF Calm, Usable, Discovered
  <2>2. QED BY <1>2, <2>1, PromiseIs, PathsAre DEF AllWhole, Unfinished
<1>4. AtHome'
  BY <1>1, <1>2, <1>3, NoTaskIs, FoldersAre DEF Calm, CrashInv, AtHome
<1>5. Journals'
  BY <1>1, <1>2, <1>3, FoldersAre, UnnamedIs DEF Calm, CrashInv, Journals, InUpdate,
       InRepair, Open, None
<1>6. WayIsFree'
  BY <1>1, <1>2, <1>3 DEF Calm, CrashInv, WayIsFree, Journals, InUpdate, InRepair, Open,
       None, Exists
<1>7. StagedInv'
  BY <1>1, <1>2, <1>3, NothingIs, FilesAre DEF Calm, CrashInv, StagedInv, RepairInv,
       Updates, Journals, InUpdate, InRepair, Open, None, Exists, Identified, AllGood,
       Validates, Present, Good, Lacks
<1>8. RepairInv'
  BY <1>1, <1>2, <1>3, FoldersAre, NothingIs, FilesAre DEF Calm, CrashInv, RepairInv,
       StagedInv, Journals, InUpdate, InRepair, Open, None, Exists, Identified, AllGood,
       Validates, Present, Good, Lacks
<1>9. UpdateInv'
  BY <1>1, <1>2, <1>3, NothingIs, FilesAre DEF Calm, CrashInv, UpdateInv, KeepsPromise,
       StagedInv, PromiseInv, Free, Reverting, Updates, Journals, InUpdate, InRepair,
       Open, None, Exists, Identified, AllGood, Validates, Present, Good, Lacks
<1>10. PromiseInv'
  BY <1>1, <1>2, <1>3, NothingIs, FilesAre, FoldersAre DEF Calm, CrashInv, PromiseInv,
       AtHome, KeepsPromise, UpdateInv, RepairInv, StagedInv, WayIsFree, Updates, Free,
       Reverting, Journals, InUpdate, InRepair, Open, None, Exists, Identified, AllGood,
       Validates, Present, Good, Lacks
<1>11. QED BY <1>4, <1>5, <1>6, <1>7, <1>8, <1>9, <1>10 DEF Calm, CrashInv

\* A removal promises nothing.
LEMMA BeginRemoveCalm == ASSUME Calm, BeginRemove PROVE CrashInv'
<1>1. pc = "idle"
  BY DEF BeginRemove, Begin
<1>2. /\ UNCHANGED <<disk, updating, repairing, strict>> /\ promise' = {}
      /\ pc' = "clear" /\ task'.from = Home
  <2>1. PICK p \in Maintained, S \in {{}} \union {{r} : r \in PreviousVersions} :
          Begin("clear", [NoTask EXCEPT !.from = p, !.doomed = S], disk, {})
    BY DEF BeginRemove
  <2>2. p = Home
    BY <2>1, CalmIs DEF Calm
  <2>3. QED BY <2>1, <2>2, NoTaskIs DEF Begin, Tasks
<1>3. AtHome'
  BY <1>1, <1>2, NoTaskIs, FoldersAre DEF Calm, CrashInv, AtHome
<1>4. Journals'
  BY <1>1, <1>2, FoldersAre, UnnamedIs DEF Calm, CrashInv, Journals, InUpdate, InRepair,
       Open, None
<1>5. WayIsFree'
  BY <1>1, <1>2 DEF Calm, CrashInv, WayIsFree, Journals, InUpdate, InRepair, Open, None,
       Exists
<1>6. StagedInv'
  BY <1>1, <1>2, NothingIs, FilesAre DEF Calm, CrashInv, StagedInv, RepairInv, Updates,
       Journals, InUpdate, InRepair, Open, None, Exists, Identified, AllGood, Validates,
       Present, Good, Lacks
<1>7. RepairInv'
  BY <1>1, <1>2, FoldersAre, NothingIs, FilesAre DEF Calm, CrashInv, RepairInv, StagedInv,
       Journals, InUpdate, InRepair, Open, None, Exists, Identified, AllGood, Validates,
       Present, Good, Lacks
<1>8. UpdateInv'
  BY <1>1, <1>2, NothingIs, FilesAre DEF Calm, CrashInv, UpdateInv, KeepsPromise,
       StagedInv, PromiseInv, Free, Reverting, Updates, Journals, InUpdate, InRepair,
       Open, None, Exists, Identified, AllGood, Validates, Present, Good, Lacks
<1>9. PromiseInv'
  BY <1>1, <1>2, NothingIs, FilesAre, FoldersAre DEF Calm, CrashInv, PromiseInv, AtHome,
       KeepsPromise, UpdateInv, RepairInv, StagedInv, WayIsFree, Updates, Free, Reverting,
       Journals, InUpdate, InRepair, Open, None, Exists, Identified, AllGood, Validates,
       Present, Good, Lacks
<1>10. QED BY <1>3, <1>4, <1>5, <1>6, <1>7, <1>8, <1>9 DEF Calm, CrashInv

\* What the package lacks is staged.
LEMMA BeginRepairCalm == ASSUME Calm, BeginRepair PROVE CrashInv'
<1> DEFINE broken == Assets \ Good(Home)
<1>1. pc = "idle" /\ Home \in Maintained /\ Identified(Home)
  BY CalmIs, MaintainedIs DEF Calm, BeginRepair, Begin
<1>2. /\ UNCHANGED <<updating, repairing, strict>> /\ promise' = Promise
      /\ pc' = "startRepair" /\ task'.from = Home /\ task'.broken = broken
      /\ disk'[Home] = disk[Home] /\ disk'[Installed("other")] = disk[Installed("other")]
      /\ disk'[Staging] = Staged(catalogue, broken)
      /\ disk'[Discard] = disk[Discard] /\ disk'[Parking] = disk[Parking]
  <2>1. catalogue \in Revisions
    BY DEF Calm, Base, TypeOK
  <2>2. Begin("startRepair", [NoTask EXCEPT !.from = Home, !.broken = broken],
              [disk EXCEPT ![Staging] = Staged(catalogue, broken)], Promise)
    BY CalmIs DEF Calm, BeginRepair
  <2>3. disk' = [disk EXCEPT ![Staging] = Staged(catalogue, broken)] /\ Staged(catalogue, broken) \in Folder
    BY <2>1, <2>2, StagedIs, FilesAre DEF Begin
  <2>4. task'.from = Home /\ task'.broken = broken
    BY <2>2, NoTaskIs DEF Begin
  <2>5. disk'[Staging] = Staged(catalogue, broken) /\ \A q \in Paths : q # Staging => disk'[q] = disk[q]
    BY <2>3, ReplacedIs, FoldersAre, CalmIs DEF Calm
  <2>6. /\ UNCHANGED <<updating, repairing, strict>> /\ promise' = Promise /\ pc' = "startRepair"
    BY <2>2 DEF Begin
  <2>7. QED BY <2>4, <2>5, <2>6, FoldersAre
<1>3. task'.broken \subseteq Good(Staging)' /\ Assets \subseteq Good(Home)' \cup task'.broken
  BY <1>2, FilesAre DEF Good, Staged
<1>4. /\ "usable" \in promise' => Validates(Home)
      /\ "whole" \in promise' => ~Exists(Parking) /\ (Exists(Home) => Lacks(Home) = {})
  <2>1. Usable => Validates(Home)
    BY CalmIs DEF Calm, Usable, Discovered
  <2>2. QED BY <1>2, <2>1, PromiseIs, PathsAre DEF AllWhole, Unfinished
<1>5. Exists(Home)
  BY <1>1, IdentifiedExists
<1> HIDE DEF broken
<1>6. AtHome'
  BY <1>1, <1>2, <1>3, <1>4, <1>5, NoTaskIs, FoldersAre DEF Calm, CrashInv, AtHome
<1>7. Journals'
  BY <1>1, <1>2, <1>3, <1>4, <1>5, FoldersAre, UnnamedIs DEF Calm, CrashInv, Journals,
       InUpdate, InRepair, Open, None
<1>8. WayIsFree'
  BY <1>1, <1>2, <1>3, <1>4, <1>5 DEF Calm, CrashInv, WayIsFree, Journals, InUpdate,
       InRepair, Open, None, Exists
<1>9. StagedInv'
  BY <1>1, <1>2, <1>3, <1>4, <1>5, NothingIs, FilesAre DEF Calm, CrashInv, StagedInv,
       RepairInv, Updates, Journals, InUpdate, InRepair, Open, None, Exists, Identified,
       AllGood, Validates, Present, Good, Lacks
<1>10. RepairInv'
  BY <1>1, <1>2, <1>3, <1>4, <1>5, FoldersAre, NothingIs, FilesAre DEF Calm, CrashInv,
       RepairInv, StagedInv, Journals, InUpdate, InRepair, Open, None, Exists, Identified,
       AllGood, Validates, Present, Good, Lacks
<1>11. UpdateInv'
  BY <1>1, <1>2, <1>3, <1>4, <1>5, NothingIs, FilesAre DEF Calm, CrashInv, UpdateInv,
       KeepsPromise, StagedInv, PromiseInv, Free, Reverting, Updates, Journals, InUpdate,
       InRepair, Open, None, Exists, Identified, AllGood, Validates, Present, Good, Lacks
<1>12. PromiseInv'
  BY <1>1, <1>2, <1>3, <1>4, <1>5, NothingIs, FilesAre, FoldersAre DEF Calm, CrashInv,
       PromiseInv, AtHome, KeepsPromise, UpdateInv, RepairInv, StagedInv, WayIsFree,
       Updates, Free, Reverting, Journals, InUpdate, InRepair, Open, None, Exists,
       Identified, AllGood, Validates, Present, Good, Lacks
<1>13. QED BY <1>6, <1>7, <1>8, <1>9, <1>10, <1>11, <1>12 DEF Calm, CrashInv

\* The steps of a repair, and what else happens.
LEMMA DownloadFailsCalm == ASSUME Calm, DownloadFails PROVE CrashInv'
<1>1. pc = "idle"
  BY DEF DownloadFails
<1>2. /\ UNCHANGED <<updating, repairing, strict, promise, former, pc, task>>
      /\ disk'[Home] = disk[Home] /\ disk'[Installed("other")] = disk[Installed("other")]
      /\ disk'[Discard] = disk[Discard] /\ disk'[Parking] = disk[Parking]
  <2>1. PICK S \in SUBSET Assets : disk' = [disk EXCEPT ![Staging] = Staged(catalogue, S)]
    BY DEF DownloadFails
  <2>2. Staged(catalogue, S) \in Folder
    BY StagedIs, FilesAre DEF Calm, Base, TypeOK
  <2>3. \A q \in Paths : q # Staging => disk'[q] = disk[q]
    BY <2>1, <2>2, ReplacedIs, FoldersAre, CalmIs DEF Calm
  <2>4. QED BY <2>3, FoldersAre DEF DownloadFails, historyVars
<1>3. AtHome'
  BY <1>1, <1>2, NoTaskIs, FoldersAre DEF Calm, CrashInv, AtHome
<1>4. Journals'
  BY <1>1, <1>2, FoldersAre, UnnamedIs DEF Calm, CrashInv, Journals, InUpdate, InRepair,
       Open, None
<1>5. WayIsFree'
  BY <1>1, <1>2 DEF Calm, CrashInv, WayIsFree, Journals, InUpdate, InRepair, Open, None,
       Exists
<1>6. StagedInv'
  BY <1>1, <1>2, NothingIs, FilesAre DEF Calm, CrashInv, StagedInv, RepairInv, Updates,
       Journals, InUpdate, InRepair, Open, None, Exists, Identified, AllGood, Validates,
       Present, Good, Lacks
<1>7. RepairInv'
  BY <1>1, <1>2, FoldersAre, NothingIs, FilesAre DEF Calm, CrashInv, RepairInv, StagedInv,
       Journals, InUpdate, InRepair, Open, None, Exists, Identified, AllGood, Validates,
       Present, Good, Lacks
<1>8. UpdateInv'
  BY <1>1, <1>2, NothingIs, FilesAre DEF Calm, CrashInv, UpdateInv, KeepsPromise,
       StagedInv, PromiseInv, Free, Reverting, Updates, Journals, InUpdate, InRepair,
       Open, None, Exists, Identified, AllGood, Validates, Present, Good, Lacks
<1>9. PromiseInv'
  BY <1>1, <1>2, NothingIs, FilesAre, FoldersAre DEF Calm, CrashInv, PromiseInv, AtHome,
       KeepsPromise, UpdateInv, RepairInv, StagedInv, WayIsFree, Updates, Free, Reverting,
       Journals, InUpdate, InRepair, Open, None, Exists, Identified, AllGood, Validates,
       Present, Good, Lacks
<1>10. QED BY <1>3, <1>4, <1>5, <1>6, <1>7, <1>8, <1>9 DEF Calm, CrashInv

\* A good file is in one of the two folders at every step, and no bad one replaces it.
LEMMA GatherCalm == ASSUME Calm, Gather PROVE CrashInv'
<1>1. pc = "gather"
  BY DEF Gather
<1>2. /\ UNCHANGED <<updating, repairing, strict, promise, former, task>>
      /\ disk'[Installed("other")] = disk[Installed("other")]
      /\ disk'[Discard] = disk[Discard] /\ disk'[Parking] = disk[Parking]
      /\ disk'[Home].rev = disk[Home].rev /\ Exists(Home)'
      /\ \/ /\ pc' = "assemble" /\ UNCHANGED disk
            /\ Assets \cap Present(Home) \subseteq task.broken
         \/ /\ pc' = "gather"
            /\ \E a \in Assets \cap Present(Home) :
                 /\ a \notin task.broken
                 /\ disk'[Staging].files[a] = disk[Home].files[a] /\ disk'[Home].files[a] = "none"
                 /\ \A g \in Files : g # a => /\ disk'[Staging].files[g] = disk[Staging].files[g]
                                              /\ disk'[Home].files[g] = disk[Home].files[g]
  <2>1. CASE UNCHANGED disk /\ pc' = "assemble" /\ Assets \cap Present(Home) \subseteq task.broken
    BY <1>1, <2>1, CalmIs, TaskPaths DEF Calm, Gather, FileStep, Goto, Base, PlacesInv,
         Holding, Exists
  <2>2. CASE \E a \in (Assets \ task.broken) \cap Present(Home) : Carried(a, Home, Staging) /\ UNCHANGED <<pc, task>>
    <3>1. PICK a \in (Assets \ task.broken) \cap Present(Home) : Carried(a, Home, Staging) /\ UNCHANGED <<pc, task>>
      BY <2>2
    <3>2. a \in Files /\ Exists(Staging) /\ disk[Home].files[a] # "none"
      BY <1>1, <3>1, FilesAre DEF Calm, Base, PlacesInv, Present
    <3>3. /\ disk'[Home].rev = disk[Home].rev
          /\ disk'[Staging].files[a] = disk[Home].files[a] /\ disk'[Home].files[a] = "none"
          /\ \A g \in Files : g # a => /\ disk'[Staging].files[g] = disk[Staging].files[g]
                                       /\ disk'[Home].files[g] = disk[Home].files[g]
          /\ \A p \in Paths : p \notin {Home, Staging} => disk'[p] = disk[p]
      BY <3>1, <3>2, CarriedIs, FoldersAre, CalmIs DEF Calm
    <3>4. disk'[Home] # Nothing
      BY <3>1, <3>2, CarriedKeeps, FoldersAre, CalmIs DEF Calm, Exists
    <3>5. QED BY <1>1, <3>1, <3>3, <3>4, FoldersAre DEF Gather, FileStep, Exists
  <2>3. QED BY <2>1, <2>2, CalmIs, NoFault DEF Calm, Gather, Carried, Goto
<1>3. AtHome'
  BY <1>1, <1>2, NoTaskIs, FoldersAre DEF Calm, CrashInv, AtHome
<1>4. Journals'
  BY <1>1, <1>2, FoldersAre, UnnamedIs DEF Calm, CrashInv, Journals, InUpdate, InRepair,
       Open, None
<1>5. WayIsFree'
  BY <1>1, <1>2 DEF Calm, CrashInv, WayIsFree, Journals, InUpdate, InRepair, Open, None,
       Exists
<1>6. StagedInv'
  <2>1. /\ Exists(Home) /\ task.broken \subseteq Good(Staging)
        /\ Assets \cap Present(Home) \subseteq Good(Home) \cup task.broken
        /\ Assets \subseteq Good(Home) \cup Good(Staging)
    BY <1>1, FoldersAre DEF Calm, CrashInv, StagedInv, RepairInv, AtHome, Journals, InRepair
  <2>2. CASE pc' = "assemble"
    <3>1. AllGood(Staging)'
      BY <1>2, <2>1, <2>2, FilesAre DEF AllGood, Good, Present
    <3>2. QED BY <1>2, <2>2, <3>1 DEF StagedInv, Updates, InRepair, Exists
  <2>3. CASE pc' = "gather"
    <3>1. task'.broken \subseteq Good(Staging)'
      BY <1>2, <2>1, <2>3, FilesAre DEF Good
    <3>2. Assets \cap Present(Home)' \subseteq Good(Home)' \cup task'.broken
      BY <1>2, <2>1, <2>3, FilesAre DEF Good, Present
    <3>3. QED BY <1>2, <2>3, <3>1, <3>2 DEF StagedInv, Updates, InRepair, Exists
  <2>4. QED BY <1>2, <2>2, <2>3
<1>7. RepairInv'
  BY <1>1, <1>2, FoldersAre, NothingIs, FilesAre DEF Calm, CrashInv, RepairInv, StagedInv,
       Journals, InUpdate, InRepair, Open, None, Exists, Identified, AllGood, Validates,
       Present, Good, Lacks
<1>8. UpdateInv'
  BY <1>1, <1>2, NothingIs, FilesAre DEF Calm, CrashInv, UpdateInv, KeepsPromise,
       StagedInv, PromiseInv, Free, Reverting, Updates, Journals, InUpdate, InRepair,
       Open, None, Exists, Identified, AllGood, Validates, Present, Good, Lacks
<1>9. PromiseInv'
  BY <1>1, <1>2, NothingIs, FilesAre, FoldersAre DEF Calm, CrashInv, PromiseInv, AtHome,
       KeepsPromise, UpdateInv, RepairInv, StagedInv, WayIsFree, Updates, Free, Reverting,
       Journals, InUpdate, InRepair, Open, None, Exists, Identified, AllGood, Validates,
       Present, Good, Lacks
<1>10. QED BY <1>3, <1>4, <1>5, <1>6, <1>7, <1>8, <1>9 DEF Calm, CrashInv

\* The staged package is complete before the package is moved out.
LEMMA AssembleCalm == ASSUME Calm, Assemble PROVE CrashInv'
<1>1. pc = "assemble"
  BY DEF Assemble
<1>2. /\ UNCHANGED <<updating, repairing, strict, promise, former, task>> /\ pc' = "clearDiscard"
      /\ disk'[Home] = disk[Home] /\ disk'[Installed("other")] = disk[Installed("other")]
      /\ disk'[Discard] = disk[Discard] /\ disk'[Parking] = disk[Parking]
      /\ Identified(Staging)' /\ \A a \in Assets : disk'[Staging].files[a] = disk[Staging].files[a]
  <2>1. disk' = [disk EXCEPT ![Staging].files[Manifest] = "good"]
    BY NoFault DEF Calm, Assemble
  <2>2. /\ disk'[Staging].files[Manifest] = "good"
        /\ \A g \in Files : g # Manifest => disk'[Staging].files[g] = disk[Staging].files[g]
        /\ \A p \in Paths : p # Staging => disk'[p] = disk[p]
    BY <2>1, WrittenIs, FoldersAre, FilesAre, CalmIs DEF Calm
  <2>3. UNCHANGED <<updating, repairing, strict, promise, former, task>> /\ pc' = "clearDiscard"
    BY NoFault DEF Calm, Assemble, FileStep, Goto
  <2>4. QED BY <2>2, <2>3, FoldersAre, FilesAre DEF Identified
<1>3. AtHome'
  BY <1>1, <1>2, NoTaskIs, FoldersAre DEF Calm, CrashInv, AtHome
<1>4. Journals'
  BY <1>1, <1>2, FoldersAre, UnnamedIs DEF Calm, CrashInv, Journals, InUpdate, InRepair,
       Open, None
<1>5. WayIsFree'
  BY <1>1, <1>2 DEF Calm, CrashInv, WayIsFree, Journals, InUpdate, InRepair, Open, None,
       Exists
<1>6. StagedInv'
  BY <1>1, <1>2, NothingIs, FilesAre DEF Calm, CrashInv, StagedInv, RepairInv, Updates,
       Journals, InUpdate, InRepair, Open, None, Exists, Identified, AllGood, Validates,
       Present, Good, Lacks
<1>7. RepairInv'
  BY <1>1, <1>2, FoldersAre, NothingIs, FilesAre DEF Calm, CrashInv, RepairInv, StagedInv,
       Journals, InUpdate, InRepair, Open, None, Exists, Identified, AllGood, Validates,
       Present, Good, Lacks
<1>8. UpdateInv'
  BY <1>1, <1>2, NothingIs, FilesAre DEF Calm, CrashInv, UpdateInv, KeepsPromise,
       StagedInv, PromiseInv, Free, Reverting, Updates, Journals, InUpdate, InRepair,
       Open, None, Exists, Identified, AllGood, Validates, Present, Good, Lacks
<1>9. PromiseInv'
  BY <1>1, <1>2, NothingIs, FilesAre, FoldersAre DEF Calm, CrashInv, PromiseInv, AtHome,
       KeepsPromise, UpdateInv, RepairInv, StagedInv, WayIsFree, Updates, Free, Reverting,
       Journals, InUpdate, InRepair, Open, None, Exists, Identified, AllGood, Validates,
       Present, Good, Lacks
<1>10. QED BY <1>3, <1>4, <1>5, <1>6, <1>7, <1>8, <1>9 DEF Calm, CrashInv

\* A crash at any step loses at most the manifest of the staging folder.
LEMMA CrashCalm == ASSUME Calm, Crash PROVE CrashInv'
<1>1. pc \notin {"idle", "down"}
  BY DEF Crash
<1>2. /\ UNCHANGED <<strict, promise, former>> /\ pc' = "down" /\ task' = NoTask
      /\ \/ UNCHANGED <<updating, repairing>>
         \/ pc = "writeJournal" /\ updating' = Unnamed /\ repairing' = repairing
         \/ pc = "startRepair" /\ updating' = updating /\ repairing' = Home
      /\ disk'[Home] = disk[Home] /\ disk'[Installed("other")] = disk[Installed("other")]
      /\ disk'[Discard] = disk[Discard] /\ disk'[Parking] = disk[Parking]
      /\ \A a \in Assets : disk'[Staging].files[a] = disk[Staging].files[a]
      /\ \A r \in Revisions : disk'[Previous(r)] = disk[Previous(r)]
  <2>1. CASE UNCHANGED disk
    BY <2>1 DEF Crash, historyVars
  <2>2. CASE disk' = [disk EXCEPT ![Staging].files[Manifest] = "none"]
    <3>1. /\ \A g \in Files : g # Manifest => disk'[Staging].files[g] = disk[Staging].files[g]
          /\ \A p \in Paths : p # Staging => disk'[p] = disk[p]
      BY <2>2, WrittenIs, FoldersAre, FilesAre, CalmIs DEF Calm
    <3>2. QED BY <3>1, FoldersAre, FilesAre DEF Crash, historyVars
  <2>3. QED BY <2>1, <2>2 DEF Crash
<1>3. /\ updating \notin {None, Unnamed} => updating \in Revisions
      /\ Unnamed # None
  BY UpdateAssumption DEF Calm, Base, TypeOK, None, Unnamed, Revisions
<1>4. /\ pc \in {"writeJournal", "startRepair"} => updating = None /\ repairing = NoPath
      /\ pc = "writeJournal" => Exists(Home) /\ KeepsPromise(Home)
      /\ pc = "startRepair" =>
           Exists(Home) /\ Identified(Home) /\ Assets \subseteq Good(Home) \cup Good(Staging)
  <2>1. pc \in {"writeJournal", "startRepair"} => updating = None /\ repairing = NoPath
    BY DEF Calm, CrashInv, Journals, InUpdate, InRepair, Open
  <2>2. pc = "writeJournal" => Exists(Home) /\ KeepsPromise(Home)
    BY <2>1, CalmIs DEF Calm, Base, PlacesInv, Updates, CrashInv, PromiseInv, Free,
         Reverting, Open, KeepsPromise
  <2>3. pc = "startRepair" =>
          Exists(Home) /\ Identified(Home) /\ Assets \subseteq Good(Home) \cup Good(Staging)
    BY CalmIs DEF Calm, Base, PlacesInv, Holding, CrashInv, StagedInv
  <2>4. QED BY <2>1, <2>2, <2>3
<1>5. AtHome'
  BY <1>1, <1>2, <1>3, <1>4, NoTaskIs, FoldersAre DEF Calm, CrashInv, AtHome
<1>6. Journals'
  BY <1>1, <1>2, <1>3, <1>4, FoldersAre, UnnamedIs DEF Calm, CrashInv, Journals, InUpdate,
       InRepair, Open, None
<1>7. WayIsFree'
  BY <1>1, <1>2, <1>3, <1>4 DEF Calm, CrashInv, WayIsFree, Journals, InUpdate, InRepair,
       Open, None, Exists
<1>8. StagedInv'
  BY <1>1, <1>2, <1>3, <1>4, NothingIs, FilesAre DEF Calm, CrashInv, StagedInv, RepairInv,
       Updates, Journals, InUpdate, InRepair, Open, None, Exists, Identified, AllGood,
       Validates, Present, Good, Lacks
<1>9. RepairInv'
  BY <1>1, <1>2, <1>3, <1>4, FoldersAre, NothingIs, FilesAre DEF Calm, CrashInv,
       RepairInv, StagedInv, Journals, InUpdate, InRepair, Open, None, Exists, Identified,
       AllGood, Validates, Present, Good, Lacks
<1>10. UpdateInv'
  BY <1>1, <1>2, <1>3, <1>4, NothingIs, FilesAre DEF Calm, CrashInv, UpdateInv,
       KeepsPromise, StagedInv, PromiseInv, Free, Reverting, Updates, Journals, InUpdate,
       InRepair, Open, None, Exists, Identified, AllGood, Validates, Present, Good, Lacks
<1>11. PromiseInv'
  BY <1>1, <1>2, <1>3, <1>4, NothingIs, FilesAre, FoldersAre DEF Calm, CrashInv,
       PromiseInv, AtHome, KeepsPromise, UpdateInv, RepairInv, StagedInv, WayIsFree,
       Updates, Free, Reverting, Journals, InUpdate, InRepair, Open, None, Exists,
       Identified, AllGood, Validates, Present, Good, Lacks
<1>12. QED BY <1>5, <1>6, <1>7, <1>8, <1>9, <1>10, <1>11 DEF Calm, CrashInv

\* Nothing is under way when the program ends.
LEMMA QuitCalm == ASSUME Calm, Quit PROVE CrashInv'
<1>1. pc = "idle"
  BY DEF Quit, Step
<1>2. UNCHANGED <<disk, updating, repairing, strict, promise, former>> /\ pc' = "down" /\ task' = task
  BY DEF Quit, Step, Goto, historyVars
<1>3. AtHome'
  BY <1>1, <1>2, NoTaskIs, FoldersAre DEF Calm, CrashInv, AtHome
<1>4. Journals'
  BY <1>1, <1>2, FoldersAre, UnnamedIs DEF Calm, CrashInv, Journals, InUpdate, InRepair,
       Open, None
<1>5. WayIsFree'
  BY <1>1, <1>2 DEF Calm, CrashInv, WayIsFree, Journals, InUpdate, InRepair, Open, None,
       Exists
<1>6. StagedInv'
  BY <1>1, <1>2, NothingIs, FilesAre DEF Calm, CrashInv, StagedInv, RepairInv, Updates,
       Journals, InUpdate, InRepair, Open, None, Exists, Identified, AllGood, Validates,
       Present, Good, Lacks
<1>7. RepairInv'
  BY <1>1, <1>2, FoldersAre, NothingIs, FilesAre DEF Calm, CrashInv, RepairInv, StagedInv,
       Journals, InUpdate, InRepair, Open, None, Exists, Identified, AllGood, Validates,
       Present, Good, Lacks
<1>8. UpdateInv'
  BY <1>1, <1>2, NothingIs, FilesAre DEF Calm, CrashInv, UpdateInv, KeepsPromise,
       StagedInv, PromiseInv, Free, Reverting, Updates, Journals, InUpdate, InRepair,
       Open, None, Exists, Identified, AllGood, Validates, Present, Good, Lacks
<1>9. PromiseInv'
  BY <1>1, <1>2, NothingIs, FilesAre, FoldersAre DEF Calm, CrashInv, PromiseInv, AtHome,
       KeepsPromise, UpdateInv, RepairInv, StagedInv, WayIsFree, Updates, Free, Reverting,
       Journals, InUpdate, InRepair, Open, None, Exists, Identified, AllGood, Validates,
       Present, Good, Lacks
<1>10. QED BY <1>3, <1>4, <1>5, <1>6, <1>7, <1>8, <1>9 DEF Calm, CrashInv

\* A newer host changes no folder.
LEMMA StartCalm == ASSUME Calm, Start PROVE CrashInv'
<1>1. pc = "down"
  BY DEF Start
<1>2. UNCHANGED <<disk, updating, repairing, strict, promise, former>> /\ pc' = "sweep" /\ task'.from = Home
  BY NoTaskIs DEF Start, historyVars
<1>3. AtHome'
  BY <1>1, <1>2, NoTaskIs, FoldersAre DEF Calm, CrashInv, AtHome
<1>4. Journals'
  BY <1>1, <1>2, FoldersAre, UnnamedIs DEF Calm, CrashInv, Journals, InUpdate, InRepair,
       Open, None
<1>5. WayIsFree'
  BY <1>1, <1>2 DEF Calm, CrashInv, WayIsFree, Journals, InUpdate, InRepair, Open, None,
       Exists
<1>6. StagedInv'
  BY <1>1, <1>2, NothingIs, FilesAre DEF Calm, CrashInv, StagedInv, RepairInv, Updates,
       Journals, InUpdate, InRepair, Open, None, Exists, Identified, AllGood, Validates,
       Present, Good, Lacks
<1>7. RepairInv'
  BY <1>1, <1>2, FoldersAre, NothingIs, FilesAre DEF Calm, CrashInv, RepairInv, StagedInv,
       Journals, InUpdate, InRepair, Open, None, Exists, Identified, AllGood, Validates,
       Present, Good, Lacks
<1>8. UpdateInv'
  BY <1>1, <1>2, NothingIs, FilesAre DEF Calm, CrashInv, UpdateInv, KeepsPromise,
       StagedInv, PromiseInv, Free, Reverting, Updates, Journals, InUpdate, InRepair,
       Open, None, Exists, Identified, AllGood, Validates, Present, Good, Lacks
<1>9. PromiseInv'
  BY <1>1, <1>2, NothingIs, FilesAre, FoldersAre DEF Calm, CrashInv, PromiseInv, AtHome,
       KeepsPromise, UpdateInv, RepairInv, StagedInv, WayIsFree, Updates, Free, Reverting,
       Journals, InUpdate, InRepair, Open, None, Exists, Identified, AllGood, Validates,
       Present, Good, Lacks
<1>10. QED BY <1>3, <1>4, <1>5, <1>6, <1>7, <1>8, <1>9 DEF Calm, CrashInv

\* Damage takes back every promise.
LEMMA DamageCalm == ASSUME Calm, Damage PROVE CrashInv'
<1>1. pc = "idle"
  BY DEF Damage
<1>2. /\ UNCHANGED <<updating, repairing, strict, pc, task>> /\ promise' = {}
      /\ disk'[Installed("other")] = disk[Installed("other")] /\ disk'[Staging] = disk[Staging]
      /\ disk'[Discard] = disk[Discard] /\ disk'[Parking] = disk[Parking]
  <2>1. PICK p \in Installation, a \in Assets, how \in {"bad", "gone"} : disk' = [disk EXCEPT ![p].files[a] = how]
    BY DEF Damage
  <2>2. p = Home /\ a \in Files
    BY CalmIs, FilesAre DEF Calm
  <2>3. \A q \in Paths : q # Home => disk'[q] = disk[q]
    BY <2>1, <2>2, WrittenIs, FoldersAre, CalmIs DEF Calm
  <2>4. QED BY <2>3, FoldersAre DEF Damage
<1>3. AtHome'
  BY <1>1, <1>2, NoTaskIs, FoldersAre DEF Calm, CrashInv, AtHome
<1>4. Journals'
  BY <1>1, <1>2, FoldersAre, UnnamedIs DEF Calm, CrashInv, Journals, InUpdate, InRepair,
       Open, None
<1>5. WayIsFree'
  BY <1>1, <1>2 DEF Calm, CrashInv, WayIsFree, Journals, InUpdate, InRepair, Open, None,
       Exists
<1>6. StagedInv'
  BY <1>1, <1>2, NothingIs, FilesAre DEF Calm, CrashInv, StagedInv, RepairInv, Updates,
       Journals, InUpdate, InRepair, Open, None, Exists, Identified, AllGood, Validates,
       Present, Good, Lacks
<1>7. RepairInv'
  BY <1>1, <1>2, FoldersAre, NothingIs, FilesAre DEF Calm, CrashInv, RepairInv, StagedInv,
       Journals, InUpdate, InRepair, Open, None, Exists, Identified, AllGood, Validates,
       Present, Good, Lacks
<1>8. UpdateInv'
  BY <1>1, <1>2, NothingIs, FilesAre DEF Calm, CrashInv, UpdateInv, KeepsPromise,
       StagedInv, PromiseInv, Free, Reverting, Updates, Journals, InUpdate, InRepair,
       Open, None, Exists, Identified, AllGood, Validates, Present, Good, Lacks
<1>9. PromiseInv'
  BY <1>1, <1>2, NothingIs, FilesAre, FoldersAre DEF Calm, CrashInv, PromiseInv, AtHome,
       KeepsPromise, UpdateInv, RepairInv, StagedInv, WayIsFree, Updates, Free, Reverting,
       Journals, InUpdate, InRepair, Open, None, Exists, Identified, AllGood, Validates,
       Present, Good, Lacks
<1>10. QED BY <1>3, <1>4, <1>5, <1>6, <1>7, <1>8, <1>9 DEF Calm, CrashInv

\* The steps of the recovery.
LEMMA SweepCalm == ASSUME Calm, Sweep PROVE CrashInv'
<1>1. pc = "sweep"
  BY DEF Sweep
<1>2. /\ UNCHANGED <<updating, repairing, strict, promise, former>>
      /\ pc' \in {"sweep", "recover"} /\ task'.from = Home
      /\ disk'[Home] = disk[Home] /\ disk'[Installed("other")] = disk[Installed("other")]
      /\ disk'[Staging] = disk[Staging] /\ disk'[Discard] = disk[Discard] /\ disk'[Parking] = disk[Parking]
      /\ \A r \in Revisions : disk'[Previous(r)] = disk[Previous(r)]
  <2>1. /\ {Home, Installed("other"), Staging, Discard, Parking} \cap Unread = {}
        /\ \A r \in Revisions : Previous(r) \notin Unread
    BY UnreadIs, PathsAre DEF Candidates, Home
  <2>2. QED BY <2>1, SweepIs, FoldersAre, CalmIs DEF Calm
<1>3. updating \notin {None, Unnamed} => updating \in Revisions
  BY UpdateAssumption DEF Calm, Base, TypeOK, None, Unnamed, Revisions
<1>4. AtHome'
  BY <1>1, <1>2, <1>3, NoTaskIs, FoldersAre DEF Calm, CrashInv, AtHome
<1>5. Journals'
  BY <1>1, <1>2, <1>3, FoldersAre, UnnamedIs DEF Calm, CrashInv, Journals, InUpdate,
       InRepair, Open, None
<1>6. WayIsFree'
  BY <1>1, <1>2, <1>3 DEF Calm, CrashInv, WayIsFree, Journals, InUpdate, InRepair, Open,
       None, Exists
<1>7. StagedInv'
  BY <1>1, <1>2, <1>3, NothingIs, FilesAre DEF Calm, CrashInv, StagedInv, RepairInv,
       Updates, Journals, InUpdate, InRepair, Open, None, Exists, Identified, AllGood,
       Validates, Present, Good, Lacks
<1>8. RepairInv'
  BY <1>1, <1>2, <1>3, FoldersAre, NothingIs, FilesAre DEF Calm, CrashInv, RepairInv,
       StagedInv, Journals, InUpdate, InRepair, Open, None, Exists, Identified, AllGood,
       Validates, Present, Good, Lacks
<1>9. UpdateInv'
  BY <1>1, <1>2, <1>3, NothingIs, FilesAre DEF Calm, CrashInv, UpdateInv, KeepsPromise,
       StagedInv, PromiseInv, Free, Reverting, Updates, Journals, InUpdate, InRepair,
       Open, None, Exists, Identified, AllGood, Validates, Present, Good, Lacks
<1>10. PromiseInv'
  BY <1>1, <1>2, <1>3, NothingIs, FilesAre, FoldersAre DEF Calm, CrashInv, PromiseInv,
       AtHome, KeepsPromise, UpdateInv, RepairInv, StagedInv, WayIsFree, Updates, Free,
       Reverting, Journals, InUpdate, InRepair, Open, None, Exists, Identified, AllGood,
       Validates, Present, Good, Lacks
<1>11. QED BY <1>4, <1>5, <1>6, <1>7, <1>8, <1>9, <1>10 DEF Calm, CrashInv

\* The update is completed, or the kept package put back, before its journal ends.
LEMMA ResumeUpdateCalm == ASSUME Calm, pc = "recover", ResumeUpdate PROVE CrashInv'
<1>1. /\ pc = "recover" /\ updating # None
      /\ updating # Unnamed => updating \in Revisions
      /\ ~Exists(Home) => updating # Unnamed
  <2>1. pc = "recover" /\ updating # None /\ updating \in 0 .. Unnamed
    BY DEF ResumeUpdate, Calm, Base, TypeOK
  <2>2. updating # Unnamed => updating \in Revisions
    BY <2>1, UpdateAssumption DEF None, Unnamed, Revisions
  <2>3. QED BY <2>1, <2>2 DEF Calm, CrashInv, UpdateInv
<1>2. /\ UNCHANGED <<repairing, strict, promise, former>> /\ pc' = "recover" /\ task' = task
      /\ disk'[Installed("other")] = disk[Installed("other")]
      /\ disk'[Discard] = disk[Discard] /\ disk'[Parking] = disk[Parking]
      /\ \/ /\ ~Exists(Home) /\ Validates(Staging) /\ updating' = updating
            /\ disk'[Home] = disk[Staging] /\ disk'[Staging] = Nothing
         \/ /\ ~Exists(Home) /\ updating' = updating
            /\ disk'[Home] = disk[Previous(updating)] /\ disk'[Staging] = disk[Staging]
         \/ /\ Exists(Home) /\ updating' = None /\ disk' = disk
  <2>1. CASE ~Exists(Home) /\ Validates(Staging) /\ ResumeRename(Staging, Home)
    BY <2>1, RenameIs, FoldersAre, CalmIs, NoFault DEF Calm, ResumeRename, Goto
  <2>2. ASSUME NEW r \in NamedPrevious, ~Exists(Home), ResumeRename(Previous(r), Home)
        PROVE  /\ UNCHANGED <<repairing, strict, promise, former, updating>> /\ pc' = "recover" /\ task' = task
               /\ disk'[Installed("other")] = disk[Installed("other")]
               /\ disk'[Discard] = disk[Discard] /\ disk'[Parking] = disk[Parking]
               /\ disk'[Home] = disk[Previous(updating)] /\ disk'[Staging] = disk[Staging]
    <3>1. r = updating /\ r \in Revisions
      BY DEF NamedPrevious
    <3>2. QED BY <1>1, <2>2, <3>1, RenameIs, FoldersAre, CalmIs, NoFault DEF Calm,
         ResumeRename, Goto
  <2>3. CASE UpdateJournal("recover", None, "recover", "down")
            /\ (Exists(Home) \/ ~(Validates(Staging) \/ NamedPrevious # {}))
    <3>1. Exists(Home)
      BY <1>1, <2>3 DEF Calm, CrashInv, UpdateInv, NamedPrevious
    <3>2. QED BY <2>3, <3>1, NoFault DEF Calm, UpdateJournal, Journal, Goto, historyVars
  <2>4. QED BY <2>1, <2>2, <2>3 DEF ResumeUpdate
<1>3. AtHome'
  BY <1>1, <1>2, NoTaskIs, FoldersAre DEF Calm, CrashInv, AtHome
<1>4. Journals'
  BY <1>1, <1>2, FoldersAre, UnnamedIs DEF Calm, CrashInv, Journals, InUpdate, InRepair,
       Open, None
<1>5. WayIsFree'
  BY <1>1, <1>2 DEF Calm, CrashInv, WayIsFree, Journals, InUpdate, InRepair, Open, None,
       Exists
<1>6. StagedInv'
  BY <1>1, <1>2, NothingIs, FilesAre DEF Calm, CrashInv, StagedInv, RepairInv, Updates,
       Journals, InUpdate, InRepair, Open, None, Exists, Identified, AllGood, Validates,
       Present, Good, Lacks
<1>7. RepairInv'
  BY <1>1, <1>2, FoldersAre, NothingIs, FilesAre DEF Calm, CrashInv, RepairInv, StagedInv,
       Journals, InUpdate, InRepair, Open, None, Exists, Identified, AllGood, Validates,
       Present, Good, Lacks
<1>8. UpdateInv'
  BY <1>1, <1>2, NothingIs, FilesAre DEF Calm, CrashInv, UpdateInv, KeepsPromise,
       StagedInv, PromiseInv, Free, Reverting, Updates, Journals, InUpdate, InRepair,
       Open, None, Exists, Identified, AllGood, Validates, Present, Good, Lacks
<1>9. PromiseInv'
  BY <1>1, <1>2, NothingIs, FilesAre, FoldersAre DEF Calm, CrashInv, PromiseInv, AtHome,
       KeepsPromise, UpdateInv, RepairInv, StagedInv, WayIsFree, Updates, Free, Reverting,
       Journals, InUpdate, InRepair, Open, None, Exists, Identified, AllGood, Validates,
       Present, Good, Lacks
<1>10. QED BY <1>3, <1>4, <1>5, <1>6, <1>7, <1>8, <1>9 DEF Calm, CrashInv

\* The files are put back, or one of the two packages, before the journal ends.
LEMMA ResumeRepairCalm == ASSUME Calm, pc = "recover", ResumeRepair PROVE CrashInv'
<1>1. pc = "recover" /\ updating = None /\ repairing = Home
  BY DEF ResumeRepair, UpdatesDone, Calm, CrashInv, AtHome
<1>2. /\ UNCHANGED <<updating, strict, promise, former>> /\ pc' = "recover" /\ task' = task
      /\ disk'[Installed("other")] = disk[Installed("other")] /\ disk'[Parking] = disk[Parking]
      /\ \/ /\ ~Exists(Home) /\ Validates(Staging) /\ repairing' = repairing
            /\ disk'[Home] = disk[Staging] /\ disk'[Staging] = Nothing
         \/ /\ ~Exists(Home) /\ repairing' = repairing
            /\ disk'[Home] = disk[Discard] /\ disk'[Staging] = disk[Staging]
         \/ /\ Exists(Home) /\ Exists(Home)' /\ repairing' = repairing
            /\ \E f \in Files :
                 /\ f \in Present(Staging) \ Present(Home)
                 /\ disk'[Home].files[f] = disk[Staging].files[f] /\ disk'[Staging].files[f] = "none"
                 /\ \A g \in Files : g # f => /\ disk'[Staging].files[g] = disk[Staging].files[g]
                                              /\ disk'[Home].files[g] = disk[Home].files[g]
         \/ /\ Exists(Home) /\ repairing' = NoPath /\ disk' = disk /\ MissingIn(Home) = {}
  <2>1. CASE ~Exists(Home) /\ Validates(Staging) /\ ResumeRename(Staging, Home)
    BY <2>1, RenameIs, FoldersAre, CalmIs, NoFault DEF Calm, ResumeRename, Goto
  <2>2. CASE ~Exists(Home) /\ ResumeRename(Discard, Home)
    BY <2>2, RenameIs, FoldersAre, CalmIs, NoFault DEF Calm, ResumeRename, Goto
  <2>3. CASE Exists(Home) /\ MissingIn(Home) # {} /\ PutBack("recover", Home, "recover", "down")
    <3>1. /\ Exists(Home)' /\ UNCHANGED <<updating, repairing, strict, promise, former, pc, task>>
          /\ \A q \in Paths : q \notin {Home, Staging} => disk'[q] = disk[q]
          /\ \E f \in MissingIn(Home) : f \in Files /\ Carried(f, Staging, Home)
      BY <2>3, PutBackIs, FoldersAre, CalmIs, NoFault DEF Calm
    <3>2. PICK f \in MissingIn(Home) : f \in Files /\ Carried(f, Staging, Home)
      BY <3>1
    <3>3. /\ disk'[Home].files[f] = disk[Staging].files[f] /\ disk'[Staging].files[f] = "none"
          /\ \A g \in Files : g # f => /\ disk'[Staging].files[g] = disk[Staging].files[g]
                                       /\ disk'[Home].files[g] = disk[Home].files[g]
      BY <3>2, CarriedIs, FoldersAre, CalmIs DEF Calm
    <3>4. QED BY <1>1, <2>3, <3>1, <3>2, <3>3, FoldersAre DEF MissingIn
  <2>4. CASE Exists(Home) /\ MissingIn(Home) = {} /\ RepairJournal("recover", NoPath, "recover", "down")
    BY <2>4, NoFault DEF Calm, RepairJournal, Journal, Goto, historyVars
  <2>5. QED BY <1>1, <2>1, <2>2, <2>3, <2>4 DEF ResumeRepair
<1>3. Exists(Home) /\ MissingIn(Home) = {} => Validates(Home) /\ Lacks(Home) = {}
  <2>1. SUFFICES ASSUME Exists(Home), Present(Staging) \subseteq Present(Home)
                 PROVE  Validates(Home) /\ Lacks(Home) = {}
    BY DEF MissingIn
  <2>2. Identified(Home) /\ Assets \subseteq Good(Home) \cup Good(Staging)
    BY <1>1, <2>1 DEF Calm, CrashInv, RepairInv
  <2>3. Assets \subseteq Present(Home)
    BY <2>1, <2>2, FilesAre DEF Good, Present
  <2>4. QED BY <2>2, <2>3, FilesAre DEF Validates, Identified, Lacks, Present
<1>4. AtHome'
  BY <1>1, <1>2, <1>3, NoTaskIs, FoldersAre DEF Calm, CrashInv, AtHome
<1>5. Journals'
  BY <1>1, <1>2, <1>3, FoldersAre, UnnamedIs DEF Calm, CrashInv, Journals, InUpdate,
       InRepair, Open, None
<1>6. WayIsFree'
  BY <1>1, <1>2, <1>3 DEF Calm, CrashInv, WayIsFree, Journals, InUpdate, InRepair, Open,
       None, Exists
<1>7. StagedInv'
  BY <1>1, <1>2, <1>3, NothingIs, FilesAre DEF Calm, CrashInv, StagedInv, RepairInv,
       Updates, Journals, InUpdate, InRepair, Open, None, Exists, Identified, AllGood,
       Validates, Present, Good, Lacks
<1>8. RepairInv'
  BY <1>1, <1>2, <1>3, FoldersAre, NothingIs, FilesAre DEF Calm, CrashInv, RepairInv,
       StagedInv, Journals, InUpdate, InRepair, Open, None, Exists, Identified, AllGood,
       Validates, Present, Good, Lacks
<1>9. UpdateInv'
  BY <1>1, <1>2, <1>3, NothingIs, FilesAre DEF Calm, CrashInv, UpdateInv, KeepsPromise,
       StagedInv, PromiseInv, Free, Reverting, Updates, Journals, InUpdate, InRepair,
       Open, None, Exists, Identified, AllGood, Validates, Present, Good, Lacks
<1>10. PromiseInv'
  BY <1>1, <1>2, <1>3, NothingIs, FilesAre, FoldersAre DEF Calm, CrashInv, PromiseInv,
       AtHome, KeepsPromise, UpdateInv, RepairInv, StagedInv, WayIsFree, Updates, Free,
       Reverting, Journals, InUpdate, InRepair, Open, None, Exists, Identified, AllGood,
       Validates, Present, Good, Lacks
<1>11. QED BY <1>4, <1>5, <1>6, <1>7, <1>8, <1>9, <1>10 DEF Calm, CrashInv

\* No repair is ever stuck: its package is where it was, or discarded whole.
LEMMA RepairsAreDone ==
  ASSUME Base, CrashInv, RepairsDone
  PROVE  updating = None /\ repairing = NoPath
<1>1. ASSUME repairing = Home PROVE ~Stuck
  BY <1>1, IdentifiedExists, FoldersAre DEF CrashInv, RepairInv, Stuck
<1>2. QED BY <1>1 DEF RepairsDone, UpdatesDone, CrashInv, AtHome

\* What was discarded is deleted, or left, once no repair needs it.
LEMMA DropDiscardCalm == ASSUME Calm, pc = "recover", DropDiscard PROVE CrashInv'
<1>1. pc = "recover" /\ updating = None /\ repairing = NoPath
  BY RepairsAreDone DEF DropDiscard, Calm
<1>2. /\ UNCHANGED <<updating, repairing, strict, promise, former>>
      /\ pc' \in {"recover", "revert"} /\ task' = task
      /\ disk'[Home] = disk[Home] /\ disk'[Installed("other")] = disk[Installed("other")]
      /\ disk'[Staging] = disk[Staging] /\ disk'[Parking] = disk[Parking]
  <2>1. CASE DeleteOrFail("recover", Discard, "revert", "revert")
    BY <1>1, <2>1, DeleteOrFailIs, FoldersAre, CalmIs, NoFault DEF Calm, Goto
  <2>2. CASE Step("recover", "revert")
    BY <1>1, <2>2 DEF Step, Goto, historyVars
  <2>3. QED BY <2>1, <2>2 DEF DropDiscard
<1>3. AtHome'
  BY <1>1, <1>2, NoTaskIs, FoldersAre DEF Calm, CrashInv, AtHome
<1>4. Journals'
  BY <1>1, <1>2, FoldersAre, UnnamedIs DEF Calm, CrashInv, Journals, InUpdate, InRepair,
       Open, None
<1>5. WayIsFree'
  BY <1>1, <1>2 DEF Calm, CrashInv, WayIsFree, Journals, InUpdate, InRepair, Open, None,
       Exists
<1>6. StagedInv'
  BY <1>1, <1>2, NothingIs, FilesAre DEF Calm, CrashInv, StagedInv, RepairInv, Updates,
       Journals, InUpdate, InRepair, Open, None, Exists, Identified, AllGood, Validates,
       Present, Good, Lacks
<1>7. RepairInv'
  BY <1>1, <1>2, FoldersAre, NothingIs, FilesAre DEF Calm, CrashInv, RepairInv, StagedInv,
       Journals, InUpdate, InRepair, Open, None, Exists, Identified, AllGood, Validates,
       Present, Good, Lacks
<1>8. UpdateInv'
  BY <1>1, <1>2, NothingIs, FilesAre DEF Calm, CrashInv, UpdateInv, KeepsPromise,
       StagedInv, PromiseInv, Free, Reverting, Updates, Journals, InUpdate, InRepair,
       Open, None, Exists, Identified, AllGood, Validates, Present, Good, Lacks
<1>9. PromiseInv'
  BY <1>1, <1>2, NothingIs, FilesAre, FoldersAre DEF Calm, CrashInv, PromiseInv, AtHome,
       KeepsPromise, UpdateInv, RepairInv, StagedInv, WayIsFree, Updates, Free, Reverting,
       Journals, InUpdate, InRepair, Open, None, Exists, Identified, AllGood, Validates,
       Present, Good, Lacks
<1>10. QED BY <1>3, <1>4, <1>5, <1>6, <1>7, <1>8, <1>9 DEF Calm, CrashInv

\* The parked package is kept or put back, and one of the two works.
LEMMA ResumeRevertCalm == ASSUME Calm, ResumeRevert PROVE CrashInv'
<1>1. /\ pc = "revert" /\ updating = None /\ repairing = NoPath
      /\ Exists(Parking) /\ Kept \in Paths
      /\ Kept \notin {Home, Installed("other"), Staging, Discard, Parking}
  BY TaskPaths, FoldersAre DEF ResumeRevert, DeleteOrFail, Delete, ResumeParked, Rename,
       Calm, Kept, CrashInv, Journals
<1>2. /\ UNCHANGED <<updating, repairing, strict, promise, former>> /\ task' = task
      /\ disk'[Installed("other")] = disk[Installed("other")]
      /\ pc' \in {"revert", "down"}
      /\ \/ Validates(Home) /\ disk'[Home] = disk[Home] /\ disk'[Parking] = disk[Parking]
         \/ Validates(Home) /\ disk'[Home] = disk[Home] /\ disk'[Parking] = Nothing
         \/ /\ ~Validates(Home) /\ disk'[Home] \in {Nothing, disk[Home]}
            /\ disk'[Parking] = disk[Parking]
         \/ ~Exists(Home) /\ disk'[Home] = disk[Parking] /\ disk'[Parking] = Nothing
  <2>1. CASE Validates(Home) /\ DeleteOrFail("revert", Kept, "revert", "down")
    BY <1>1, <2>1, DeleteOrFailIs, FoldersAre, CalmIs, NoFault DEF Calm, Goto
  <2>2. CASE Validates(Home) /\ ResumeParked(Parking, Kept)
    BY <1>1, <2>2, RenameIs, FoldersAre, CalmIs, NoFault DEF Calm, ResumeParked, Goto
  <2>3. CASE Exists(Home) /\ ~Validates(Home) /\ ResumeParked(Home, Previous(disk[Home].rev))
    <3> DEFINE to == Previous(disk[Home].rev)
    <3>1. to \in Paths /\ to \notin {Home, Installed("other"), Parking}
      BY <2>3, TaskPaths, FoldersAre DEF Calm
    <3>2. ResumeParked(Home, to)
      BY <2>3
    <3> HIDE DEF to
    <3>3. QED BY <1>1, <2>3, <3>1, <3>2, RenameIs, FoldersAre, CalmIs, NoFault DEF Calm,
         ResumeParked, Goto
  <2>4. CASE ~Exists(Home) /\ ResumeParked(Parking, Home)
    BY <1>1, <2>4, RenameIs, FoldersAre, CalmIs, NoFault DEF Calm, ResumeParked, Goto
  <2>5. QED BY <2>1, <2>2, <2>3, <2>4 DEF ResumeRevert
<1>3. AtHome'
  BY <1>1, <1>2, NoTaskIs, FoldersAre DEF Calm, CrashInv, AtHome
<1>4. Journals'
  BY <1>1, <1>2, FoldersAre, UnnamedIs DEF Calm, CrashInv, Journals, InUpdate, InRepair,
       Open, None
<1>5. WayIsFree'
  BY <1>1, <1>2 DEF Calm, CrashInv, WayIsFree, Journals, InUpdate, InRepair, Open, None,
       Exists
<1>6. StagedInv'
  BY <1>1, <1>2, NothingIs, FilesAre DEF Calm, CrashInv, StagedInv, RepairInv, Updates,
       Journals, InUpdate, InRepair, Open, None, Exists, Identified, AllGood, Validates,
       Present, Good, Lacks
<1>7. RepairInv'
  BY <1>1, <1>2, FoldersAre, NothingIs, FilesAre DEF Calm, CrashInv, RepairInv, StagedInv,
       Journals, InUpdate, InRepair, Open, None, Exists, Identified, AllGood, Validates,
       Present, Good, Lacks
<1>8. UpdateInv'
  BY <1>1, <1>2, NothingIs, FilesAre DEF Calm, CrashInv, UpdateInv, KeepsPromise,
       StagedInv, PromiseInv, Free, Reverting, Updates, Journals, InUpdate, InRepair,
       Open, None, Exists, Identified, AllGood, Validates, Present, Good, Lacks
<1>9. PromiseInv'
  BY <1>1, <1>2, NothingIs, FilesAre, FoldersAre DEF Calm, CrashInv, PromiseInv, AtHome,
       KeepsPromise, UpdateInv, RepairInv, StagedInv, WayIsFree, Updates, Free, Reverting,
       Journals, InUpdate, InRepair, Open, None, Exists, Identified, AllGood, Validates,
       Present, Good, Lacks
<1>10. QED BY <1>3, <1>4, <1>5, <1>6, <1>7, <1>8, <1>9 DEF Calm, CrashInv

\* Nothing is parked, so the package that works is installed.
LEMMA RecoveredCalm == ASSUME Calm, Recovered PROVE CrashInv'
<1>1. pc = "revert" /\ updating = None /\ repairing = NoPath /\ ~Exists(Parking)
  BY DEF Recovered, Step, Calm, CrashInv, Journals
<1>2. UNCHANGED <<disk, updating, repairing, strict, promise, former>> /\ pc' = "idle" /\ task' = NoTask
  BY DEF Recovered, Step, Goto, historyVars
<1>3. ~Validates(Parking)
  BY <1>1, IdentifiedExists
<1>4. AtHome'
  BY <1>1, <1>2, <1>3, NoTaskIs, FoldersAre DEF Calm, CrashInv, AtHome
<1>5. Journals'
  BY <1>1, <1>2, <1>3, FoldersAre, UnnamedIs DEF Calm, CrashInv, Journals, InUpdate,
       InRepair, Open, None
<1>6. WayIsFree'
  BY <1>1, <1>2, <1>3 DEF Calm, CrashInv, WayIsFree, Journals, InUpdate, InRepair, Open,
       None, Exists
<1>7. StagedInv'
  BY <1>1, <1>2, <1>3, NothingIs, FilesAre DEF Calm, CrashInv, StagedInv, RepairInv,
       Updates, Journals, InUpdate, InRepair, Open, None, Exists, Identified, AllGood,
       Validates, Present, Good, Lacks
<1>8. RepairInv'
  BY <1>1, <1>2, <1>3, FoldersAre, NothingIs, FilesAre DEF Calm, CrashInv, RepairInv,
       StagedInv, Journals, InUpdate, InRepair, Open, None, Exists, Identified, AllGood,
       Validates, Present, Good, Lacks
<1>9. UpdateInv'
  BY <1>1, <1>2, <1>3, NothingIs, FilesAre DEF Calm, CrashInv, UpdateInv, KeepsPromise,
       StagedInv, PromiseInv, Free, Reverting, Updates, Journals, InUpdate, InRepair,
       Open, None, Exists, Identified, AllGood, Validates, Present, Good, Lacks
<1>10. PromiseInv'
  BY <1>1, <1>2, <1>3, NothingIs, FilesAre, FoldersAre DEF Calm, CrashInv, PromiseInv,
       AtHome, KeepsPromise, UpdateInv, RepairInv, StagedInv, WayIsFree, Updates, Free,
       Reverting, Journals, InUpdate, InRepair, Open, None, Exists, Identified, AllGood,
       Validates, Present, Good, Lacks
<1>11. QED BY <1>4, <1>5, <1>6, <1>7, <1>8, <1>9, <1>10 DEF Calm, CrashInv

\* CrashInv holds at first, where the package is in the folder of its id.
LEMMA CalmInit == ASSUME Init, Folders = {"id"} PROVE CrashInv
<1>1. /\ updating = None /\ repairing = NoPath /\ pc = "idle" /\ task = NoTask /\ promise = {}
      /\ disk[Installed("other")] = Nothing
  BY FoldersAre DEF Init, Home
<1>2. QED BY <1>1, NoTaskIs, FoldersAre, UnnamedIs DEF CrashInv, AtHome, Journals,
     InUpdate, InRepair, Open, None,
     WayIsFree, StagedInv, Updates, RepairInv, UpdateInv, PromiseInv

\* A step that no failed operation is a part of, or precedes.
LEMMA CalmStep == ASSUME Base, CrashInv, [Next]_vars, faults' = 0 PROVE CrashInv'
<1>1. CASE UNCHANGED vars
  BY <1>1 DEF vars, historyVars, boundVars, CrashInv, AtHome, Journals, WayIsFree,
       StagedInv, Updates, RepairInv,
     UpdateInv, KeepsPromise, PromiseInv, Free, Exists, Identified, AllGood, Validates, Present, Good, Lacks
<1>2. CASE Operation
  BY <1>2, NeverCalm, BeginInstallCalm, InstallCalm, DownloadFailsCalm, BeginUpdateCalm,
       DropPreviousCalm,
     WriteJournalCalm, MoveOutCalm, MoveInCalm, RemoveJournalCalm, ClearAsideCalm, AsideOutCalm,
     AsideInCalm, DeleteAsideCalm, BeginRevertCalm, ParkCalm, RestoreCalm, CheckRestoredCalm,
     UnrestoreCalm, UnparkCalm, KeepCalm, BeginDeletePreviousCalm, BeginRemoveCalm, ClearCalm,
     MoveAsideCalm, EraseCalm, ClearPreviousCalm, MovePreviousAsideCalm, ErasePreviousCalm,
     BeginRepairCalm, StartRepairCalm, GatherCalm, AssembleCalm, ClearDiscardCalm, DamagedOutCalm,
     RepairedInCalm, EndRepairCalm, DeleteDiscardCalm DEF Operation, Calm
<1>3. CASE Recovery
  <2>1. ResumeUpdate \/ ResumeRepair \/ DropDiscard => pc = "recover"
    BY DEF ResumeUpdate, ResumeRepair, DropDiscard, ResumeRename, Rename, PutBack,
         DeleteOrFail, Delete,
       UpdateJournal, RepairJournal, Journal, Step
  <2>2. QED
    BY <1>3, <2>1, SweepCalm, ResumeUpdateCalm, ResumeRepairCalm, DropDiscardCalm,
         ResumeRevertCalm,
       RecoveredCalm DEF Recovery, Calm
<1>4. QED BY <1>1, <1>2, <1>3, CrashCalm, QuitCalm, StartCalm, DamageCalm DEF Next, Calm

\* Failures are counted.
LEMMA FaultsAre == ASSUME Base, [Next]_vars, faults' = 0 PROVE faults = 0
<1>1. faults' \in {faults, faults + 1}
  <2>1. CASE UNCHANGED vars
    BY <2>1 DEF vars, boundVars
  <2>2. CASE Operation
    BY <2>2 DEF Operation, BeginInstall, Install, DownloadFails, BeginUpdate,
         DropPrevious, WriteJournal,
      MoveOut, MoveIn, MoveBack, RemoveJournal, ClearAside, AsideOut, AsideIn, AsideBack, DeleteAside,
      BeginRevert, Park, Restore, CheckRestored, Unrestore, Unpark, Keep, BeginDeletePrevious,
      BeginRemove, Clear, MoveAside, Erase, ClearPrevious, MovePreviousAside, ErasePrevious,
      BeginRepair, StartRepair, Gather, Assemble, ClearDiscard, DamagedOut, RepairedIn, DamagedBack,
      RollBack, RolledBack, EndRepair, DeleteDiscard, Begin, Rename, Delete, DeleteOrFail, PutBack,
      Journal, UpdateJournal, RepairJournal, Step, FileStep, Fault, boundVars
  <2>3. CASE Recovery
    BY <2>3 DEF Recovery, Sweep, ResumeUpdate, ResumeRepair, DropDiscard, ResumeRevert,
         Recovered,
      ResumeRename, ResumeParked, Rename, Delete, DeleteOrFail, PutBack, Journal, UpdateJournal,
      RepairJournal, Step, FileStep, Fault, boundVars
  <2>4. QED BY <2>1, <2>2, <2>3 DEF Next, Crash, Quit, Start, Damage, Step, boundVars
<1>2. QED BY <1>1 DEF Base, TypeOK

\* CrashInv holds until a file operation fails.
LEMMA CalmAlways == ASSUME Folders = {"id"} PROVE Spec => [](faults = 0 => CrashInv)
<1> DEFINE Inv == Base /\ (faults = 0 => CrashInv)
<1>1. Init => Inv
  BY BaseInit, CalmInit
<1>2. Inv /\ [Next]_vars => Inv'
  BY BaseStep, CalmStep, FaultsAre
<1>3. Inv => (faults = 0 => CrashInv)
  OBVIOUS
<1>4. QED BY <1>1, <1>2, <1>3, PTL DEF Spec

\* A package in the folder of its id, and each of its files, outlives every update,
\* revert, repair and deletion of its previous version, with any number of crashes
\* at any steps and any damage in between, as long as no file operation fails.
THEOREM PackageOutlivesCrashes ==
  ASSUME Folders = {"id"} PROVE Spec => [](faults = 0 => PackageSurvives)
<1>1. Base /\ CrashInv => PackageSurvives
  <2>1. SUFFICES ASSUME Base, CrashInv, pc = "idle", ~Unfinished
                 PROVE  /\ "usable" \in promise => Usable
                        /\ "whole" \in promise => AllWhole(Candidates)
    BY DEF PackageSurvives, WorkingPackageSurvives, GoodFilesSurvive, Base
  <2>2. Free
    BY <2>1 DEF Unfinished, Free
  <2>3. ASSUME "usable" \in promise PROVE Usable
    BY <2>1, <2>2, <2>3, PathsAre DEF CrashInv, PromiseInv, Reverting, Open, Usable,
         Discovered
  <2>4. ASSUME "whole" \in promise PROVE AllWhole(Candidates)
    BY <2>1, <2>2, <2>4, CalmIs DEF CrashInv, PromiseInv, AllWhole, Installation
  <2>5. QED BY <2>3, <2>4
<1>2. Base /\ (faults = 0 => CrashInv) => (faults = 0 => PackageSurvives)
  BY <1>1
<1>3. QED BY <1>2, BaseAlways, CalmAlways, PTL

-----------------------------------------------------------------------------
(* The way back to the version that was in use.                            *)

\* A folder that is moved whole takes its revision with it.
LEMMA HasIs ==
  ASSUME NEW p, NEW q, disk'[p] = disk[q], strict' = strict
  PROVE  /\ Exists(p)' <=> Exists(q)
         /\ \A r : Has(p, r)' <=> Has(q, r)
BY SameFolder DEF Has

\* A folder that is not there holds no revision.
LEMMA AbsentHas ==
  ASSUME NEW p
  PROVE  /\ disk[p] = Nothing => ~Exists(p) /\ \A r : ~Has(p, r)
         /\ disk'[p] = Nothing => ~Exists(p)' /\ \A r : ~Has(p, r)'
         /\ \A r : Has(p, r) => Exists(p) /\ disk[p].rev = r
<1>1. Nothing.files[Manifest] = "none"
  BY NothingIs, FilesAre
<1>2. QED BY <1>1 DEF Exists, Has, Validates

\* A step that starts with the version r to go back to.
WayCalm(r) == Calm /\ WayInv /\ r \in former

\* What such a step starts from.
LEMMA WayIs ==
  ASSUME NEW r, WayCalm(r)
  PROVE  /\ r \in Revisions /\ Way(r) /\ pc \notin Discards
         /\ Previous(r) \in Paths
         /\ Previous(r) \notin {Home, Installed("other"), Staging, Discard, Parking, Aside("id"), PreviousAside}
         /\ DiskOK /\ AllKnown /\ task.from = Home /\ repairing \in {NoPath, Home} /\ Home # NoPath
BY CalmIs, FoldersAre DEF WayCalm, WayInv, Calm, Base, TypeOK, CrashInv, AtHome

\* The version in use is kept under its own revision.
LEMMA MoveOutWay == ASSUME NEW r, WayCalm(r), MoveOut PROVE Way(r)' /\ pc' \notin Discards
<1>1. pc = "moveOut" /\ CurrentRevision = r /\ repairing = NoPath
  BY WayIs, TaskPaths, PathsAre DEF WayCalm, Calm, MoveOut, Rename, Base, PlacesInv,
       Updates, Holding, CurrentRevision, Way, Has, Before, None, CrashInv, Journals,
       InUpdate, InRepair, Open
<1>2. UNCHANGED <<repairing, strict, former>>
  BY DEF MoveOut, Rename, FileStep
<1>3. \/ /\ pc' = "moveIn"
         /\ disk'[Home] = Nothing
         /\ disk'[Previous(r)] = disk[Home]
         /\ disk'[Staging] = disk[Staging]
         /\ disk'[Discard] = disk[Discard]
         /\ disk'[Parking] = disk[Parking]
      \/ pc' = "endUpdate" /\ UNCHANGED disk
  BY <1>1, RenameIs, FoldersAre, WayIs, NoFault DEF WayCalm, Calm, MoveOut, Goto
<1>4. CASE /\ pc' = "moveIn"
           /\ disk'[Home] = Nothing
           /\ disk'[Previous(r)] = disk[Home]
           /\ disk'[Staging] = disk[Staging]
           /\ disk'[Discard] = disk[Discard]
           /\ disk'[Parking] = disk[Parking]
  <2>1. /\ ~Exists(Home)' /\ ~Has(Home, r)'
        /\ (Exists(Previous(r))' <=> Exists(Home)) /\ (Has(Previous(r), r)' <=> Has(Home, r)) /\ disk'[Previous(r)].rev = disk[Home].rev
        /\ (Exists(Staging)' <=> Exists(Staging)) /\ (Has(Staging, r)' <=> Has(Staging, r)) /\ disk'[Staging].rev = disk[Staging].rev
        /\ (Exists(Discard)' <=> Exists(Discard)) /\ (Has(Discard, r)' <=> Has(Discard, r)) /\ disk'[Discard].rev = disk[Discard].rev
        /\ (Exists(Parking)' <=> Exists(Parking)) /\ (Has(Parking, r)' <=> Has(Parking, r)) /\ disk'[Parking].rev = disk[Parking].rev
    BY <1>2, <1>4, HasIs, AbsentHas
  <2>2. QED BY <1>1, <1>2, <1>4, <2>1, WayIs, AbsentHas DEF Way, Discards, Before, Replaces
<1>5. CASE pc' = "endUpdate" /\ UNCHANGED disk
  <2>1. /\ (Exists(Home)' <=> Exists(Home)) /\ (Has(Home, r)' <=> Has(Home, r)) /\ disk'[Home].rev = disk[Home].rev
        /\ (Exists(Staging)' <=> Exists(Staging)) /\ (Has(Staging, r)' <=> Has(Staging, r)) /\ disk'[Staging].rev = disk[Staging].rev
        /\ (Exists(Discard)' <=> Exists(Discard)) /\ (Has(Discard, r)' <=> Has(Discard, r)) /\ disk'[Discard].rev = disk[Discard].rev
        /\ (Exists(Parking)' <=> Exists(Parking)) /\ (Has(Parking, r)' <=> Has(Parking, r)) /\ disk'[Parking].rev = disk[Parking].rev
        /\ (Exists(Previous(r))' <=> Exists(Previous(r))) /\ (Has(Previous(r), r)' <=> Has(Previous(r), r)) /\ disk'[Previous(r)].rev = disk[Previous(r)].rev
    BY <1>2, <1>5, HasIs
  <2>2. QED BY <1>1, <1>2, <1>5, <2>1, WayIs, AbsentHas DEF Way, Discards, Before, Replaces
<1>6. QED BY <1>3, <1>4, <1>5

\* The version that was in use stays kept.
LEMMA MoveInWay == ASSUME NEW r, WayCalm(r), MoveIn PROVE Way(r)' /\ pc' \notin Discards
<1>1. pc = "moveIn" /\ repairing = NoPath /\ ~Exists(Home)
  BY WayIs, TaskPaths, PathsAre DEF WayCalm, Calm, MoveIn, Rename, Base, PlacesInv,
       Updates, Holding, None, WayIsFree, CrashInv, Journals, InUpdate, InRepair, Open
<1>2. UNCHANGED <<repairing, strict, former>>
  BY DEF MoveIn, Rename, FileStep
<1>3. /\ pc' = "endUpdate"
      /\ disk'[Staging] = Nothing
      /\ disk'[Home] = disk[Staging]
      /\ disk'[Discard] = disk[Discard]
      /\ disk'[Parking] = disk[Parking]
      /\ disk'[Previous(r)] = disk[Previous(r)]
  BY <1>1, RenameIs, FoldersAre, WayIs, NoFault DEF WayCalm, Calm, MoveIn, Goto, CrashInv,
       WayIsFree
<1>4. /\ ~Exists(Staging)' /\ ~Has(Staging, r)'
      /\ (Exists(Home)' <=> Exists(Staging)) /\ (Has(Home, r)' <=> Has(Staging, r)) /\ disk'[Home].rev = disk[Staging].rev
      /\ (Exists(Discard)' <=> Exists(Discard)) /\ (Has(Discard, r)' <=> Has(Discard, r)) /\ disk'[Discard].rev = disk[Discard].rev
      /\ (Exists(Parking)' <=> Exists(Parking)) /\ (Has(Parking, r)' <=> Has(Parking, r)) /\ disk'[Parking].rev = disk[Parking].rev
      /\ (Exists(Previous(r))' <=> Exists(Previous(r))) /\ (Has(Previous(r), r)' <=> Has(Previous(r), r)) /\ disk'[Previous(r)].rev = disk[Previous(r)].rev
  BY <1>2, <1>3, HasIs, AbsentHas
<1>5. QED BY <1>1, <1>2, <1>3, <1>4, WayIs, AbsentHas DEF Way, Discards, Before, Replaces

\* The version in use is parked.
LEMMA ParkWay == ASSUME NEW r, WayCalm(r), Park PROVE Way(r)' /\ pc' \notin Discards
<1>1. pc = "park" /\ repairing = NoPath /\ Has(Home, r)
  BY WayIs, TaskPaths, PathsAre DEF WayCalm, Calm, Park, Rename, Base, PlacesInv, Updates,
       Holding, Way, Before, CrashInv, Journals, InUpdate, InRepair, Open
<1>2. UNCHANGED <<repairing, strict, former>>
  BY DEF Park, Rename, FileStep
<1>3. /\ pc' = "restore"
      /\ disk'[Home] = Nothing
      /\ disk'[Parking] = disk[Home]
      /\ disk'[Staging] = disk[Staging]
      /\ disk'[Discard] = disk[Discard]
      /\ disk'[Previous(r)] = disk[Previous(r)]
  BY <1>1, RenameIs, FoldersAre, WayIs, NoFault DEF WayCalm, Calm, Park, Goto, CrashInv,
       WayIsFree
<1>4. /\ ~Exists(Home)' /\ ~Has(Home, r)'
      /\ (Exists(Parking)' <=> Exists(Home)) /\ (Has(Parking, r)' <=> Has(Home, r)) /\ disk'[Parking].rev = disk[Home].rev
      /\ (Exists(Staging)' <=> Exists(Staging)) /\ (Has(Staging, r)' <=> Has(Staging, r)) /\ disk'[Staging].rev = disk[Staging].rev
      /\ (Exists(Discard)' <=> Exists(Discard)) /\ (Has(Discard, r)' <=> Has(Discard, r)) /\ disk'[Discard].rev = disk[Discard].rev
      /\ (Exists(Previous(r))' <=> Exists(Previous(r))) /\ (Has(Previous(r), r)' <=> Has(Previous(r), r)) /\ disk'[Previous(r)].rev = disk[Previous(r)].rev
  BY <1>2, <1>3, HasIs, AbsentHas
<1>5. QED BY <1>1, <1>2, <1>3, <1>4, WayIs, AbsentHas DEF Way, Discards, Before, Replaces

\* It stays parked while the kept one takes its place.
LEMMA RestoreWay == ASSUME NEW r, WayCalm(r), Restore PROVE Way(r)' /\ pc' \notin Discards
<1>1. pc = "restore" /\ repairing = NoPath /\ task.kept \in Revisions /\ Exists(Parking)
  BY WayIs, TaskPaths, PathsAre DEF WayCalm, Calm, Restore, Rename, Base, PlacesInv,
       Updates, Holding, CrashInv, Journals, InUpdate, InRepair, Open
<1>2. UNCHANGED <<repairing, strict, former>>
  BY DEF Restore, Rename, FileStep
<1>3. /\ pc' = "check"
      /\ disk'[Previous(task.kept)] = Nothing
      /\ disk'[Home] = disk[Previous(task.kept)]
      /\ disk'[Staging] = disk[Staging]
      /\ disk'[Discard] = disk[Discard]
      /\ disk'[Parking] = disk[Parking]
  BY <1>1, RenameIs, FoldersAre, WayIs, NoFault DEF WayCalm, Calm, Restore, Goto,
       CrashInv, WayIsFree
<1>4. /\ (Exists(Home)' <=> Exists(Previous(task.kept))) /\ (Has(Home, r)' <=> Has(Previous(task.kept), r)) /\ disk'[Home].rev = disk[Previous(task.kept)].rev
      /\ (Exists(Staging)' <=> Exists(Staging)) /\ (Has(Staging, r)' <=> Has(Staging, r)) /\ disk'[Staging].rev = disk[Staging].rev
      /\ (Exists(Discard)' <=> Exists(Discard)) /\ (Has(Discard, r)' <=> Has(Discard, r)) /\ disk'[Discard].rev = disk[Discard].rev
      /\ (Exists(Parking)' <=> Exists(Parking)) /\ (Has(Parking, r)' <=> Has(Parking, r)) /\ disk'[Parking].rev = disk[Parking].rev
  BY <1>2, <1>3, HasIs, AbsentHas
<1>5. QED BY <1>1, <1>2, <1>3, <1>4, WayIs, AbsentHas DEF Way, Discards, Before, Replaces

\* It stays parked while the kept one goes back.
LEMMA UnrestoreWay == ASSUME NEW r, WayCalm(r), Unrestore PROVE Way(r)' /\ pc' \notin Discards
<1>1. pc = "unrestore" /\ repairing = NoPath /\ task.kept \in Revisions /\ Exists(Parking)
  BY WayIs, TaskPaths, PathsAre DEF WayCalm, Calm, Unrestore, Rename, Base, PlacesInv,
       Updates, Holding, CrashInv, Journals, InUpdate, InRepair, Open
<1>2. UNCHANGED <<repairing, strict, former>>
  BY DEF Unrestore, Rename, FileStep
<1>3. /\ pc' = "unpark"
      /\ disk'[Home] = Nothing
      /\ disk'[Previous(task.kept)] = disk[Home]
      /\ disk'[Staging] = disk[Staging]
      /\ disk'[Discard] = disk[Discard]
      /\ disk'[Parking] = disk[Parking]
  BY <1>1, RenameIs, FoldersAre, WayIs, NoFault DEF WayCalm, Calm, Unrestore, Goto,
       CrashInv, WayIsFree
<1>4. /\ ~Exists(Home)' /\ ~Has(Home, r)'
      /\ (Exists(Staging)' <=> Exists(Staging)) /\ (Has(Staging, r)' <=> Has(Staging, r)) /\ disk'[Staging].rev = disk[Staging].rev
      /\ (Exists(Discard)' <=> Exists(Discard)) /\ (Has(Discard, r)' <=> Has(Discard, r)) /\ disk'[Discard].rev = disk[Discard].rev
      /\ (Exists(Parking)' <=> Exists(Parking)) /\ (Has(Parking, r)' <=> Has(Parking, r)) /\ disk'[Parking].rev = disk[Parking].rev
  BY <1>2, <1>3, HasIs, AbsentHas
<1>5. QED BY <1>1, <1>2, <1>3, <1>4, WayIs, AbsentHas DEF Way, Discards, Before, Replaces

\* The parked version takes its place again.
LEMMA UnparkWay == ASSUME NEW r, WayCalm(r), Unpark PROVE Way(r)' /\ pc' \notin Discards
<1>1. pc = "unpark" /\ repairing = NoPath /\ Exists(Parking)
  BY WayIs, TaskPaths, PathsAre DEF WayCalm, Calm, Unpark, Rename, Base, PlacesInv,
       Updates, Holding, CrashInv, Journals, InUpdate, InRepair, Open
<1>2. UNCHANGED <<repairing, strict, former>>
  BY DEF Unpark, Rename, FileStep
<1>3. /\ pc' = "idle"
      /\ disk'[Parking] = Nothing
      /\ disk'[Home] = disk[Parking]
      /\ disk'[Staging] = disk[Staging]
      /\ disk'[Discard] = disk[Discard]
      /\ disk'[Previous(r)] = disk[Previous(r)]
  BY <1>1, RenameIs, FoldersAre, WayIs, NoFault DEF WayCalm, Calm, Unpark, Goto, CrashInv,
       WayIsFree
<1>4. /\ ~Exists(Parking)' /\ ~Has(Parking, r)'
      /\ (Exists(Home)' <=> Exists(Parking)) /\ (Has(Home, r)' <=> Has(Parking, r)) /\ disk'[Home].rev = disk[Parking].rev
      /\ (Exists(Staging)' <=> Exists(Staging)) /\ (Has(Staging, r)' <=> Has(Staging, r)) /\ disk'[Staging].rev = disk[Staging].rev
      /\ (Exists(Discard)' <=> Exists(Discard)) /\ (Has(Discard, r)' <=> Has(Discard, r)) /\ disk'[Discard].rev = disk[Discard].rev
      /\ (Exists(Previous(r))' <=> Exists(Previous(r))) /\ (Has(Previous(r), r)' <=> Has(Previous(r), r)) /\ disk'[Previous(r)].rev = disk[Previous(r)].rev
  BY <1>2, <1>3, HasIs, AbsentHas
<1>5. QED BY <1>1, <1>2, <1>3, <1>4, WayIs, AbsentHas DEF Way, Discards, Before, Replaces

\* The parked version is kept under its own revision.
LEMMA KeepWay == ASSUME NEW r, WayCalm(r), Keep PROVE Way(r)' /\ pc' \notin Discards
<1>1. pc = "keep" /\ repairing = NoPath /\ disk[Parking].rev = r /\ Has(Parking, r)
  BY WayIs, TaskPaths, PathsAre DEF WayCalm, Calm, Keep, Rename, Base, PlacesInv, Updates,
       Holding, Way, Has, CrashInv, Journals, InUpdate, InRepair, Open
<1>2. UNCHANGED <<repairing, strict, former>>
  BY DEF Keep, Rename, FileStep
<1>3. \/ /\ pc' = "idle"
         /\ disk'[Parking] = Nothing
         /\ disk'[Previous(r)] = disk[Parking]
         /\ disk'[Home] = disk[Home]
         /\ disk'[Staging] = disk[Staging]
         /\ disk'[Discard] = disk[Discard]
      \/ pc' = "idle" /\ UNCHANGED disk
  BY <1>1, RenameIs, FoldersAre, WayIs, NoFault DEF WayCalm, Calm, Keep, Goto
<1>4. CASE /\ pc' = "idle"
           /\ disk'[Parking] = Nothing
           /\ disk'[Previous(r)] = disk[Parking]
           /\ disk'[Home] = disk[Home]
           /\ disk'[Staging] = disk[Staging]
           /\ disk'[Discard] = disk[Discard]
  <2>1. /\ ~Exists(Parking)' /\ ~Has(Parking, r)'
        /\ (Exists(Previous(r))' <=> Exists(Parking)) /\ (Has(Previous(r), r)' <=> Has(Parking, r)) /\ disk'[Previous(r)].rev = disk[Parking].rev
        /\ (Exists(Home)' <=> Exists(Home)) /\ (Has(Home, r)' <=> Has(Home, r)) /\ disk'[Home].rev = disk[Home].rev
        /\ (Exists(Staging)' <=> Exists(Staging)) /\ (Has(Staging, r)' <=> Has(Staging, r)) /\ disk'[Staging].rev = disk[Staging].rev
        /\ (Exists(Discard)' <=> Exists(Discard)) /\ (Has(Discard, r)' <=> Has(Discard, r)) /\ disk'[Discard].rev = disk[Discard].rev
    BY <1>2, <1>4, HasIs, AbsentHas
  <2>2. QED BY <1>1, <1>2, <1>4, <2>1, WayIs, AbsentHas DEF Way, Discards, Before, Replaces
<1>5. CASE pc' = "idle" /\ UNCHANGED disk
  <2>1. /\ (Exists(Home)' <=> Exists(Home)) /\ (Has(Home, r)' <=> Has(Home, r)) /\ disk'[Home].rev = disk[Home].rev
        /\ (Exists(Staging)' <=> Exists(Staging)) /\ (Has(Staging, r)' <=> Has(Staging, r)) /\ disk'[Staging].rev = disk[Staging].rev
        /\ (Exists(Discard)' <=> Exists(Discard)) /\ (Has(Discard, r)' <=> Has(Discard, r)) /\ disk'[Discard].rev = disk[Discard].rev
        /\ (Exists(Parking)' <=> Exists(Parking)) /\ (Has(Parking, r)' <=> Has(Parking, r)) /\ disk'[Parking].rev = disk[Parking].rev
        /\ (Exists(Previous(r))' <=> Exists(Previous(r))) /\ (Has(Previous(r), r)' <=> Has(Previous(r), r)) /\ disk'[Previous(r)].rev = disk[Previous(r)].rev
    BY <1>2, <1>5, HasIs
  <2>2. QED BY <1>1, <1>2, <1>5, <2>1, WayIs, AbsentHas DEF Way, Discards, Before, Replaces
<1>6. QED BY <1>3, <1>4, <1>5

\* The staging folder and the discarded one have the same revision.
LEMMA DamagedOutWay == ASSUME NEW r, WayCalm(r), DamagedOut PROVE Way(r)' /\ pc' \notin Discards
<1>1. pc = "damagedOut" /\ repairing # NoPath /\ Exists(Home)
  BY WayIs, TaskPaths, PathsAre DEF WayCalm, Calm, DamagedOut, Rename, Base, PlacesInv,
       Updates, Holding, CrashInv, Journals, InUpdate, InRepair, Open, StagedInv
<1>2. UNCHANGED <<repairing, strict, former>>
  BY DEF DamagedOut, Rename, FileStep
<1>3. /\ pc' = "repairedIn"
      /\ disk'[Home] = Nothing
      /\ disk'[Discard] = disk[Home]
      /\ disk'[Staging] = disk[Staging]
      /\ disk'[Parking] = disk[Parking]
      /\ disk'[Previous(r)] = disk[Previous(r)]
  BY <1>1, RenameIs, FoldersAre, WayIs, NoFault DEF WayCalm, Calm, DamagedOut, Goto,
       CrashInv, WayIsFree
<1>4. /\ ~Exists(Home)' /\ ~Has(Home, r)'
      /\ (Exists(Discard)' <=> Exists(Home)) /\ (Has(Discard, r)' <=> Has(Home, r)) /\ disk'[Discard].rev = disk[Home].rev
      /\ (Exists(Staging)' <=> Exists(Staging)) /\ (Has(Staging, r)' <=> Has(Staging, r)) /\ disk'[Staging].rev = disk[Staging].rev
      /\ (Exists(Parking)' <=> Exists(Parking)) /\ (Has(Parking, r)' <=> Has(Parking, r)) /\ disk'[Parking].rev = disk[Parking].rev
      /\ (Exists(Previous(r))' <=> Exists(Previous(r))) /\ (Has(Previous(r), r)' <=> Has(Previous(r), r)) /\ disk'[Previous(r)].rev = disk[Previous(r)].rev
  BY <1>2, <1>3, HasIs, AbsentHas
<1>5. QED BY <1>1, <1>2, <1>3, <1>4, WayIs, AbsentHas DEF Way, Discards, Before, Replaces

\* The repaired package has the revision of the one it replaces.
LEMMA RepairedInWay == ASSUME NEW r, WayCalm(r), RepairedIn PROVE Way(r)' /\ pc' \notin Discards
<1>1. pc = "repairedIn" /\ repairing # NoPath /\ disk[Staging].rev = r /\ ~Exists(Home) /\ Exists(Staging)
  BY WayIs, TaskPaths, PathsAre, KnownExists DEF WayCalm, Calm, RepairedIn, Rename, Base,
       PlacesInv, Updates, Holding, Way, Replaces, WayIsFree, AllKnown, CrashInv,
       Journals, InUpdate, InRepair, Open
<1>2. UNCHANGED <<repairing, strict, former>>
  BY DEF RepairedIn, Rename, FileStep
<1>3. /\ pc' = "endRepair"
      /\ disk'[Staging] = Nothing
      /\ disk'[Home] = disk[Staging]
      /\ disk'[Discard] = disk[Discard]
      /\ disk'[Parking] = disk[Parking]
      /\ disk'[Previous(r)] = disk[Previous(r)]
  BY <1>1, RenameIs, FoldersAre, WayIs, NoFault DEF WayCalm, Calm, RepairedIn, Goto,
       CrashInv, WayIsFree
<1>4. /\ ~Exists(Staging)' /\ ~Has(Staging, r)'
      /\ (Exists(Home)' <=> Exists(Staging)) /\ (Has(Home, r)' <=> Has(Staging, r)) /\ disk'[Home].rev = disk[Staging].rev
      /\ (Exists(Discard)' <=> Exists(Discard)) /\ (Has(Discard, r)' <=> Has(Discard, r)) /\ disk'[Discard].rev = disk[Discard].rev
      /\ (Exists(Parking)' <=> Exists(Parking)) /\ (Has(Parking, r)' <=> Has(Parking, r)) /\ disk'[Parking].rev = disk[Parking].rev
      /\ (Exists(Previous(r))' <=> Exists(Previous(r))) /\ (Has(Previous(r), r)' <=> Has(Previous(r), r)) /\ disk'[Previous(r)].rev = disk[Previous(r)].rev
  BY <1>2, <1>3, HasIs, AbsentHas
<1>5. QED BY <1>1, <1>2, <1>3, <1>4, WayIs, AbsentHas DEF Way, Discards, Before, Replaces

\* An old discarded folder is deleted while the package is in its place.
LEMMA ClearDiscardWay == ASSUME NEW r, WayCalm(r), ClearDiscard PROVE Way(r)' /\ pc' \notin Discards
<1>1. pc = "clearDiscard" /\ repairing # NoPath /\ Exists(Home)
  BY WayIs DEF WayCalm, Calm, ClearDiscard, DeleteOrFail, Delete, CrashInv, Journals,
       StagedInv, InRepair, InUpdate, Open
<1>2. UNCHANGED <<repairing, strict, former>> /\ pc' \in {"clearDiscard", "damagedOut"}
      /\ disk'[Home] = disk[Home]
      /\ disk'[Staging] = disk[Staging]
      /\ disk'[Parking] = disk[Parking]
      /\ disk'[Previous(r)] = disk[Previous(r)]
  BY <1>1, DeleteOrFailIs, FoldersAre, WayIs, NoFault DEF WayCalm, Calm, ClearDiscard, Goto
<1>3. QED BY <1>1, <1>2, WayIs, HasIs DEF Way, Discards, Before, Replaces

\* The repaired package is in its place.
LEMMA DeleteDiscardWay == ASSUME NEW r, WayCalm(r), DeleteDiscard PROVE Way(r)' /\ pc' \notin Discards
<1>1. pc = "deleteDiscard" /\ repairing = NoPath
  BY WayIs DEF WayCalm, Calm, DeleteDiscard, DeleteOrFail, Delete, CrashInv, Journals,
       StagedInv, InRepair, InUpdate, Open
<1>2. UNCHANGED <<repairing, strict, former>> /\ pc' \in {"deleteDiscard", "idle"}
      /\ disk'[Home] = disk[Home]
      /\ disk'[Staging] = disk[Staging]
      /\ disk'[Parking] = disk[Parking]
      /\ disk'[Previous(r)] = disk[Previous(r)]
  BY <1>1, DeleteOrFailIs, FoldersAre, WayIs, NoFault DEF WayCalm, Calm, DeleteDiscard, Goto
<1>3. QED BY <1>1, <1>2, WayIs, HasIs DEF Way, Discards, Before, Replaces

\* A journal moves no folder.
LEMMA WriteJournalWay == ASSUME NEW r, WayCalm(r), WriteJournal PROVE Way(r)' /\ pc' \notin Discards
<1>1. pc = "writeJournal"
  BY WayIs DEF WayCalm, Calm, WriteJournal, UpdateJournal, Journal
<1>2. repairing' = repairing /\ UNCHANGED <<disk, strict, former>> /\ pc' \in {"moveOut"}
  BY <1>1, WayIs, NoFault DEF WayCalm, Calm, WriteJournal, UpdateJournal, Journal, Goto,
       historyVars
<1>3. QED BY <1>1, <1>2, WayIs, HasIs DEF Way, Discards, Before, Replaces

\* Where the folders are is what counts once the journal is gone.
LEMMA RemoveJournalWay == ASSUME NEW r, WayCalm(r), RemoveJournal PROVE Way(r)' /\ pc' \notin Discards
<1>1. pc = "endUpdate"
  BY WayIs DEF WayCalm, Calm, RemoveJournal, UpdateJournal, Journal
<1>2. repairing' = repairing /\ UNCHANGED <<disk, strict, former>> /\ pc' \in {"idle"}
  BY <1>1, WayIs, NoFault DEF WayCalm, Calm, RemoveJournal, UpdateJournal, Journal, Goto,
       historyVars
<1>3. QED BY <1>1, <1>2, WayIs, HasIs DEF Way, Discards, Before, Replaces

\* From here on the package may lack files, but not its revision.
LEMMA StartRepairWay == ASSUME NEW r, WayCalm(r), StartRepair PROVE Way(r)' /\ pc' \notin Discards
<1>1. pc = "startRepair" /\ Has(Home, r) /\ Exists(Home) /\ disk[Home].rev = r
  BY WayIs DEF WayCalm, Calm, StartRepair, RepairJournal, Journal, Way, Has, Before, Base,
       PlacesInv, Holding
<1>2. repairing' = Home /\ UNCHANGED <<disk, strict, former>> /\ pc' \in {"gather"}
  BY <1>1, WayIs, NoFault DEF WayCalm, Calm, StartRepair, RepairJournal, Journal, Goto,
       historyVars
<1>3. QED BY <1>1, <1>2, WayIs, HasIs DEF Way, Discards, Before, Replaces

\* The repaired package is whole.
LEMMA EndRepairWay == ASSUME NEW r, WayCalm(r), EndRepair PROVE Way(r)' /\ pc' \notin Discards
<1>1. pc = "endRepair" /\ repairing = Home /\ Exists(Home) /\ AllGood(Home) /\ Identified(Home)
  BY WayIs DEF WayCalm, Calm, EndRepair, RepairJournal, Journal, CrashInv, StagedInv,
       RepairInv, Journals, InRepair
<1>2. Has(Home, r)
  BY <1>1, WayIs, FilesAre DEF Way, Has, Validates, Identified, AllGood, Present
<1>3. repairing' = NoPath /\ UNCHANGED <<disk, strict, former>> /\ pc' = "deleteDiscard"
  BY <1>1, WayIs, NoFault DEF WayCalm, Calm, EndRepair, RepairJournal, Journal, Goto,
       historyVars
<1>4. QED BY <1>1, <1>2, <1>3, WayIs, HasIs DEF Way, Discards, Before, Replaces

\* A check moves no folder.
LEMMA CheckRestoredWay == ASSUME NEW r, WayCalm(r), CheckRestored PROVE Way(r)' /\ pc' \notin Discards
<1>1. pc = "check"
  BY WayIs DEF WayCalm, Calm, CheckRestored, Step
<1>2. repairing' = repairing /\ UNCHANGED <<disk, strict, former>> /\ pc' \in {"keep", "unrestore"}
  BY <1>1, WayIs, NoFault DEF WayCalm, Calm, CheckRestored, Step, Goto, historyVars
<1>3. QED BY <1>1, <1>2, WayIs, HasIs DEF Way, Discards, Before, Replaces

\* Nothing moves.
LEMMA QuitWay == ASSUME NEW r, WayCalm(r), Quit PROVE Way(r)' /\ pc' \notin Discards
<1>1. pc = "idle"
  BY WayIs DEF WayCalm, Calm, Quit, Step
<1>2. repairing' = repairing /\ UNCHANGED <<disk, strict, former>> /\ pc' \in {"down"}
  BY <1>1, WayIs, NoFault DEF WayCalm, Calm, Quit, Step, Goto, historyVars
<1>3. QED BY <1>1, <1>2, WayIs, HasIs DEF Way, Discards, Before, Replaces

\* A newer host changes no folder.
LEMMA StartWay == ASSUME NEW r, WayCalm(r), Start PROVE Way(r)' /\ pc' \notin Discards
<1>1. pc = "down"
  BY WayIs DEF WayCalm, Calm, Start, Base
<1>2. repairing' = repairing /\ UNCHANGED <<disk, strict, former>> /\ pc' \in {"sweep"}
  BY <1>1, WayIs, NoFault DEF WayCalm, Calm, Start, Base, Goto, historyVars
<1>3. QED BY <1>1, <1>2, WayIs, HasIs DEF Way, Discards, Before, Replaces

\* Nothing is parked, so the version is installed or kept.
LEMMA RecoveredWay == ASSUME NEW r, WayCalm(r), Recovered PROVE Way(r)' /\ pc' \notin Discards
<1>1. pc = "revert"
  BY WayIs DEF WayCalm, Calm, Recovered, Step
<1>2. repairing' = repairing /\ UNCHANGED <<disk, strict, former>> /\ pc' \in {"idle"}
  BY <1>1, WayIs, NoFault DEF WayCalm, Calm, Recovered, Step, Goto, historyVars
<1>3. QED BY <1>1, <1>2, WayIs, HasIs DEF Way, Discards, Before, Replaces

\* Kept versions go while the version in use is in its place.
LEMMA DropPreviousWay == ASSUME NEW r, WayCalm(r), DropPrevious PROVE Way(r)' /\ pc' \notin Discards
<1>1. /\ pc = "dropPrevious" /\ repairing = NoPath /\ Has(Home, r) /\ task.doomed \subseteq Revisions
      /\ UNCHANGED <<repairing, strict>>
  BY WayIs DEF WayCalm, Calm, Base, TypeOK, DropPrevious, Step, DeleteOrFail, Delete,
       FileStep, CrashInv, Journals, InRepair, Open, Way, Before
<1>2. /\ disk'[Home] = disk[Home] /\ disk'[Parking] = disk[Parking]
      /\ pc' \in {"writeJournal", "idle", "dropPrevious"}
  <2>1. CASE Step("dropPrevious", IF task.op = "update" THEN "writeJournal" ELSE "idle")
    BY <2>1 DEF Step, Goto
  <2>2. ASSUME NEW v \in task.doomed, DeleteOrFail("dropPrevious", Previous(v), "dropPrevious", "idle")
        PROVE  disk'[Home] = disk[Home] /\ disk'[Parking] = disk[Parking] /\ pc' = "dropPrevious"
    BY <1>1, <2>2, DeleteOrFailIs, FoldersAre, WayIs, NoFault DEF WayCalm, Calm, Goto
  <2>3. QED BY <2>1, <2>2 DEF DropPrevious
<1>3. /\ (Exists(Home)' <=> Exists(Home)) /\ (Has(Home, r)' <=> Has(Home, r))
      /\ (Exists(Parking)' <=> Exists(Parking)) /\ (Has(Parking, r)' <=> Has(Parking, r))
  BY <1>1, <1>2, HasIs
<1>4. QED BY <1>1, <1>2, <1>3, WayIs DEF Way, Discards, Before, Replaces

\* Files move; the two folders keep the revision they both have.
LEMMA GatherWay == ASSUME NEW r, WayCalm(r), Gather PROVE Way(r)' /\ pc' \notin Discards
<1>1. /\ pc = "gather" /\ repairing = Home /\ UNCHANGED <<repairing, strict>> /\ pc' \in {"gather", "assemble"}
      /\ Exists(Home) /\ disk[Home].rev = r /\ disk[Staging].rev = r
      /\ UNCHANGED disk \/ \E a \in Assets : Carried(a, Home, Staging)
  BY WayIs, NoFault DEF WayCalm, Calm, Gather, FileStep, Goto, Carried, CrashInv,
       Journals, StagedInv, InRepair, Way, Replaces
<1>2. disk'[Home].rev = r /\ disk'[Staging].rev = r /\ disk'[Parking] = disk[Parking]
  BY <1>1, CarriedIs, FoldersAre, FilesAre, WayIs
<1>3. Exists(Home)'
  BY <1>2, WayIs, NothingIs DEF Exists
<1>4. (Exists(Parking)' <=> Exists(Parking)) /\ (Has(Parking, r)' <=> Has(Parking, r))
  BY <1>1, <1>2, HasIs
<1>5. QED BY <1>1, <1>2, <1>3, <1>4, WayIs DEF Way, Discards, Before, Replaces

\* Writing the manifest leaves the revision of the staged package as it is.
LEMMA AssembleWay == ASSUME NEW r, WayCalm(r), Assemble PROVE Way(r)' /\ pc' \notin Discards
<1>1. /\ pc = "assemble" /\ repairing = Home /\ UNCHANGED <<repairing, strict>> /\ pc' = "clearDiscard"
      /\ Exists(Home) /\ disk[Home].rev = r /\ disk[Staging].rev = r
      /\ disk' = [disk EXCEPT ![Staging].files[Manifest] = "good"]
  BY WayIs, NoFault DEF WayCalm, Calm, Assemble, FileStep, Goto, CrashInv, Journals,
       StagedInv, InRepair, Way, Replaces
<1>2. disk'[Home] = disk[Home] /\ disk'[Staging].rev = r /\ disk'[Parking] = disk[Parking]
  BY <1>1, WrittenIs, FoldersAre, FilesAre, WayIs
<1>3. /\ Exists(Home)' <=> Exists(Home)
      /\ (Exists(Parking)' <=> Exists(Parking)) /\ (Has(Parking, r)' <=> Has(Parking, r))
  BY <1>1, <1>2, HasIs
<1>4. QED BY <1>1, <1>2, <1>3, WayIs DEF Way, Discards, Before, Replaces

\* What the next step finds as this one found it.
LEMMA WayStays ==
  ASSUME NEW r, WayCalm(r), repairing = NoPath, UNCHANGED <<repairing, strict>>,
         disk'[Home] = disk[Home], disk'[Parking] = disk[Parking], disk'[Previous(r)] = disk[Previous(r)],
         pc' \notin Discards \cup Before \cup Replaces
  PROVE  Way(r)' /\ pc' \notin Discards
<1>1. /\ (Exists(Home)' <=> Exists(Home)) /\ (Has(Home, r)' <=> Has(Home, r))
      /\ (Exists(Parking)' <=> Exists(Parking)) /\ (Has(Parking, r)' <=> Has(Parking, r))
      /\ (Has(Previous(r), r)' <=> Has(Previous(r), r))
  BY HasIs
<1>2. QED BY <1>1, WayIs DEF Way

\* A download touches the staging folder alone.
LEMMA DownloadFailsWay == ASSUME NEW r, WayCalm(r), DownloadFails PROVE Way(r)' /\ pc' \notin Discards
<1>1. pc = "idle" /\ repairing = NoPath /\ UNCHANGED <<repairing, strict, pc>>
  BY DEF DownloadFails, WayCalm, Calm, CrashInv, Journals, InRepair, Open
<1>2. disk'[Home] = disk[Home] /\ disk'[Parking] = disk[Parking] /\ disk'[Previous(r)] = disk[Previous(r)]
  <2>1. PICK S \in SUBSET Assets : disk' = [disk EXCEPT ![Staging] = Staged(catalogue, S)]
    BY DEF DownloadFails
  <2>2. Staged(catalogue, S) \in Folder
    BY StagedIs, FilesAre DEF WayCalm, Calm, Base, TypeOK
  <2>3. QED BY <2>1, <2>2, ReplacedIs, FoldersAre, WayIs
<1>3. QED BY <1>1, <1>2, WayStays DEF Discards, Before, Replaces

\* A crash moves no folder, and names none but the package in an empty repair journal.
LEMMA CrashWay == ASSUME NEW r, WayCalm(r), Crash PROVE Way(r)' /\ pc' \notin Discards
<1>1. /\ strict' = strict /\ pc' = "down"
      /\ \/ repairing' = repairing
         \/ pc = "startRepair" /\ repairing = NoPath /\ repairing' = Home /\ Has(Home, r)
  BY WayIs DEF Crash, WayCalm, Calm, CrashInv, Journals, InRepair, Open, Way, Before
<1>2. /\ disk'[Staging].rev = disk[Staging].rev
      /\ \A p \in {Home, Discard, Parking, Previous(r)} : disk'[p] = disk[p]
  <2>1. CASE UNCHANGED disk
    BY <2>1
  <2>2. CASE disk' = [disk EXCEPT ![Staging].files[Manifest] = "none"]
    BY <2>2, WrittenIs, FoldersAre, FilesAre, WayIs
  <2>3. QED BY <2>1, <2>2 DEF Crash
<1>3. /\ (Exists(Home)' <=> Exists(Home)) /\ (Has(Home, r)' <=> Has(Home, r))
      /\ (Exists(Parking)' <=> Exists(Parking)) /\ (Has(Parking, r)' <=> Has(Parking, r))
      /\ (Has(Previous(r), r)' <=> Has(Previous(r), r))
  BY <1>1, <1>2, HasIs
<1>4. QED BY <1>1, <1>2, <1>3, WayIs, AbsentHas DEF Way, Discards, Before, Replaces

\* No leftover of a removal is read.
LEMMA SweepWay == ASSUME NEW r, WayCalm(r), Sweep PROVE Way(r)' /\ pc' \notin Discards
<1>1. /\ UNCHANGED <<repairing, strict>> /\ pc' \in {"sweep", "recover"}
      /\ \A p \in {Home, Staging, Discard, Parking, Previous(r)} : disk'[p] = disk[p]
  BY SweepIs, UnreadIs, FoldersAre, PathsAre, WayIs DEF WayCalm, Calm
<1>2. /\ (Exists(Home)' <=> Exists(Home)) /\ (Has(Home, r)' <=> Has(Home, r))
      /\ (Exists(Parking)' <=> Exists(Parking)) /\ (Has(Parking, r)' <=> Has(Parking, r))
      /\ (Has(Previous(r), r)' <=> Has(Previous(r), r))
  BY <1>1, HasIs
<1>3. QED BY <1>1, <1>2, WayIs DEF Way, Discards, Before, Replaces

\* What was discarded is not needed once its repair has ended.
LEMMA DropDiscardWay == ASSUME NEW r, WayCalm(r), DropDiscard PROVE Way(r)' /\ pc' \notin Discards
<1>1. repairing = NoPath
  BY RepairsAreDone DEF DropDiscard, WayCalm, Calm
<1>2. CASE DeleteOrFail("recover", Discard, "revert", "revert")
  BY <1>1, <1>2, DeleteOrFailIs, FoldersAre, WayIs, NoFault, WayStays DEF WayCalm, Calm,
       Goto, Discards, Before, Replaces
<1>3. CASE Step("recover", "revert")
  BY <1>1, <1>3, WayStays DEF Step, Goto, Discards, Before, Replaces
<1>4. QED BY <1>2, <1>3 DEF DropDiscard

\* The new version takes the place, and the old stays kept, or takes it back.
LEMMA ResumeUpdateWay == ASSUME NEW r, WayCalm(r), pc = "recover", ResumeUpdate PROVE Way(r)' /\ pc' \notin Discards
<1>1. updating # None /\ repairing = NoPath /\ UNCHANGED <<repairing, strict>>
  BY DEF ResumeUpdate, ResumeRename, Rename, FileStep, UpdateJournal, Journal, WayCalm,
       Calm, CrashInv, Journals
<1>2. CASE ~Exists(Home) /\ ResumeRename(Staging, Home)
  <2>1. pc' = "recover" /\ disk'[Previous(r)] = disk[Previous(r)] /\ disk'[Parking] = disk[Parking]
    BY <1>2, RenameIs, FoldersAre, WayIs, NoFault DEF WayCalm, Calm, ResumeRename, Goto
  <2>2. /\ (Exists(Parking)' <=> Exists(Parking)) /\ (Has(Parking, r)' <=> Has(Parking, r))
        /\ (Has(Previous(r), r)' <=> Has(Previous(r), r)) /\ ~Has(Home, r)
    BY <1>1, <1>2, <2>1, HasIs, AbsentHas
  <2>3. QED BY <1>1, <2>1, <2>2, WayIs DEF Way, Discards, Before, Replaces
<1>3. ASSUME NEW v \in NamedPrevious, ~Exists(Home), ResumeRename(Previous(v), Home)
      PROVE  Way(r)' /\ pc' \notin Discards
  <2>1. /\ v \in Revisions /\ pc' = "recover" /\ disk'[Home] = disk[Previous(v)] /\ disk'[Parking] = disk[Parking]
        /\ v # r => disk'[Previous(r)] = disk[Previous(r)]
    BY <1>3, RenameIs, FoldersAre, PreviousDiffers, WayIs, NoFault DEF WayCalm, Calm,
         ResumeRename, Goto, NamedPrevious
  <2>2. /\ (Exists(Parking)' <=> Exists(Parking)) /\ (Has(Parking, r)' <=> Has(Parking, r))
        /\ (v # r => (Has(Previous(r), r)' <=> Has(Previous(r), r))) /\ ~Has(Home, r)
        /\ (v = r => (Has(Home, r)' <=> Has(Previous(r), r)))
    BY <1>1, <1>3, <2>1, HasIs, AbsentHas
  <2>3. QED BY <1>1, <2>1, <2>2, WayIs DEF Way, Discards, Before, Replaces
<1>4. CASE UpdateJournal("recover", None, "recover", "down")
  BY <1>1, <1>4, NoFault, WayStays DEF WayCalm, Calm, UpdateJournal, Journal, Goto,
       Discards, Before, Replaces
<1>5. QED BY <1>2, <1>3, <1>4 DEF ResumeUpdate

\* A repair that has put back what it took leaves a whole package.
LEMMA MendedIs ==
  ASSUME CrashInv, repairing = Home, Exists(Home), MissingIn(Home) = {}
  PROVE  Validates(Home)
<1>1. Present(Staging) \subseteq Present(Home)
  BY DEF MissingIn
<1>2. Identified(Home) /\ Assets \subseteq Good(Home) \cup Good(Staging)
  BY DEF CrashInv, RepairInv
<1>3. Assets \subseteq Present(Home)
  BY <1>1, <1>2, FilesAre DEF Good, Present
<1>4. QED BY <1>2, <1>3 DEF Validates, Identified

\* What is put back has the revision, and is whole when the journal ends.
LEMMA ResumeRepairWay == ASSUME NEW r, WayCalm(r), pc = "recover", ResumeRepair PROVE Way(r)' /\ pc' \notin Discards
<1>1. repairing = Home /\ strict' = strict
  BY WayIs DEF ResumeRepair, ResumeRename, Rename, PutBack, FileStep, RepairJournal, Journal
<1>2. ASSUME NEW from \in {Staging, Discard}, ~Exists(Home), ResumeRename(from, Home)
      PROVE  Way(r)' /\ pc' \notin Discards
  <2>1. /\ repairing' = repairing /\ pc' = "recover" /\ disk'[Home] = disk[from] /\ disk'[Parking] = disk[Parking]
    BY <1>2, RenameIs, FoldersAre, WayIs, NoFault DEF WayCalm, Calm, ResumeRename, Goto
  <2>2. disk[from].rev = r
    BY <1>1, <1>2, WayIs DEF Way
  <2>3. Exists(Home)' /\ (Exists(Parking)' <=> Exists(Parking)) /\ (Has(Parking, r)' <=> Has(Parking, r))
    BY <1>1, <2>1, <2>2, WayIs, NothingIs, HasIs DEF Exists
  <2>4. QED BY <1>1, <2>1, <2>2, <2>3, WayIs DEF Way, Discards, Before, Replaces
<1>3. CASE Exists(Home) /\ MissingIn(Home) # {} /\ PutBack("recover", Home, "recover", "down")
  <2>1. /\ Exists(Home)' /\ repairing' = repairing /\ pc' = "recover"
        /\ \E f \in Files : Carried(f, Staging, Home)
        /\ disk'[Parking] = disk[Parking]
    BY <1>3, PutBackIs, FoldersAre, WayIs, NoFault DEF WayCalm, Calm
  <2>2. disk'[Home].rev = disk[Home].rev
    BY <2>1, CarriedIs, FoldersAre, WayIs
  <2>3. (Exists(Parking)' <=> Exists(Parking)) /\ (Has(Parking, r)' <=> Has(Parking, r))
    BY <1>1, <2>1, HasIs
  <2>4. QED BY <1>1, <1>3, <2>1, <2>2, <2>3, WayIs DEF Way, Discards, Before, Replaces
<1>4. CASE Exists(Home) /\ MissingIn(Home) = {} /\ RepairJournal("recover", NoPath, "recover", "down")
  <2>1. UNCHANGED disk /\ pc' = "recover" /\ repairing' = NoPath
    BY <1>4, NoFault DEF WayCalm, Calm, RepairJournal, Journal, Goto
  <2>2. Has(Home, r)
    BY <1>1, <1>4, MendedIs, WayIs DEF Way, Has, WayCalm, Calm
  <2>3. /\ (Has(Home, r)' <=> Has(Home, r))
        /\ (Exists(Parking)' <=> Exists(Parking)) /\ (Has(Parking, r)' <=> Has(Parking, r))
    BY <1>1, <2>1, HasIs
  <2>4. QED BY <2>1, <2>2, <2>3, WayIs DEF Way, Discards, Before, Replaces
<1>5. QED BY <1>1, <1>2, <1>3, <1>4 DEF ResumeRepair

\* An older copy of the parked version goes only while that one is parked.
LEMMA ResumeRevertWay == ASSUME NEW r, WayCalm(r), ResumeRevert PROVE Way(r)' /\ pc' \notin Discards
<1>1. /\ pc = "revert" /\ repairing = NoPath /\ UNCHANGED <<repairing, strict>>
      /\ Exists(Parking) /\ Has(Parking, r) /\ Kept = Previous(r)
  BY WayIs, AbsentHas DEF ResumeRevert, DeleteOrFail, Delete, ResumeParked, Rename,
       FileStep, WayCalm, Calm, Kept,
     CrashInv, Journals, Way
<1>2. ASSUME disk'[Parking] = disk[Parking], pc' \in {"revert", "down"}
      PROVE  Way(r)' /\ pc' \notin Discards
  <2>1. Has(Parking, r)'
    BY <1>1, <1>2, HasIs
  <2>2. QED BY <1>1, <1>2, <2>1, WayIs DEF Way, Discards, Before, Replaces
<1>3. ASSUME NEW to \in {Home, Previous(r)}, disk'[to] = disk[Parking], disk'[Parking] = Nothing, pc' = "revert"
      PROVE  Way(r)' /\ pc' \notin Discards
  <2>1. Has(to, r)' /\ ~Exists(Parking)'
    BY <1>1, <1>3, HasIs, AbsentHas
  <2>2. QED BY <1>1, <1>3, <2>1, WayIs DEF Way, Discards, Before, Replaces
<1>4. CASE DeleteOrFail("revert", Kept, "revert", "down")
  BY <1>1, <1>2, <1>4, DeleteOrFailIs, FoldersAre, WayIs, NoFault DEF WayCalm, Calm, Goto
<1>5. ASSUME NEW to \in {Home, Previous(r)}, ResumeParked(Parking, to) PROVE Way(r)' /\ pc' \notin Discards
  <2>1. \/ disk'[to] = disk[Parking] /\ disk'[Parking] = Nothing /\ pc' = "revert"
        \/ disk'[Parking] = disk[Parking] /\ pc' = "down"
    BY <1>5, RenameIs, FoldersAre, WayIs DEF ResumeParked, Goto
  <2>2. QED BY <1>2, <1>3, <2>1
<1>6. CASE Exists(Home) /\ ResumeParked(Home, Previous(disk[Home].rev))
  <2> DEFINE to == Previous(disk[Home].rev)
  <2>1. to \in Paths /\ to \notin {Home, Parking}
    BY <1>6, TaskPaths, FoldersAre DEF WayCalm, Calm
  <2>2. ResumeParked(Home, to)
    BY <1>6
  <2> HIDE DEF to
  <2>3. QED BY <1>2, <2>1, <2>2, RenameIs, FoldersAre, WayIs DEF ResumeParked, Goto
<1>7. QED BY <1>1, <1>4, <1>5, <1>6 DEF ResumeRevert

\* The operations begin with the version in use in its place, and with nothing unfinished.
LEMMA BeginsWith ==
  ASSUME Calm, NEW first, NEW locals, NEW folders, NEW what, Begin(first, locals, folders, what)
  PROVE  /\ what = {} => former' = {}
         /\ \A r \in former' : /\ repairing = NoPath /\ ~Exists(Parking) /\ Has(Home, r)
                               /\ Discovered # {} /\ Damaged = {}
         /\ pc' = first /\ disk' = folders /\ UNCHANGED <<repairing, strict>>
<1>1. \A r \in former' : ~Unfinished /\ \E p \in Discovered : r = disk[p].rev
  BY DEF Begin
<1>2. \A p \in Discovered : p = Home /\ Validates(p)
  BY CalmIs DEF Calm, Discovered
<1>3. QED BY <1>1, <1>2 DEF Begin, Unfinished, Has, Damaged

\* An operation that leaves the package in its place keeps it for now.
LEMMA BegunWay ==
  ASSUME Calm, NEW first, NEW locals, NEW folders, NEW what, Begin(first, locals, folders, what),
         NEW r \in former', disk'[Home] = disk[Home], disk'[Parking] = disk[Parking],
         first \notin Discards, first \in Replaces => disk'[Staging].rev = disk[Home].rev
  PROVE  Way(r)'
<1>1. /\ repairing = NoPath /\ ~Exists(Parking) /\ Has(Home, r) /\ pc' = first /\ UNCHANGED <<repairing, strict>>
  BY BeginsWith
<1>2. (Has(Home, r)' <=> Has(Home, r)) /\ (Exists(Parking)' <=> Exists(Parking)) /\ disk[Home].rev = r
  BY <1>1, HasIs, AbsentHas
<1>3. QED BY <1>1, <1>2 DEF Way

\* An update begins with the version in use in its place.
LEMMA BeginUpdateWay == ASSUME Calm, BeginUpdate PROVE WayInv'
<1> DEFINE locals == [NoTask EXCEPT !.op = "update", !.from = Home, !.doomed = PreviousVersions]
           first == IF Home \in Damaged THEN "clearAside" ELSE "dropPrevious"
<1>1. Begin(first, locals, Stage(catalogue), Promise)
  BY CalmIs DEF Calm, BeginUpdate
<1>2. Whole(catalogue) \in Folder
  BY StagedIs DEF Calm, Base, TypeOK
<1>3. disk'[Home] = disk[Home] /\ disk'[Parking] = disk[Parking]
  BY <1>1, <1>2, ReplacedIs, FoldersAre, CalmIs, BeginsWith DEF Stage, Calm
<1>4. \A r \in former' : first = "dropPrevious"
  BY <1>1, BeginsWith
<1> HIDE DEF locals
<1>5. \A r \in former' : Way(r)'
  BY <1>1, <1>3, <1>4, BegunWay DEF Discards, Replaces
<1>6. QED BY <1>1, <1>4, <1>5, BeginsWith DEF WayInv, Discards

\* A revert does.
LEMMA BeginRevertWay == ASSUME Calm, BeginRevert PROVE WayInv'
<1>1. PICK p \in Discovered, v \in PreviousVersions :
        Begin("park", [NoTask EXCEPT !.from = p, !.kept = v], disk, Promise)
  BY DEF BeginRevert
<1> DEFINE locals == [NoTask EXCEPT !.from = p, !.kept = v]
<1>2. Begin("park", locals, disk, Promise)
  BY <1>1
<1> HIDE DEF locals
<1>3. disk' = disk /\ pc' = "park"
  BY <1>2, BeginsWith
<1>4. \A r \in former' : Way(r)'
  BY <1>2, <1>3, BegunWay DEF Discards, Replaces
<1>5. QED BY <1>3, <1>4 DEF WayInv, Discards

\* The deletion of the previous version does.
LEMMA BeginDeletePreviousWay == ASSUME Calm, BeginDeletePrevious PROVE WayInv'
<1> DEFINE locals == [NoTask EXCEPT !.op = "delete", !.doomed = PreviousVersions]
<1>1. Begin("dropPrevious", locals, disk, Promise)
  BY DEF BeginDeletePrevious
<1> HIDE DEF locals
<1>2. disk' = disk /\ pc' = "dropPrevious"
  BY <1>1, BeginsWith
<1>3. \A r \in former' : Way(r)'
  BY <1>1, <1>2, BegunWay DEF Discards, Replaces
<1>4. QED BY <1>2, <1>3 DEF WayInv, Discards

\* A repair does, and stages files of the same revision.
LEMMA BeginRepairWay == ASSUME Calm, BeginRepair PROVE WayInv'
<1> DEFINE broken == Assets \ Good(Home)
           locals == [NoTask EXCEPT !.from = Home, !.broken = broken]
           folders == [disk EXCEPT ![Staging] = Staged(catalogue, broken)]
<1>1. Begin("startRepair", locals, folders, Promise) /\ disk[Home].rev = catalogue
  BY CalmIs DEF Calm, BeginRepair
<1>2. Staged(catalogue, broken) \in Folder /\ Staged(catalogue, broken).rev = catalogue
  <2>1. catalogue \in Revisions
    BY DEF Calm, Base, TypeOK
  <2>2. broken \subseteq Files
    BY FilesAre
  <2>3. QED BY <2>1, <2>2, StagedIs DEF Staged
<1>3. /\ disk'[Home] = disk[Home] /\ disk'[Parking] = disk[Parking] /\ disk'[Staging].rev = disk[Home].rev
      /\ pc' = "startRepair"
  BY <1>1, <1>2, ReplacedIs, FoldersAre, CalmIs, BeginsWith DEF Calm
<1> HIDE DEF locals, folders
<1>4. \A r \in former' : Way(r)'
  BY <1>1, <1>3, BegunWay DEF Discards
<1>5. QED BY <1>3, <1>4 DEF WayInv, Discards

\* The steps that begin something, or damage a file.
Beginning == BeginInstall \/ BeginUpdate \/ BeginRevert \/ BeginDeletePrevious \/ BeginRemove \/ BeginRepair \/ Damage

\* What begins no operation that keeps a version forgets the one that was in use.
LEMMA BeginningWay == ASSUME Calm, Beginning PROVE WayInv'
<1>1. CASE BeginInstall \/ BeginRemove \/ Damage
  BY <1>1 DEF BeginInstall, BeginRemove, Damage, Begin, WayInv
<1>2. QED BY <1>1, BeginUpdateWay, BeginRevertWay, BeginDeletePreviousWay,
     BeginRepairWay DEF Beginning

\* No other step forgets the version that was in use.
LEMMA FormerStays == ASSUME [Next]_vars, ~Beginning PROVE former' = former
<1>1. CASE UNCHANGED vars
  BY <1>1 DEF vars, historyVars
<1>2. CASE Operation
  BY <1>2 DEF Beginning, Operation, Install, DownloadFails, DropPrevious, WriteJournal,
    MoveOut, MoveIn, MoveBack, RemoveJournal, ClearAside, AsideOut, AsideIn, AsideBack, DeleteAside,
    Park, Restore, CheckRestored, Unrestore, Unpark, Keep, Clear, MoveAside, Erase, ClearPrevious,
    MovePreviousAside, ErasePrevious, StartRepair, Gather, Assemble, ClearDiscard, DamagedOut,
    RepairedIn, DamagedBack, RollBack, RolledBack, EndRepair, DeleteDiscard, Rename, Delete,
    DeleteOrFail, PutBack, Journal, UpdateJournal, RepairJournal, Step, FileStep, historyVars
<1>3. CASE Recovery
  BY <1>3 DEF Recovery, Sweep, ResumeUpdate, ResumeRepair, DropDiscard, ResumeRevert,
       Recovered,
    ResumeRename, ResumeParked, Rename, Delete, DeleteOrFail, PutBack, Journal, UpdateJournal,
    RepairJournal, Step, FileStep, historyVars
<1>4. QED BY <1>1, <1>2, <1>3 DEF Next, Beginning, Crash, Quit, Start, Step, historyVars

\* The steps that get rid of a package have no version to keep.
LEMMA DiscardsNothing ==
  ASSUME NEW r, WayCalm(r)
  PROVE  /\ ~Install /\ ~ClearAside /\ ~AsideOut /\ ~AsideIn /\ ~DeleteAside /\ ~Clear /\ ~MoveAside
         /\ ~Erase /\ ~ClearPrevious /\ ~MovePreviousAside /\ ~ErasePrevious
BY WayIs DEF Discards, Install, ClearAside, AsideOut, AsideIn, DeleteAside, Clear,
     MoveAside, Erase,
   ClearPrevious, MovePreviousAside, ErasePrevious, Rename, DeleteOrFail, Delete

\* A step that no failed operation is a part of, or precedes, keeps the way back.
LEMMA WayStep == ASSUME Base, CrashInv, WayInv, [Next]_vars, faults' = 0 PROVE WayInv'
<1>1. CASE Beginning
  BY <1>1, BeginningWay DEF Calm
<1>2. ASSUME ~Beginning, NEW r \in former PROVE Way(r)' /\ pc' \notin Discards
  <2>1. WayCalm(r)
    BY <1>2 DEF WayCalm, Calm
  <2>2. CASE UNCHANGED vars
    BY <2>1, <2>2, WayIs DEF vars, Way, Discards, Before, Replaces, Has, Exists,
         Validates, Present
  <2>3. CASE Operation
    BY <1>2, <2>1, <2>3, NeverCalm, DiscardsNothing, DownloadFailsWay, DropPreviousWay,
         WriteJournalWay,
       MoveOutWay, MoveInWay, RemoveJournalWay, ParkWay, RestoreWay, CheckRestoredWay, UnrestoreWay,
       UnparkWay, KeepWay, StartRepairWay, GatherWay, AssembleWay, ClearDiscardWay, DamagedOutWay,
       RepairedInWay, EndRepairWay, DeleteDiscardWay DEF Operation, Beginning, WayCalm
  <2>4. CASE Recovery
    <3>1. ResumeUpdate \/ ResumeRepair => pc = "recover"
      BY DEF ResumeUpdate, ResumeRepair, ResumeRename, Rename, PutBack, UpdateJournal,
           RepairJournal, Journal
    <3>2. QED BY <2>1, <2>4, <3>1, SweepWay, ResumeUpdateWay, ResumeRepairWay,
         DropDiscardWay,
                 ResumeRevertWay, RecoveredWay DEF Recovery
  <2>5. QED BY <1>2, <2>1, <2>2, <2>3, <2>4, CrashWay, QuitWay, StartWay DEF Next, Beginning
<1>3. ASSUME ~Beginning PROVE WayInv'
  BY <1>2, <1>3, FormerStays DEF WayInv
<1>4. QED BY <1>1, <1>3

\* The version in use when an operation begins, with nothing unfinished, is installed
\* or kept whole after it, and after any number of crashes at any steps of it and of
\* the recovery, as long as no file operation fails.
THEOREM WayBackSurvives ==
  ASSUME Folders = {"id"} PROVE Spec => [](faults = 0 => WayBackIsKept)
<1> DEFINE Inv == Base /\ (faults = 0 => CrashInv /\ WayInv)
<1>1. Init => Inv
  BY BaseInit, CalmInit DEF Init, WayInv
<1>2. Inv /\ [Next]_vars => Inv'
  BY BaseStep, CalmStep, FaultsAre, WayStep
<1>3. CrashInv /\ WayInv => WayBackIsKept
  BY PathsAre, AbsentHas DEF WayInv, Way, WayBackIsKept, Unfinished, Has, Discovered
<1>4. Inv => (faults = 0 => WayBackIsKept)
  BY <1>3
<1>5. QED BY <1>1, <1>2, <1>4, PTL DEF Spec

=============================================================================
