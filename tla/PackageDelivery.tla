--------------------------- MODULE PackageDelivery ---------------------------
(***************************************************************************)
(* How a model package comes into a model directory: downloaded file by     *)
(* file into .<id>.downloading, where a later attempt resumes              *)
(* (src/src/catalogue_download.cpp), or copied into .<id>.importing         *)
(* (src/src/model_import.cpp), and renamed into place once it is whole.     *)
(* Attempts are cancelled, crash and meet bad servers and full disks, and   *)
(* between two of them the Host may be replaced by one that pins another    *)
(* revision.                                                               *)
(***************************************************************************)
EXTENDS SequencesExt

CONSTANTS
  Pinned,    \* by revision of the catalogue: its files and their bytes
  Unpacked,  \* the files and bytes of a package to import
  MaxFaults  \* bound on what goes wrong

\* The catalogue lists no package without files and no file without bytes.
ASSUME DeliveryBounds ==
  /\ MaxFaults \in Nat
  /\ \A r \in DOMAIN Pinned :
       /\ DOMAIN Pinned[r] # {} /\ IsFiniteSet(DOMAIN Pinned[r])
       /\ \A f \in DOMAIN Pinned[r] : Pinned[r][f] \in Seq(Nat) /\ Len(Pinned[r][f]) > 0

VARIABLES
  catalogue,   \* the revision this Host pins
  downloading, \* the files of .<id>.downloading
  importing,   \* the files of .<id>.importing
  delivered,   \* the installed package, or NotDelivered
  attempt,     \* the attempt under way, or how the last one ended
  faults,      \* what went wrong so far
  history      \* history: stale files when the attempt began, and its faults

deliveryVars == <<catalogue, downloading, importing, delivered, attempt, faults, history>>

NoFiles == <<>>
NotDelivered == [declared |-> NoFiles, files |-> NoFiles]
Entry == Pinned[catalogue]
Busy == attempt.pc \notin {"none", "failed"}

\* The files on disk that the pinned ones cannot be completed from.
StaleFiles ==
  {f \in DOMAIN downloading \intersect DOMAIN Entry :
     /\ Len(downloading[f]) <= Len(Entry[f])
     /\ ~ IsPrefix(downloading[f], Entry[f])}

\* Files written into a folder replace those of the same name and leave the others.
Over(new, old) ==
  [f \in DOMAIN new \union DOMAIN old |-> IF f \in DOMAIN new THEN new[f] ELSE old[f]]
With(folder, f, bytes) == Over([g \in {f} |-> bytes], folder)
Without(folder, f) == Restrict(folder, DOMAIN folder \ {f})

\* remove_all(), whose errors are ignored: what is locked stays.
Left(folder) == {Restrict(folder, S) : S \in SUBSET DOMAIN folder}

\* Something goes wrong within the bound.
Fault == faults < MaxFaults /\ faults' = faults + 1 /\ history' = [history EXCEPT !.faults = @ + 1]
NoFault == UNCHANGED <<faults, history>>
FaultIf(wrong) == IF wrong THEN Fault ELSE NoFault

Go(pc) == attempt' = [attempt EXCEPT !.pc = pc]
Failed == Go("failed")

-----------------------------------------------------------------------------

DeliveryInit ==
  /\ catalogue \in DOMAIN Pinned
  /\ downloading = NoFiles /\ importing = NoFiles /\ delivered = NotDelivered
  /\ attempt = [pc |-> "none", left |-> {}, file |-> "none", resume |-> 0]
  /\ faults = 0 /\ history = [stale |-> 0, faults |-> 0]

\* Neither begins when the destination is there.
Begin(pc) ==
  /\ ~Busy /\ delivered = NotDelivered
  /\ attempt' = [pc |-> pc, left |-> DOMAIN Entry, file |-> "none", resume |-> 0]
  /\ history' = [stale |-> Cardinality(StaleFiles), faults |-> 0]
  /\ UNCHANGED <<catalogue, downloading, importing, delivered, faults>>

BeginDownload == Begin("files")
BeginImport == Begin("clear")

(* A download                                                              *)

\* How much of the next file is there to resume from.
StageFile ==
  /\ attempt.pc = "files"
  /\ \E f \in attempt.left :
       LET size == IF f \in DOMAIN downloading THEN Len(downloading[f]) ELSE 0
           resume == IF size > Len(Entry[f]) THEN 0 ELSE size
       IN attempt' = [attempt EXCEPT !.left = @ \ {f}, !.file = f, !.resume = resume,
                                     !.pc = IF resume < Len(Entry[f]) THEN "fetch" ELSE "verify"]
  /\ UNCHANGED <<catalogue, downloading, importing, delivered, faults, history>>

\* What the server sends: the pinned bytes, or those of another revision.
Served == {Pinned[r][attempt.file] : r \in {r \in DOMAIN Pinned : attempt.file \in DOMAIN Pinned[r]}}

\* fetch_url_to_file(): the range is appended, a full answer replaces the file;
\* the connection may end early.
Fetch ==
  /\ attempt.pc = "fetch"
  /\ \E served \in Served, ranged \in BOOLEAN :
       LET kept == IF ranged THEN downloading[attempt.file] ELSE <<>>
           sent == SubSeq(served, Len(kept) + 1, Len(served))
       IN /\ ranged => attempt.resume > 0 /\ attempt.resume < Len(served)
          /\ \E n \in 0 .. Len(sent) :
               LET bytes == kept \o SubSeq(sent, 1, n)
               IN /\ downloading' = With(downloading, attempt.file, bytes)
                  /\ IF Len(bytes) = Len(Entry[attempt.file]) THEN Go("verify") ELSE Failed
                  /\ FaultIf(served # Entry[attempt.file] \/ n < Len(sent))
  /\ UNCHANGED <<catalogue, importing, delivered>>

\* No connection, another status, an unwritable file.
FetchFails ==
  /\ attempt.pc = "fetch"
  /\ Failed /\ Fault
  /\ UNCHANGED <<catalogue, downloading, importing, delivered>>

NextFile == Go(IF attempt.left = {} THEN "manifest" ELSE "files")

\* Mutant: a file that is not the pinned one stays.
VerifyKeeps ==
  /\ attempt.pc = "verify"
  /\ IF downloading[attempt.file] = Entry[attempt.file] THEN NextFile ELSE Failed
  /\ UNCHANGED <<catalogue, downloading, importing, delivered, faults, history>>

\* The end of stage_catalogue_file().
Verify ==
  /\ attempt.pc = "verify"
  /\ IF downloading[attempt.file] = Entry[attempt.file]
     THEN NextFile /\ NoFault /\ UNCHANGED downloading
     ELSE /\ Failed
          /\ \/ downloading' = Without(downloading, attempt.file) /\ NoFault
             \/ UNCHANGED downloading /\ Fault
  /\ UNCHANGED <<catalogue, importing, delivered>>

\* The manifest and generated files are written anew and the package is read as
\* the registry would; one it refuses is thrown away.
WriteManifest ==
  /\ attempt.pc = "manifest"
  /\ \/ Go("move") /\ NoFault /\ UNCHANGED downloading
     \/ Failed /\ Fault /\ downloading' \in Left(downloading)
  /\ UNCHANGED <<catalogue, importing, delivered>>

MoveDownload ==
  /\ attempt.pc = "move"
  /\ \/ /\ delivered' = [declared |-> Entry, files |-> downloading]
        /\ downloading' = NoFiles /\ Go("none") /\ NoFault
     \/ Failed /\ Fault /\ UNCHANGED <<downloading, delivered>>
  /\ UNCHANGED <<catalogue, importing>>

(* An import                                                               *)

ClearLeftovers ==
  /\ attempt.pc = "clear" /\ Go("copy")
  /\ importing' \in Left(importing) /\ FaultIf(importing' # NoFiles)
  /\ UNCHANGED <<catalogue, downloading, delivered>>

\* A recursive copy fails on a file that is there.
Copy ==
  /\ attempt.pc = "copy"
  /\ \/ /\ DOMAIN importing \intersect DOMAIN Unpacked = {}
        /\ importing' = Over(Unpacked, importing) /\ Go("place") /\ NoFault
     \/ /\ importing' \in Left(importing) /\ Failed
        /\ FaultIf(DOMAIN importing \intersect DOMAIN Unpacked = {} \/ importing' # NoFiles)
  /\ UNCHANGED <<catalogue, downloading, delivered>>

\* The manifest is rewritten, the copy validated and renamed.
Place ==
  /\ attempt.pc = "place"
  /\ \/ /\ delivered' = [declared |-> Unpacked, files |-> importing]
        /\ importing' = NoFiles /\ Go("none") /\ NoFault
     \/ importing' \in Left(importing) /\ Failed /\ Fault /\ UNCHANGED delivered
  /\ UNCHANGED <<catalogue, downloading>>

(* Crashes, other Hosts and the user                                       *)

\* A copy that stops leaves some files, the last of them unfinished.
Interrupt ==
  /\ Busy /\ Failed /\ Fault
  /\ IF attempt.pc = "copy"
     THEN \E S \in SUBSET DOMAIN Unpacked : \E f \in S : \E n \in 0 .. Len(Unpacked[f]) :
            importing' = Over(With(Restrict(Unpacked, S), f, SubSeq(Unpacked[f], 1, n)), importing)
     ELSE UNCHANGED importing
  /\ UNCHANGED <<catalogue, downloading, delivered>>

\* The Host is started in another version.
Upgrade ==
  /\ ~Busy
  /\ catalogue' \in DOMAIN Pinned \ {catalogue}
  /\ attempt' = [attempt EXCEPT !.pc = "none"]
  /\ UNCHANGED <<downloading, importing, delivered, faults, history>>

\* The installed package is removed by the user.
Uninstall ==
  /\ ~Busy /\ delivered # NotDelivered
  /\ delivered' = NotDelivered
  /\ UNCHANGED <<catalogue, downloading, importing, attempt, faults, history>>

DeliveryNext ==
  \/ BeginDownload \/ BeginImport \/ StageFile \/ Fetch \/ FetchFails \/ Verify
  \/ WriteManifest \/ MoveDownload \/ ClearLeftovers \/ Copy \/ Place
  \/ Interrupt \/ Upgrade \/ Uninstall

-----------------------------------------------------------------------------

\* Every file an installed package declares holds exactly the bytes that were
\* pinned or imported, whatever earlier attempts left behind.
\* (stage_catalogue_file, import_model_package.)
InstalledIsWhole ==
  \A f \in DOMAIN delivered.declared :
    f \in DOMAIN delivered.files /\ delivered.files[f] = delivered.declared[f]

\* An attempt with which nothing goes wrong succeeds, or costs a file that it
\* could not have been completed from: no leftover blocks a download for good.
AttemptsHelp ==
  attempt.pc = "failed" /\ history.faults = 0 => Cardinality(StaleFiles) < history.stale

\* A file that is as pinned is neither fetched again nor touched, until the
\* package is moved, or refused as a whole.
VerifiedStays ==
  \A f \in DOMAIN Entry \intersect DOMAIN downloading :
    downloading[f] = Entry[f] =>
      \/ f \in DOMAIN downloading' /\ downloading'[f] = downloading[f]
      \/ attempt.pc \in {"manifest", "move"}

DeliveryIsExact == [](InstalledIsWhole /\ AttemptsHelp) /\ [][VerifiedStays]_deliveryVars

=============================================================================
