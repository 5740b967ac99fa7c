---------------------------- MODULE ModelRegistry ----------------------------
(***************************************************************************)
(* Which model packages the Host finds on disk, which copy of a model it    *)
(* uses, and what Settings lists and offers for each (model_registry.cpp,   *)
(* model_list.cpp).  Folders change under an open Settings window, which    *)
(* rescans every five seconds and repaints only when the scan differs.      *)
(***************************************************************************)
EXTENDS Integers, FiniteSets

CONSTANTS
  UserFolders,   \* folders of the configured directories, in scan order
  AppFolders,    \* folders of the application's models/, in scan order
  KeptFolders,   \* .previous/ folders, in scan order
  DirectoryOf,   \* the configured directory a user or kept folder lies in
  Contents,      \* what each folder may hold
  CurrentOf,     \* catalogue_revision_for: the catalogue's ids and revisions
  MaxChanges     \* bound on the changes between two rescans

VARIABLES
  folders,    \* what each folder holds
  portable,   \* TRUE: models/ is a configured directory, not a tier of its own
  shown,      \* the folders as the list was last built from them (last_scan)
  changes     \* folder changes since the last rescan

registryVars == <<folders, portable, shown, changes>>

Folders == UserFolders \union AppFolders \union KeptFolders
Absent == [what |-> "absent"]
Junk == [what |-> "junk"]   \* a file, a folder without a manifest, a bad one
Package(id, rev, damaged) == [what |-> "package", id |-> id, rev |-> rev, damaged |-> damaged]
Ids == DOMAIN CurrentOf \union
       {c.id : c \in {k \in UNION {Contents[p] : p \in Folders} : k.what = "package"}}

\* The directories are different ones, and a bundled package is one of the
\* catalogue's, with a revision (the release is refused otherwise).
ASSUME RegistryAssumption ==
  /\ UserFolders \subseteq Nat /\ AppFolders \subseteq Nat /\ KeptFolders \subseteq Nat
  /\ UserFolders \intersect AppFolders = {} /\ KeptFolders \intersect (UserFolders \union AppFolders) = {}
  /\ MaxChanges \in Nat
  /\ \A p \in Folders : \A c \in Contents[p] :
       \/ c \in {Absent, Junk}
       \/ /\ c.damaged \in BOOLEAN /\ c = Package(c.id, c.rev, c.damaged)
          /\ p \in AppFolders => c.id \in DOMAIN CurrentOf /\ c.rev # "none"

-----------------------------------------------------------------------------
\* scan_model_registry

Tier(d, tier) == {p \in tier : d[p].what = "package" /\ ~d[p].damaged}

\* drop_duplicate_ids: the first copy of an id in its tier.
FirstCopies(d, S) == {p \in S : \A q \in S : d[q].id = d[p].id => p <= q}

IsCurrent(copy) == copy.id \in DOMAIN CurrentOf /\ copy.rev = CurrentOf[copy.id]

\* A per-user copy wins unless only the bundled one is the catalogue's.
BundledWins(user, app) == IsCurrent(app) /\ ~IsCurrent(user)

AppTier == IF portable THEN {} ELSE AppFolders

Scan(d) ==
  LET found == Tier(d, UserFolders) \union Tier(d, AppTier)
      users == FirstCopies(d, Tier(d, UserFolders))
      apps == FirstCopies(d, Tier(d, AppTier))
      twice == {pair \in users \X apps : d[pair[1]].id = d[pair[2]].id}
      beaten == {IF BundledWins(d[pair[1]], d[pair[2]]) THEN pair[1] ELSE pair[2] : pair \in twice}
      damaged == {p \in UserFolders \union AppTier : d[p].what = "package" /\ d[p].damaged}
      junk == {p \in UserFolders \union AppTier \union KeptFolders : d[p] = Junk}
  IN [discovered |-> (users \union apps) \ beaten,
      superseded |-> beaten,
      damaged |-> damaged,
      previous |-> {p \in KeptFolders : d[p].what = "package"},
      unsupported |-> [p \in junk \union damaged \union (found \ (users \union apps)) |->
                         IF p \in junk THEN "invalid"
                         ELSE IF p \in damaged THEN "asset" ELSE "duplicate"]]

\* Mutant: the packages are counted, not compared.
ScanChangedCounts(old, new) ==
  \/ Cardinality(Scan(old).discovered) # Cardinality(Scan(new).discovered)
  \/ Cardinality(DOMAIN Scan(old).unsupported) # Cardinality(DOMAIN Scan(new).unsupported)

\* registry_scan_changed
Identity(d, S) == {<<p, d[p].id, d[p].rev>> : p \in S}
ScanChanged(old, new) ==
  LET before == Scan(old)
      after == Scan(new)
  IN \/ Identity(old, before.discovered) # Identity(new, after.discovered)
     \/ before.superseded # after.superseded
     \/ before.previous # after.previous
     \/ before.unsupported # after.unsupported

-----------------------------------------------------------------------------
\* build_model_list and row_actions

Of(d, S, id) == {p \in S : d[p].id = id}
Least(S) == CHOOSE p \in S : \A q \in S : p <= q

\* damaged_rank, then the manifest path.
DamagedOrder(d, p) == (IF IsCurrent(d[p]) THEN 0 ELSE 200) + (IF p \in AppFolders THEN 100 ELSE 0) + p

\* maintained_package: the copy in use, else the first damaged one.
MaintainedIn(d, id) ==
  LET scan == Scan(d)
      installed == Of(d, scan.discovered, id)
      damaged == Of(d, scan.damaged, id)
  IN IF installed # {} THEN installed
     ELSE {p \in damaged : \A q \in damaged : DamagedOrder(d, p) <= DamagedOrder(d, q)}

\* revert_source
RevertSources(d, id) ==
  LET scan == Scan(d)
  IN UNION {{p \in Of(d, scan.previous, id) : DirectoryOf[p] = DirectoryOf[u]}
              \union (Of(d, scan.superseded, id) \intersect AppFolders)
            : u \in Of(d, scan.discovered, id) \ AppFolders}

Status(copy) ==
  IF copy.rev = "none" \/ copy.id \notin DOMAIN CurrentOf THEN "local"
  ELSE IF IsCurrent(copy) THEN "current" ELSE "update available"

DownloadOffered(d, id) == id \in DOMAIN CurrentOf /\ MaintainedIn(d, id) = {}

Offers(d, id) ==
  LET scan == Scan(d)
      maintained == MaintainedIn(d, id)
      offered == [
        load |-> Of(d, scan.discovered, id) # {},
        download |-> DownloadOffered(d, id),
        update |-> \E p \in maintained : Status(d[p]) = "update available",
        revert |-> RevertSources(d, id) # {},
        delete_previous |-> Of(d, scan.previous, id) # {},
        remove_superseded |-> Of(d, scan.superseded, id) \ AppFolders # {},
        remove |-> maintained \ AppFolders # {},
        verify |-> \E p \in maintained : Status(d[p]) = "current"]
  IN {action \in DOMAIN offered : offered[action]}

RowIds(d) ==
  DOMAIN CurrentOf \union {id \in Ids :
     MaintainedIn(d, id) # {} \/ Of(d, Scan(d).previous, id) # {}}

Rows(d) ==
  {[id |-> id, at |-> MaintainedIn(d, id), offers |-> Offers(d, id),
    status |-> {Status(d[p]) : p \in MaintainedIn(d, id)},
    damaged |-> Of(d, Scan(d).discovered, id) = {},
    kept |-> Of(d, Scan(d).previous, id) # {}] : id \in RowIds(d)}

-----------------------------------------------------------------------------

RegistryInit ==
  /\ folders \in {[p \in Folders |-> Absent]}
  /\ portable \in BOOLEAN
  /\ shown = folders /\ changes = 0

\* The user, another process or a maintenance task changes one folder.
FolderChanges ==
  /\ changes < MaxChanges
  /\ \E p \in Folders : \E copy \in Contents[p] \ {folders[p]} :
       folders' = [folders EXCEPT ![p] = copy]
  /\ changes' = changes + 1
  /\ UNCHANGED <<portable, shown>>

\* on_directory_watch_timer
Rescan ==
  /\ changes > 0 /\ changes' = 0
  /\ shown' = IF ScanChanged(shown, folders) THEN folders ELSE shown
  /\ UNCHANGED <<folders, portable>>

RegistryNext == FolderChanges \/ Rescan

RegistrySpec == RegistryInit /\ [][RegistryNext]_registryVars

-----------------------------------------------------------------------------

\* No folder is lost: whatever lies in a scanned directory is in use,
\* superseded, kept for a revert or reported with a reason, in one list only,
\* and each model is in use from one folder.  (scan_model_registry's lists.)
FoldersAreAccountedFor ==
  LET scan == Scan(folders)
      listed == <<scan.discovered, scan.superseded, scan.previous, DOMAIN scan.unsupported>>
  IN /\ \A p \in UserFolders \union AppTier \union KeptFolders :
          folders[p] # Absent => Cardinality({i \in 1 .. 4 : p \in listed[i]}) = 1
     /\ \A id \in Ids : Cardinality(Of(folders, scan.discovered, id)) <= 1

\* An application upgrade is never hidden by an old per-user copy, and a
\* current per-user copy never by an old bundled one; whichever loses stays
\* listed, so that it can be removed or reverted to.  (Tier precedence.)
CurrentCopyIsUsed ==
  LET scan == Scan(folders)
  IN \A p \in scan.superseded :
       \E q \in Of(folders, scan.discovered, folders[p].id) :
          IsCurrent(folders[p]) => IsCurrent(folders[q]) /\ q \in UserFolders

\* Whatever state its folders are in, a listed model can be used, or something
\* that mends or clears it is offered; and a download is offered only where it
\* adds no second copy.  (row_actions; a bundled package carries a revision.)
EveryRowHasARemedy ==
  \A row \in Rows(folders) :
    /\ row.offers \intersect {"load", "download", "update", "verify", "remove", "delete_previous"} # {}
    /\ row.damaged /\ row.at # {} =>
         row.offers \intersect {"update", "verify", "remove"} # {}
    /\ "download" \in row.offers =>
         \A p \in UserFolders \union AppTier :
           ~(folders[p].what = "package" /\ folders[p].id = row.id)

\* Of a model in use, a rescan that repaints nothing leaves nothing stale but
\* what kept and superseded copies add: the row names the folder, the status and
\* the way to load, update, verify and remove it that the folders call for.
\* (on_directory_watch_timer, registry_scan_changed.)
InUse(d) ==
  {[id |-> row.id, at |-> row.at, status |-> row.status,
    offers |-> row.offers \intersect {"load", "download", "update", "verify", "remove"}] :
     row \in {r \in Rows(d) : ~r.damaged}}
ListFollowsModelsInUse == [][changes' = 0 /\ changes > 0 => InUse(shown') = InUse(folders)]_registryVars

\* The list of models says what is in the folders, each of which is on it once,
\* says what can be done about it, and of a model in use it is repainted when
\* that changes.
ListIsTrue ==
  /\ [](FoldersAreAccountedFor /\ CurrentCopyIsUsed /\ EveryRowHasARemedy)
  /\ ListFollowsModelsInUse

=============================================================================
