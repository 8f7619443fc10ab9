----------------------------- MODULE MediaLibrary -----------------------------
(***************************************************************************)
(* The media library (MediaService, StorageService): a row and a file on   *)
(* disk for every upload, written one after the other.  A file's name on   *)
(* disk is a fresh uuid, so a file is known by its row's id here and disk  *)
(* says in which directory it lies.  Folders are those of MediaFolders;    *)
(* deleting one, and following one with its directory, are actions of this *)
(* module because they touch rows and disk too.                            *)
(*                                                                         *)
(* Any request may stop at any step (Fail): a command that throws ends it  *)
(* there, a restart ends them all, and nothing is undone.  Directories     *)
(* without files are not kept track of.                                    *)
(***************************************************************************)
EXTENDS MediaFolders

CONSTANTS
  Files,       \* ids that rows of media can get, with the file uploaded for each
  General      \* the directory of files without a folder

VARIABLES
  rows,        \* table media: id -> stored path, folder, whether in the trash
  bornFiles,   \* ids given out so far
  disk,        \* the files below uploadDir: which directory each one is in
  purged       \* history: files that a permanent deletion has unlinked

fileVars == <<rows, bornFiles, disk, purged>>
mediaVars == <<folderVars, fileVars, job>>

MediaInit ==
  /\ folders = << >> /\ bornFolders = {} /\ crossed = FALSE
  /\ rows = << >> /\ bornFiles = {} /\ disk = << >> /\ purged = {}
  /\ job = [j \in Jobs |-> Idle]

Without(f, gone) == [x \in DOMAIN f \ gone |-> f[x]]

Below(path, dir) == Len(dir) <= Len(path) /\ SubSeq(path, 1, Len(dir)) = dir

(* findById of the repository: rows in the trash are not found. *)
Live(m) == m \in DOMAIN rows /\ ~rows[m].trashed

(* download: a live row, and a file where it says. *)
Downloads(m) == Live(m) /\ m \in DOMAIN disk /\ disk[m] = rows[m].path

Inserted(m, path, f) ==
  [n \in DOMAIN rows \cup {m} |->
     IF n = m THEN [path |-> path, folder |-> f, trashed |-> FALSE] ELSE rows[n]]

(* A live file that comes to a folder after a request has found that       *)
(* folder empty: history for EmptiedOfLatecomersOnly.                      *)
Arrives(jobs, m, f) ==
  [i \in Jobs |-> IF f # Null /\ jobs[i].id = f /\ jobs[i].at \in {"emptying", "removing"}
                  THEN [jobs[i] EXCEPT !.late = @ \cup {m}] ELSE jobs[i]]

-----------------------------------------------------------------------------
(* upload: the breadcrumbs of the folder give the directory (the legacy    *)
(* folder string stands for General), ...                                  *)
StartUpload(j, f) ==
  /\ f \in DOMAIN folders \cup {Null}
  /\ f # Null => WalkEnds(f)
  /\ Start(j, [Idle EXCEPT !.at = "saving", !.to = f,
                           !.chain = IF f = Null THEN <<General>> ELSE Chain(f)])
  /\ UNCHANGED <<folderVars, fileVars>>

(* ... saveFile makes the directory and writes the file, ... *)
NewFile == CHOOSE m \in Files \ bornFiles : TRUE

SaveFile(j) ==
  LET m == NewFile IN
  /\ job[j].at = "saving"
  /\ bornFiles # Files
  /\ disk' = [n \in DOMAIN disk \cup {m} |-> IF n = m THEN job[j].chain ELSE disk[n]]
  /\ bornFiles' = bornFiles \cup {m}
  /\ job' = [job EXCEPT ![j].at = "recording", ![j].id = m]
  /\ UNCHANGED <<folderVars, rows, purged>>

(* ... and the row follows, if the folder is still there for its key. *)
RecordUpload(j) ==
  LET m == job[j].id  f == job[j].to IN
    /\ job[j].at = "recording"
    /\ f \in DOMAIN folders \cup {Null}
    /\ rows' = Inserted(m, job[j].chain, f)
    /\ job' = Arrives([job EXCEPT ![j] = Idle], m, f)
    /\ UNCHANGED <<folderVars, bornFiles, disk, purged>>

(* update with another folderId, or with null: the row is read and the     *)
(* new directory worked out, ...                                           *)
StartRefile(j, m, f) ==
  /\ Live(m)
  /\ f \in DOMAIN folders \cup {Null} /\ f # rows[m].folder
  /\ f # Null => WalkEnds(f)
  /\ Start(j, [Idle EXCEPT !.at = "refiling", !.id = m, !.to = f,
                           !.chain = IF f = Null THEN <<General>> ELSE Chain(f)])
  /\ UNCHANGED <<folderVars, fileVars>>

(* ... moveFile renames the file, found by its stored path or else by its  *)
(* name anywhere on disk, ...                                              *)
MoveFile(j) ==
  LET m == job[j].id IN
    /\ job[j].at = "refiling"
    /\ m \in DOMAIN disk
    /\ disk' = [disk EXCEPT ![m] = job[j].chain]
    /\ Advance(j, "repointing")
    /\ UNCHANGED <<folderVars, rows, bornFiles, purged>>

(* ... and the row gets the new folder and path, trashed or not. *)
RepointRow(j) ==
  LET m == job[j].id  f == job[j].to IN
    /\ job[j].at = "repointing"
    /\ m \in DOMAIN rows
    /\ f \in DOMAIN folders \cup {Null}
    /\ rows' = [rows EXCEPT ![m].path = job[j].chain, ![m].folder = f]
    /\ job' = LET done == [job EXCEPT ![j] = Idle]
              IN  IF rows[m].trashed THEN done ELSE Arrives(done, m, f)
    /\ UNCHANGED <<folderVars, bornFiles, disk, purged>>

-----------------------------------------------------------------------------
(* A softDelete that takes the file with it. *)
TrashWithFile(m) ==
  /\ Live(m)
  /\ rows' = [rows EXCEPT ![m].trashed = TRUE]
  /\ disk' = Without(disk, {m})
  /\ UNCHANGED <<folderVars, job, bornFiles, purged>>

(* softDelete, and deleteByUrl: the file stays where it is. *)
Trash(m) ==
  /\ Live(m)
  /\ rows' = [rows EXCEPT ![m].trashed = TRUE]
  /\ UNCHANGED <<folderVars, job, bornFiles, disk, purged>>

Restore(m) ==
  /\ m \in DOMAIN rows
  /\ rows' = [rows EXCEPT ![m].trashed = FALSE]
  /\ job' = Arrives(job, m, rows[m].folder)
  /\ UNCHANGED <<folderVars, bornFiles, disk, purged>>

(* hardDelete, of any row, in the trash or not: its path is read, ... *)
StartPurge(j, m) ==
  /\ m \in DOMAIN rows
  /\ Start(j, [Idle EXCEPT !.at = "unlinking", !.id = m, !.chain = rows[m].path])
  /\ UNCHANGED <<folderVars, fileVars>>

(* ... deleteFile unlinks it, and is content when it is not there, ... *)
Unlink(j) ==
  LET m == job[j].id IN
    /\ job[j].at = "unlinking"
    /\ disk' = Without(disk, {n \in {m} \cap DOMAIN disk : disk[n] = job[j].chain})
    /\ purged' = purged \cup {m}
    /\ job' = [job EXCEPT ![j].at = "purging", ![j].chain = << >>]
    /\ UNCHANGED <<folderVars, rows, bornFiles>>

(* ... and the row goes. *)
DropRow(j) ==
  /\ job[j].at = "purging"
  /\ job[j].id \in DOMAIN rows
  /\ rows' = Without(rows, {job[j].id})
  /\ Finish(j)
  /\ UNCHANGED <<folderVars, bornFiles, disk, purged>>

-----------------------------------------------------------------------------
(* delete of a folder: no live file in it and no sub-folder, ... *)
HoldsTrashed(f) == {m \in DOMAIN rows : rows[m].folder = f /\ rows[m].trashed}

HoldsLive(f) == {m \in DOMAIN rows : rows[m].folder = f /\ ~rows[m].trashed}

StartDelete(j, f) ==
  /\ f \in DOMAIN folders
  /\ HoldsLive(f) = {}
  /\ Subfolders(f) = {}
  /\ Start(j, [Idle EXCEPT !.at = "emptying", !.id = f])
  /\ UNCHANGED <<folderVars, fileVars>>

(* ... every row that names it is set to no folder, ... *)
Orphaned(f) == [m \in DOMAIN rows |->
                  IF rows[m].folder = f THEN [rows[m] EXCEPT !.folder = Null] ELSE rows[m]]

ClearFiles(j) ==
  /\ job[j].at = "emptying"
  /\ rows' = Orphaned(job[j].id)
  /\ Advance(j, "removing")
  /\ UNCHANGED <<folderVars, bornFiles, disk, purged>>

(* ... and the row goes: refused while a sub-folder names it (Restrict),   *)
(* files that name it lose it (SetNull).                                   *)
RemoveFolder(j) ==
  LET f == job[j].id IN
    /\ job[j].at = "removing"
    /\ f \in DOMAIN folders
    /\ Subfolders(f) = {}
    /\ folders' = Without(folders, {f})
    /\ rows' = Orphaned(f)
    /\ Finish(j)
    /\ UNCHANGED <<bornFolders, crossed, bornFiles, disk, purged>>

(* moveCmsFolderOnDisk: the directory is renamed with all that is below    *)
(* it.  Any failure is swallowed: nothing there, something in the way, a   *)
(* target below itself.                                                    *)
Shifted(old, new) ==
  IF \E m \in DOMAIN disk : Below(disk[m], new) \/ Below(new, old) THEN disk
  ELSE [m \in DOMAIN disk |->
          IF Below(disk[m], old)
          THEN new \o SubSeq(disk[m], Len(old) + 1, Len(disk[m])) ELSE disk[m]]

ShiftDirectory(j) ==
  /\ job[j].at = "shifting"
  /\ disk' \in {Shifted(job[j].chain, job[j].next), disk}
  /\ Advance(j, "prefixing")
  /\ UNCHANGED <<folderVars, rows, bornFiles, purged>>

(* updatePathPrefix: rows of scope cms whose path has cms/<old chain>/ in  *)
(* it.  Every row has the column's default, site (no create names another  *)
(* scope), so no row follows.                                              *)
RowScope == "site"

FollowsFolder(m, old) == RowScope = "cms" /\ Below(rows[m].path, old)

UpdatePathPrefix(j) ==
  LET old == job[j].chain IN
    /\ job[j].at = "prefixing"
    /\ rows' = [m \in DOMAIN rows |->
                  IF FollowsFolder(m, old)
                  THEN [rows[m] EXCEPT !.path = job[j].next \o SubSeq(@, Len(old) + 1, Len(@))]
                  ELSE rows[m]]
    /\ Finish(j)
    /\ UNCHANGED <<folderVars, bornFiles, disk, purged>>

(* Places of a request that has written something; one that fails before   *)
(* that might as well not have been made.                                  *)
HalfDone == {"recording", "repointing", "purging", "removing", "moved", "shifting", "prefixing"}

Fail(j) == job[j].at \in HalfDone /\ Finish(j) /\ UNCHANGED <<folderVars, fileVars>>

-----------------------------------------------------------------------------
(* The routes of the two controllers. *)
FolderRoutes(j) ==
  \/ \E s \in Slugs, p \in Folders \cup {Null} : StartCreate(j, s, p) /\ UNCHANGED fileVars
  \/ \E f \in Folders, s \in Slugs : StartRename(j, f, s) /\ UNCHANGED fileVars
  \/ \E f \in Folders, p \in Folders \cup {Null} : StartMove(j, f, p) /\ UNCHANGED fileVars
  \/ \E f \in Folders : StartDelete(j, f)

MediaRoutes(j) ==
  \/ \E f \in Folders \cup {Null} : StartUpload(j, f)
  \/ \E m \in Files, f \in Folders \cup {Null} : StartRefile(j, m, f)
  \/ \E m \in Files : Trash(m) \/ Restore(m) \/ StartPurge(j, m)

Proceed(j) ==
  \/ \E cms \in Scopes : WriteFolder(j, cms) /\ UNCHANGED fileVars
  \/ (WriteName(j) \/ WriteParent(j) \/ ReadChain(j)) /\ UNCHANGED fileVars
  \/ SaveFile(j) \/ RecordUpload(j) \/ MoveFile(j) \/ RepointRow(j) \/ Unlink(j) \/ DropRow(j)
  \/ ClearFiles(j) \/ RemoveFolder(j) \/ ShiftDirectory(j) \/ UpdatePathPrefix(j)

MediaNext == \E j \in Jobs : FolderRoutes(j) \/ MediaRoutes(j) \/ Proceed(j) \/ Fail(j)

MediaSpec == MediaInit /\ [][MediaNext]_mediaVars

-----------------------------------------------------------------------------
(* Whatever moves, crosses or fails half-way, the file of a row is still   *)
(* somewhere on disk until a permanent deletion of that very row unlinks   *)
(* it (moveFile's search by name depends on it, storage.service.ts:386).   *)
FilesKept == \A m \in DOMAIN rows : m \in DOMAIN disk \/ m \in purged

(* isDescendant "prevents circular moves" (media-folders.service.ts:87):   *)
(* it does, as long as no move is written between the check and the write  *)
(* of another.                                                             *)
CircleNeedsCrossedMoves == crossed \/ \A f \in DOMAIN folders : WalkEnds(f)

(* The depth check looks at the target alone (media-folders.service.ts:    *)
(* 197): a folder gets below the last level only with a folder above it    *)
(* that is moved, never as the one that is created or moved itself.        *)
TooDeepOnlyUnderAMove ==
  [][\A f \in DOMAIN folders' :
       (Level(f)' > MaxDepth /\ ~crossed' /\ ~(f \in DOMAIN folders /\ Level(f) > MaxDepth))
         => \E g \in Ancestors(f) : folders[g].parent # folders'[g].parent]_mediaVars

(* A folder that is deleted takes no live file's folder away but those of  *)
(* files that came to it after it was counted empty                        *)
(* (media-folders.service.ts:222-236).                                     *)
EmptiedOfLatecomersOnly ==
  [][\A m \in DOMAIN rows \cap DOMAIN rows', j \in Jobs :
       (/\ job[j].at \in {"emptying", "removing"} /\ job'[j].at # job[j].at
        /\ ~rows[m].trashed /\ rows[m].folder = job[j].id /\ rows'[m].folder = Null)
         => m \in job[j].late]_mediaVars

(* "Propagate to disk + DB" (media-folders.service.ts:168,210): when a      *)
(* rename or move of a folder is through, the files that went along can be *)
(* downloaded still.                                                       *)
PathsFollowFolders ==
  [][\A j \in Jobs : UpdatePathPrefix(j) =>
       \A m \in DOMAIN rows \cap DOMAIN disk :
         (Live(m) /\ Below(rows[m].path, job[j].chain) /\ Below(disk[m], job[j].next))
           => Downloads(m)']_mediaVars
=============================================================================
