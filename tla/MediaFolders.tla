----------------------------- MODULE MediaFolders -----------------------------
(***************************************************************************)
(* The folders of the media library (MediaFoldersService): rows that name  *)
(* their parent, and the four requests that change them.  Every request    *)
(* first reads (is there such a folder, is the target below it, is the     *)
(* name free, is the folder empty) and writes afterwards, so the reads of  *)
(* one can lie between the reads and the writes of another.  One walk up   *)
(* the parents is one step; a walk that meets a circle never ends, and its *)
(* request with it.                                                        *)
(***************************************************************************)
EXTENDS Integers, Sequences, FiniteSets, Functions

CONSTANTS
  Folders,     \* ids that rows of media_folders can get
  Slugs,       \* what toSlug makes of the names in use
  Jobs,        \* requests that can be in flight at once
  MaxDepth,    \* MAX_DEPTH
  Scopes,      \* whether a new folder may have scope cms (TRUE), another one (FALSE)
  Null         \* no folder: the root

ASSUME NullIsNoFolder == Null \notin Folders
ASSUME FoldersAreFinite == IsFiniteSet(Folders)
ASSUME ScopesAreBooleans == Scopes \subseteq BOOLEAN
ASSUME MaxDepthPositive == MaxDepth \in Nat \ {0}

VARIABLES
  folders,     \* table media_folders: id -> slug, parent, whether its scope is cms
  bornFolders, \* ids given out so far (autoincrement never gives one twice)
  job,         \* per request: where it stands and what it has read
  crossed      \* history: a place in the tree was written after another move had
               \* been written since it was checked

folderVars == <<folders, bornFolders, crossed>>

Idle == [at |-> "idle", id |-> Null, to |-> Null, slug |-> Null, chain |-> << >>,
         next |-> << >>, raced |-> FALSE, late |-> {}]

-----------------------------------------------------------------------------
(* Walks up the parents: the n-th step of a walk from f, null once it has  *)
(* left the tree.  More steps than there are ids means a circle.           *)
Climb(f) ==
  LET up[n \in 0 .. Cardinality(Folders)] ==
        IF n = 0 THEN f
        ELSE IF up[n - 1] \in DOMAIN folders THEN folders[up[n - 1]].parent ELSE Null
  IN  up

WalkEnds(f) == Climb(f)[Cardinality(Folders)] = Null

Ancestors(f) ==
  LET up == Climb(f) IN {up[n] : n \in DOMAIN up \ {0}} \ {Null}

Level(f) ==
  LET up == Climb(f) IN Cardinality({n \in DOMAIN up : up[n] # Null})

(* getSlugChain, and the slugs of getBreadcrumbs: from the root to f. *)
Chain(f) ==
  LET up == Climb(f)  n == Level(f) IN [i \in 1 .. n |-> folders[up[n - i]].slug]

(* As a slip of one would have it. *)
DepthAllowsOneMore(parent) == parent = Null \/ Level(parent) <= MaxDepth

DepthAllows(parent) == parent = Null \/ Level(parent) < MaxDepth

(* As it would be without the walk. *)
IsItself(ancestor, f) == f = ancestor

IsDescendant(ancestor, f) == f = ancestor \/ ancestor \in Ancestors(f)

(* The folders of one name in one place, apart from f itself. *)
Twins(f, slug, parent) ==
  {g \in DOMAIN folders \ {f} : folders[g].slug = slug /\ folders[g].parent = parent}

(* The unique index on (slug, parentId): rows without a parent never clash. *)
IndexAllows(f, slug, parent) == parent = Null \/ Twins(f, slug, parent) = {}

Subfolders(f) == {g \in DOMAIN folders : folders[g].parent = f}

Start(j, what) == job[j].at = "idle" /\ job' = [job EXCEPT ![j] = what]

Finish(j) == job' = [job EXCEPT ![j] = Idle]

(* The directory and the stored paths are to follow the old chain. *)
Follow(j, next) ==
  job' = [job EXCEPT ![j] = [Idle EXCEPT !.at = "shifting", !.chain = job[j].chain, !.next = next]]

Advance(j, place) == job' = [job EXCEPT ![j].at = place]

-----------------------------------------------------------------------------
(* create: the depth of the parent and the name are checked, ... *)
StartCreate(j, slug, parent) ==
  /\ parent \in DOMAIN folders \cup {Null}
  /\ DepthAllows(parent)
  /\ Twins(Null, slug, parent) = {}
  /\ Start(j, [Idle EXCEPT !.at = "creating", !.slug = slug, !.to = parent])
  /\ UNCHANGED folderVars

(* ... and the row is written, if the parent is still there and the index  *)
(* takes it.                                                               *)
NewFolder == CHOOSE f \in Folders \ bornFolders : TRUE

WriteFolder(j, cms) ==
  LET f == NewFolder IN
    /\ job[j].at = "creating"
    /\ bornFolders # Folders
    /\ job[j].to \in DOMAIN folders \cup {Null}
    /\ IndexAllows(f, job[j].slug, job[j].to)
    /\ folders' = [g \in DOMAIN folders \cup {f} |->
                     IF g = f THEN [slug |-> job[j].slug, parent |-> job[j].to, cms |-> cms]
                     ELSE folders[g]]
    /\ bornFolders' = bornFolders \cup {f}
    /\ crossed' = (crossed \/ job[j].raced)
    /\ Finish(j)

(* rename: the name is looked for beside the folder and the old chain is   *)
(* kept, ...                                                               *)
StartRename(j, f, slug) ==
  /\ f \in DOMAIN folders
  /\ Twins(f, slug, folders[f].parent) = {}
  /\ WalkEnds(f)
  /\ Start(j, [Idle EXCEPT !.at = "renaming", !.id = f, !.slug = slug, !.chain = Chain(f)])
  /\ UNCHANGED folderVars

(* ... the row is written, and the new chain is the old one with another   *)
(* last slug.  Only a folder of scope cms has a directory to follow.       *)
WriteName(j) ==
  LET f == job[j].id  old == job[j].chain IN
    /\ job[j].at = "renaming"
    /\ f \in DOMAIN folders
    /\ IndexAllows(f, job[j].slug, folders[f].parent)
    /\ folders' = [folders EXCEPT ![f].slug = job[j].slug]
    /\ IF folders[f].cms
       THEN Follow(j, SubSeq(old, 1, Len(old) - 1) \o <<job[j].slug>>)
       ELSE Finish(j)
    /\ UNCHANGED <<bornFolders, crossed>>

(* move: not into itself, not below itself, not too deep, whatever the     *)
(* folder's own sub-folders; ...                                           *)
StartMove(j, f, parent) ==
  /\ f \in DOMAIN folders
  /\ parent \in DOMAIN folders \cup {Null}
  /\ parent # f
  /\ parent # Null => WalkEnds(parent) /\ ~IsDescendant(f, parent)
  /\ DepthAllows(parent)
  /\ WalkEnds(f)
  /\ Start(j, [Idle EXCEPT !.at = "moving", !.id = f, !.to = parent, !.chain = Chain(f)])
  /\ UNCHANGED folderVars

(* ... then the parent is written: the other moves that are past their     *)
(* checks have now checked a tree that is gone.                            *)
WriteParent(j) ==
  LET f == job[j].id IN
    /\ job[j].at = "moving"
    /\ f \in DOMAIN folders
    /\ job[j].to \in DOMAIN folders \cup {Null}
    /\ IndexAllows(f, folders[f].slug, job[j].to)
    /\ folders' = [folders EXCEPT ![f].parent = job[j].to]
    /\ crossed' = (crossed \/ job[j].raced)
    /\ job' = [i \in Jobs |->
                 IF i = j THEN [job[j] EXCEPT !.at = "moved", !.to = Null, !.raced = FALSE]
                 ELSE [job[i] EXCEPT !.raced = @ \/ job[i].at \in {"moving", "creating"}]]
    /\ UNCHANGED bornFolders

(* The new chain is read back; on a circle this walk never ends. *)
ReadChain(j) ==
  LET f == job[j].id IN
    /\ job[j].at = "moved"
    /\ f \in DOMAIN folders /\ WalkEnds(f)
    /\ IF folders[f].cms
       THEN Follow(j, Chain(f))
       ELSE Finish(j)
    /\ UNCHANGED folderVars
=============================================================================
