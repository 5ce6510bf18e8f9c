---------------------------- MODULE FolderTrash ----------------------------
(***************************************************************************)
(* Folders and the trash: moving a tree to the trash, restoring it,        *)
(* deleting it for good and cleaning it up after its retention.  Each of   *)
(* these is a recursion over the tree that runs a statement at a time, in  *)
(* no transaction, while other requests create, upload, trash and restore  *)
(* inside the same tree.                                                   *)
(*                                                                         *)
(* A process has a stack of frames, one per folder that its recursion is   *)
(* in.  What happens to the bytes of a deleted file is TrashLifecycle's;   *)
(* here a file is its row.  A DELETE may fail, because a favorite or a     *)
(* child references the row and the connection enforces foreign keys, and  *)
(* it may succeed all the same on a connection that does not.  No query's   *)
(* rows.Err() is looked at: one that fails in the middle (SQLite reports a  *)
(* locked database there) gives a part of its rows, or none, and the        *)
(* recursion goes on with those.                                           *)
(***************************************************************************)
EXTENDS Naturals, Sequences, FiniteSets

CONSTANTS
  Folders, Files,
  Handlers,       \* goroutines that serve HTTP requests
  Cleaner,        \* the goroutine of the retention cleanup
  None

Items == Folders \cup Files
Procs == Handlers \cup {Cleaner}

ASSUME FolderAssumption ==
  /\ None \notin Items /\ Cleaner \notin Handlers
  /\ Folders \cap Files = {}

VARIABLES
  status,   \* deleted_at of a row: not created, NULL, set, set > 30 days ago; deleted
  parent,   \* folders.parent_id and files.folder_id
  proc,     \* what each process does: operation, folders to begin with, stack
  binned,   \* history: items that were ever in the trash
  meddled,  \* history: items that others changed since the process began
  missed    \* history: subfolders that were left out of a list of the process

rows == <<status, parent>>
vars == <<rows, proc, binned, meddled, missed>>

InTrash == {"trashed", "expired"}
Exists(x) == status[x] \in {"live"} \cup InTrash

Idle == [op |-> "none", todo |-> {}, stack |-> <<>>]

Frame(d, pc, files, subs, file) ==
  [folder |-> d, pc |-> pc, files |-> files, subs |-> subs, file |-> file]

Frames == [folder : Folders \cup {None},
           pc : {"expired", "self", "files", "list", "subs", "check", "read", "erase", "drop"},
           files : SUBSET Files, subs : SUBSET Folders, file : Files \cup {None}]

TypeOK ==
  /\ status \in [Items -> {"none", "live", "gone"} \cup InTrash]
  /\ parent \in [Items -> Folders \cup {None}]
  /\ \A p \in Procs :
       /\ proc[p].op \in {"none", "trash", "restore", "purge", "empty", "clean"}
       /\ proc[p].todo \subseteq Folders
       /\ proc[p].stack \in Seq(Frames)
  /\ binned \subseteq Items
  /\ meddled \in [Procs -> SUBSET Items]
  /\ missed \in [Procs -> SUBSET Folders]

Init ==
  /\ status = [x \in Items |-> "none"]
  /\ parent = [x \in Items |-> None]
  /\ proc = [p \in Procs |-> Idle]
  /\ binned = {}
  /\ meddled = [p \in Procs |-> {}]
  /\ missed = [p \in Procs |-> {}]

Depth(p) == Len(proc[p].stack)

Top(p) == proc[p].stack[Depth(p)]

At(p, pc) == Depth(p) > 0 /\ Top(p).pc = pc

Moving(p) == proc[p].op \in {"trash", "restore"}

Begin(p, op, todo, stack) ==
  /\ proc[p] = Idle
  /\ proc' = [proc EXCEPT ![p] = [op |-> op, todo |-> todo, stack |-> stack]]

\* The innermost call of the recursion goes on in frame t.
GoOn(p, t) == proc' = [proc EXCEPT ![p].stack[Depth(p)] = t]

Goto(p, pc) == GoOn(p, [Top(p) EXCEPT !.pc = pc])

\* It returns: to its caller, to the loop over the folders, or it was the last.
Return(p, todo) ==
  proc' = [proc EXCEPT ![p] =
    IF Depth(p) = 1 /\ todo = {} THEN Idle
    ELSE [op |-> proc[p].op, todo |-> todo,
          stack |-> SubSeq(proc[p].stack, 1, Depth(p) - 1)]]

\* Where the recursion enters a folder.
Enter(op, d) ==
  Frame(d, IF op \in {"trash", "restore"} THEN "self"
           ELSE IF op = "clean" THEN "read" ELSE "check", {}, {}, None)

\* UPDATE ... WHERE id = ?
Set(x, st) == status' = IF Exists(x) THEN [status EXCEPT ![x] = st] ELSE status

-----------------------------------------------------------------------------
(* Creation.  Nobody looks whether the parent is in the trash; the parent   *)
(* of a folder was there when the request began, that of an upload is not   *)
(* looked at at all.  By the time of the INSERT it may be gone, which a     *)
(* connection that does not enforce foreign keys accepts.                   *)

Insert(x, d) ==
  /\ status[x] = "none"
  /\ d # None => status[d] # "none"
  /\ status' = [status EXCEPT ![x] = "live"]
  /\ parent' = [parent EXCEPT ![x] = d]
  /\ UNCHANGED proc

CreateFolder(c, d) == c \in Folders /\ Insert(c, d)

Upload(f, d) == f \in Files /\ Insert(f, d)

\* Trash and restore of a single file: what was read before the UPDATE only
\* says that the file was live, or was in the trash.
TrashFile(f) ==
  /\ status[f] = "live"
  /\ Set(f, "trashed")
  /\ UNCHANGED <<parent, proc>>

RestoreFile(f) ==
  /\ status[f] \in InTrash
  /\ Set(f, "live")
  /\ UNCHANGED <<parent, proc>>

-----------------------------------------------------------------------------
(* moveFolderToTrash and restoreFolderFromTrash. *)

BeginTrash(h, d) ==
  /\ status[d] = "live"
  /\ Begin(h, "trash", {}, <<Enter("trash", d)>>)
  /\ UNCHANGED rows

BeginRestore(h, d) ==
  /\ status[d] \in InTrash
  /\ Begin(h, "restore", {}, <<Enter("restore", d)>>)
  /\ UNCHANGED rows

Target(p) == IF proc[p].op = "trash" THEN "trashed" ELSE "live"

MoveFolder(p) ==
  /\ Moving(p) /\ At(p, "self")
  /\ Set(Top(p).folder, Target(p))
  /\ Goto(p, "files")
  /\ UNCHANGED parent

FilesOfAll(p) == {f \in Files : Exists(f)}   \* mutant: no folder_id = ?

\* Moving to the trash leaves the time of what is already there.
FilesIn(p) ==
  {f \in Files : /\ Exists(f) /\ parent[f] = Top(p).folder
                 /\ proc[p].op = "trash" => status[f] = "live"}

MoveFiles(p) ==
  /\ Moving(p) /\ At(p, "files")
  /\ status' = [x \in Items |-> IF x \in FilesIn(p) THEN Target(p) ELSE status[x]]
  /\ Goto(p, "list")
  /\ UNCHANGED parent

\* mutant: AND deleted_at IS NOT NULL, as the trash has IS NULL
SubsInTrash(p) == {c \in Folders : status[c] \in InTrash /\ parent[c] = Top(p).folder}

SubsOfAll(p) == {c \in Folders : Exists(c) /\ parent[c] # None}  \* mutant: no parent_id = ?

Subs(p) ==
  {c \in Folders : /\ Exists(c) /\ parent[c] = Top(p).folder
                   /\ proc[p].op = "trash" => status[c] = "live"}

ListSubs(p) ==
  /\ At(p, "list")
  /\ \E subs \in SUBSET Subs(p) : GoOn(p, [Top(p) EXCEPT !.pc = "subs", !.subs = subs])
  /\ UNCHANGED rows

Descend(p, c) ==
  /\ At(p, "subs")
  /\ c \in Top(p).subs
  /\ proc' = [proc EXCEPT ![p].stack =
       Append([proc[p].stack EXCEPT ![Depth(p)] = [Top(p) EXCEPT !.subs = @ \ {c}]],
              Enter(proc[p].op, c))]
  /\ UNCHANGED rows

Leave(p) ==
  /\ At(p, "subs")
  /\ Top(p).subs = {}
  /\ IF Moving(p) THEN Return(p, {}) ELSE Goto(p, "drop")
  /\ UNCHANGED rows

-----------------------------------------------------------------------------
(* permanentDeleteFolder, of the handlers and of the cleanup. *)

TopTrash(st) ==
  {d \in Folders : /\ status[d] \in st
                   /\ parent[d] = None \/ status[parent[d]] \notin InTrash}

BeginPurge(h, d) ==
  /\ Exists(d)
  /\ Begin(h, "purge", {}, <<Enter("purge", d)>>)
  /\ UNCHANGED rows

\* One file, or EmptyTrashHandler: first all the files that are in the trash.
BeginPurgeFiles(h, op, F) ==
  /\ op = "purge" => \E f \in Files : status[f] # "none" /\ F = {f}
  /\ op = "empty" => \A f \in F : status[f] \in InTrash
  /\ Begin(h, op, {}, <<Frame(None, "files", F, {}, None)>>)
  /\ UNCHANGED rows

\* runCleanup makes both of its lists before it deletes anything.
BeginClean ==
  /\ \E F \in SUBSET {f \in Files : status[f] = "expired"} :
       Begin(Cleaner, "clean", {}, <<Frame(None, "expired", F, {}, None)>>)
  /\ UNCHANGED rows

ListExpired ==
  /\ At(Cleaner, "expired")
  /\ \E todo \in SUBSET TopTrash({"expired"}) :
       proc' = [proc EXCEPT ![Cleaner] =
         [op |-> "clean", todo |-> todo, stack |-> <<[Top(Cleaner) EXCEPT !.pc = "files"]>>]]
  /\ UNCHANGED rows

NextFolder(p, d) ==
  /\ Depth(p) = 0
  /\ d \in proc[p].todo
  /\ proc' = [proc EXCEPT ![p] = [op |-> proc[p].op, todo |-> proc[p].todo \ {d},
                                 stack |-> <<Enter(proc[p].op, d)>>]]
  /\ UNCHANGED rows

DeletableByID(p, x) == Exists(x)   \* mutant: no AND deleted_at IS NOT NULL

\* The handlers look whether the row is in the trash; the cleanup does not.
Deletable(p, x) == p = Cleaner \/ status[x] \in InTrash

CheckFolder(p) ==
  /\ At(p, "check")
  /\ IF Deletable(p, Top(p).folder) THEN Goto(p, "read") ELSE Return(p, proc[p].todo)
  /\ UNCHANGED rows

ReadFiles(p) ==
  /\ At(p, "read")
  /\ \E files \in SUBSET {f \in Files : Exists(f) /\ parent[f] = Top(p).folder} :
       GoOn(p, [Top(p) EXCEPT !.pc = "files", !.files = files])
  /\ UNCHANGED rows

PickFile(p, f) ==
  /\ ~ Moving(p) /\ At(p, "files")
  /\ f \in Top(p).files
  /\ GoOn(p, IF Deletable(p, f)
             THEN [Top(p) EXCEPT !.pc = "erase", !.files = @ \ {f}, !.file = f]
             ELSE [Top(p) EXCEPT !.files = @ \ {f}])
  /\ UNCHANGED rows

EraseFile(p, erased) ==
  /\ At(p, "erase")
  /\ erased => Exists(Top(p).file)
  /\ status' = IF erased THEN [status EXCEPT ![Top(p).file] = "gone"] ELSE status
  /\ GoOn(p, [Top(p) EXCEPT !.pc = "files", !.file = None])
  /\ UNCHANGED parent

FilesDone(p) ==
  /\ ~ Moving(p) /\ At(p, "files")
  /\ Top(p).files = {}
  /\ IF Top(p).folder # None THEN Goto(p, "list")
     ELSE \E todo \in SUBSET TopTrash(InTrash) :
            Return(p, IF proc[p].op = "empty" THEN todo ELSE proc[p].todo)
  /\ UNCHANGED rows

DropFolder(p, erased) ==
  /\ At(p, "drop")
  /\ erased => Exists(Top(p).folder)
  /\ status' = IF erased THEN [status EXCEPT ![Top(p).folder] = "gone"] ELSE status
  /\ Return(p, proc[p].todo)
  /\ UNCHANGED parent

-----------------------------------------------------------------------------
\* A statement fails at its start.  A move gives up; a deletion gives up the folder it is in.
Fail(p) ==
  /\ Depth(p) > 0
  /\ IF Moving(p)
     THEN Top(p).pc # "subs" /\ proc' = [proc EXCEPT ![p] = Idle]
     ELSE Top(p).pc \in {"check", "read", "list"} /\ Return(p, proc[p].todo)
  /\ UNCHANGED rows

Age(x) ==
  /\ status[x] = "trashed"
  /\ status' = [status EXCEPT ![x] = "expired"]
  /\ UNCHANGED <<parent, proc>>

Restart ==
  /\ proc' = [p \in Procs |-> Idle]
  /\ UNCHANGED rows

BeginStep(h) ==
  \/ \E d \in Folders : BeginTrash(h, d) \/ BeginRestore(h, d) \/ BeginPurge(h, d)
  \/ \E F \in SUBSET Files : BeginPurgeFiles(h, "purge", F) \/ BeginPurgeFiles(h, "empty", F)

MoveStep(p) == MoveFolder(p) \/ MoveFiles(p)

WalkStep(p) == ListSubs(p) \/ (\E c \in Folders : Descend(p, c)) \/ Leave(p)

DeleteStep(p) ==
  \/ \E d \in Folders : NextFolder(p, d)
  \/ CheckFolder(p)
  \/ ReadFiles(p)
  \/ \E f \in Files : PickFile(p, f)
  \/ FilesDone(p)
  \/ \E erased \in BOOLEAN : EraseFile(p, erased) \/ DropFolder(p, erased)

RowStep ==
  \/ \E x \in Items, d \in Folders \cup {None} : CreateFolder(x, d) \/ Upload(x, d)
  \/ \E f \in Files : TrashFile(f) \/ RestoreFile(f)
  \/ \E x \in Items : Age(x)

ItemsChanged == {x \in Items : status'[x] # status[x] \/ parent'[x] # parent[x]}

\* The history variables.
Record ==
  /\ binned' = binned \cup {x \in Items : status'[x] \in InTrash}
  /\ meddled' = [p \in Procs |->
       CASE proc'[p].op # "restore"  -> {}
         [] proc'[p] # proc[p]       -> meddled[p]
         [] OTHER                    -> meddled[p] \cup ItemsChanged]
  /\ missed' = [p \in Procs |->
       IF proc'[p].op # "restore" THEN {}
       ELSE IF At(p, "list") /\ proc'[p] # proc[p] THEN missed[p] \cup (Subs(p) \ Top(p)'.subs)
       ELSE missed[p]]

Step ==
  \/ \E h \in Handlers : BeginStep(h) \/ MoveStep(h)
  \/ BeginClean \/ ListExpired
  \/ \E p \in Procs : WalkStep(p) \/ DeleteStep(p) \/ Fail(p)
  \/ RowStep

Next == (Step \/ Restart) /\ Record

Spec == Init /\ [][Next]_vars

-----------------------------------------------------------------------------
(* Properties. *)

\* What lies in a folder of S that is one of the given folders lies in S.
Closed(S, through) == \A x \in Items : parent[x] \in S \cap through => x \in S

\* The folders and files below d through the given folders, and d itself: the
\* least closed set with d in it.
Below(d, through) ==
  {x \in Items : \A S \in SUBSET Items : d \in S /\ Closed(S, through) => x \in S}

\* The stack of a recursion is a path down the tree, and the rows that a frame
\* has listed are in its folder: parents are never changed under it.
StackIsPath ==
  \A p \in Procs : \A i \in 1..Depth(p) :
    LET t == proc[p].stack[i]
    IN /\ i > 1 => parent[t.folder] = proc[p].stack[i-1].folder
       /\ \A c \in t.subs : parent[c] = t.folder
       /\ t.folder # None => \A f \in t.files \cup ({t.file} \ {None}) : parent[f] = t.folder

\* A row that is not there has no parent, and the parent of one that is was there.
ParentsKnown ==
  \A x \in Items : /\ status[x] = "none" => parent[x] = None
                   /\ parent[x] # None => status[parent[x]] # "none"

\* What restore h needs not write any more: others changed it, a list of its
\* left it out, or it is live.
Settled(h, x) == x \in meddled[h] \cup missed[h] \/ status[x] \in {"live", "gone"}

FilesSettled(h, d) == \A f \in Files : parent[f] = d => Settled(h, f)

SubsIn(h, d, C) ==
  \A c \in Folders : parent[c] = d => c \in C \cup missed[h] \/ status[c] = "gone"

\* Restore h did in frame t what comes before its next statement, where the
\* folders of V are those that were entered, or created meanwhile.
FrameRestored(h, V, t) ==
  /\ t.folder \in V
  /\ t.pc # "self" => Settled(h, t.folder)
  /\ t.pc \in {"list", "subs"} => FilesSettled(h, t.folder)
  /\ t.pc = "subs" => SubsIn(h, t.folder, V \cup t.subs)

FolderRestored(h, V, d) == Settled(h, d) /\ FilesSettled(h, d) /\ SubsIn(h, d, V)

FramesOf(h) == {proc[h].stack[i] : i \in 1..Depth(h)}

Restored(h, V) ==
  /\ \A t \in FramesOf(h) : FrameRestored(h, V, t)
  /\ \A d \in V : d \in {t.folder : t \in FramesOf(h)} \/ FolderRestored(h, V, d)

\* Each folder that a restore entered is on its stack, or is settled with its
\* files, and its subfolders were entered as well.
RestoresOnTheWay ==
  \A h \in Handlers : proc[h].op = "restore" => \E V \in SUBSET Folders : Restored(h, V)

\* What every process holds is typed and consistent with the tree, and what a
\* restore has left behind it is restored.
IInv == TypeOK /\ StackIsPath /\ ParentsKnown /\ RestoresOnTheWay

\* However its recursion interleaves with changes to the tree, an operation on
\* a folder writes rows of that folder's subtree only.
StaysInside ==
  [][\A p \in Procs :
       proc'[p] # proc[p] /\ Depth(p) > 0 /\ proc[p].stack[1].folder # None
         => ItemsChanged \subseteq Below(proc[p].stack[1].folder, Folders)]_vars

\* An owner's permanent deletion, of a file, of a tree or of the whole trash,
\* deletes nothing that was never in the trash, though the recursion lists
\* live files and folders too.
OwnersDeleteTrashOnly ==
  [][\A h \in Handlers, x \in Items :
       proc'[h] # proc[h] /\ status'[x] = "gone" /\ status[x] # "gone" => x \in binned]_vars

\* trash_handlers.go:363, "recursively restores a folder and its contents":
\* when a restore reports success, what is below the folder and was touched by
\* nobody else meanwhile is live, whatever else was created, deleted or moved.
\* A subfolder that a failing query left out of a list is excepted, with what is
\* below it: the code does not notice it.
RestoreIsComplete ==
  [][\A h \in Handlers :
       proc[h].op = "restore" /\ Depth(h) = 1 /\ Leave(h)
         => \A x \in Below(Top(h).folder, {d \in Folders : Exists(d)} \ missed[h])
                   \ (meddled[h] \cup missed[h]) :
              status[x] \in {"live", "gone"}]_vars

\* trash_cleanup.go:54, "checks for items in trash older than 30 days and
\* deletes them": what the cleanup deletes was in the trash at some time.
CleanupDeletesTrashOnly ==
  [][\A x \in Items :
       proc'[Cleaner] # proc[Cleaner] /\ status'[x] = "gone" /\ status[x] # "gone"
         => x \in binned]_vars
=============================================================================
