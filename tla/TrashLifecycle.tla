--------------------------- MODULE TrashLifecycle ---------------------------
(***************************************************************************)
(* The life of an uploaded file in the controller: the upload that copies  *)
(* it to the storage nodes, the trash, the three ways it is permanently    *)
(* deleted (by its owner from the trash, by the retention cleanup, and     *)
(* directly on the nodes), the queue of deletions that wait for an offline *)
(* node, and the health monitor that drains the queue.                     *)
(*                                                                         *)
(* A file stands for one upload.  A node that stores it invents its own    *)
(* file id, so the controller's row knows the copy on one node only, the   *)
(* "primary"; every other node answers 404 to that id.                     *)
(*                                                                         *)
(* Every handler, the cleanup, the monitor and its workers are goroutines  *)
(* of their own: one SQL statement or one HTTP exchange with a node is one *)
(* step.                                                                   *)
(***************************************************************************)
EXTENDS Naturals

CONSTANTS
  Files,        \* uploads
  Nodes,        \* storage nodes, by the id of their storage_nodes row
  Registered,   \* the nodes whose configured node_id is the id of that row
  Foldered,     \* the uploads that go into a folder
  Handlers,     \* goroutines that serve HTTP requests
  Services,     \* the background services of main.go that run in this instance
  None,
  Lossy,        \* a running node may refuse a call, and its answer may be lost
  MaxDisruptions \* bound on node stops, administrators' changes and restarts

\* Who queues a deletion: an owner's request, or the cleanup.
Deleters == {"owner", "cleanup"}
Entries  == Files \X Deleters

ASSUME TrashAssumption ==
  /\ Registered \subseteq Nodes
  /\ Foldered \subseteq Files
  /\ None \notin Nodes \cup Files \cup Entries
  /\ Services \subseteq {"cleanup", "monitor"}
  /\ Lossy \in BOOLEAN
  /\ MaxDisruptions \in Nat

VARIABLES
  rows,            \* files: no row, live, in the trash, in the trash > 30 days
  primary,         \* files.node_id: the node whose id for the file is kept
  favorites,       \* files with a row of favorites that references them
  pending,         \* pending_deletions: status of the row for a file and who queued it
  active,          \* storage_nodes with is_active = 1
  copies,          \* the nodes that hold the file's bytes on disk
  up,              \* the nodes that run and are reachable
  endpoints,       \* OSNodeClient.endpoints
  previousStatus,  \* Monitor.previousStatus: the nodes last seen healthy
  check,           \* the node the monitor is at and whether it answered
  worker,          \* processPendingDeletions, a goroutine per node
  handler,         \* the request handlers: where each is, and on which files
  cleaner,         \* runCleanup
  disruptions,     \* how many of the bounded events happened so far
  condemned,       \* history: files whose permanent deletion was ever begun
  givenUp          \* history: files whose bytes a deletion gave up: the database
                   \* called the node online, or no entry could be queued

dbVars    == <<rows, primary, favorites, pending, active>>
nodeVars  == <<copies, up>>
monVars   == <<previousStatus, check, worker>>
procVars  == <<handler, cleaner>>
history   == <<condemned, givenUp>>
vars == <<dbVars, nodeVars, endpoints, monVars, procVars, disruptions, history>>

InTrash  == {"trashed", "expired"}
Idle     == [pc |-> "idle", file |-> None, todo |-> {}]
NoWorker == [started |-> FALSE, todo |-> {}, deleted |-> None]

HandlerPcs == {"idle", "send", "trash", "restore", "select", "call", "forget",
               "check", "queue", "erase", "dcall", "dforget"}

TypeOK ==
  /\ rows \in [Files -> {"none", "live"} \cup InTrash]
  /\ primary \in [Files -> Nodes \cup {None}]
  /\ favorites \subseteq Files
  /\ pending \in [Entries -> {"none", "pending", "completed"}]
  /\ active \subseteq Nodes
  /\ copies \in [Files -> SUBSET Nodes]
  /\ up \subseteq Nodes
  /\ endpoints \subseteq Nodes
  /\ previousStatus \subseteq Nodes
  /\ check \in [node : Nodes \cup {None}, healthy : BOOLEAN]
  /\ worker \in [Nodes -> [started : BOOLEAN, todo : SUBSET Entries,
                         deleted : Entries \cup {None}]]
  /\ handler \in [Handlers -> [pc : HandlerPcs, file : Files \cup {None},
                               todo : SUBSET (Files \cup Nodes)]]
  /\ cleaner \in [pc : {"idle", "pick", "queue", "erase"}, file : Files \cup {None},
                  todo : SUBSET Files]
  /\ disruptions \in 0..MaxDisruptions
  /\ condemned \subseteq Files
  /\ givenUp \subseteq Files

Init ==
  /\ rows = [f \in Files |-> "none"]
  /\ primary = [f \in Files |-> None]
  /\ favorites = {}
  /\ pending = [e \in Entries |-> "none"]
  /\ active \in SUBSET Nodes
  /\ copies = [f \in Files |-> {}]
  /\ up \in SUBSET Nodes
  /\ endpoints = active
  /\ previousStatus = {}
  /\ check = [node |-> None, healthy |-> FALSE]
  /\ worker = [n \in Nodes |-> NoWorker]
  /\ handler = [h \in Handlers |-> Idle]
  /\ cleaner = Idle
  /\ disruptions = 0
  /\ condemned = {}
  /\ givenUp = {}

-----------------------------------------------------------------------------
(* What a call to a node does. *)

\* How an HTTP exchange with node n ends: answered, carried out but the
\* answer lost, or not carried out.
Outcomes(n) ==
  IF n \notin up THEN {"refused"}
  ELSE IF Lossy THEN {"ok", "lost", "refused"} ELSE {"ok"}

CarriedOut(o) == o \in {"ok", "lost"}

AnsweredUnlessLost(o) == o # "lost"    \* mutant: an error status is not looked at

Answered(o) == o = "ok"

\* DELETE on a node unlinks the bytes; it is idempotent.
Unlink(f, n, o) ==
  copies' = IF CarriedOut(o) THEN [copies EXCEPT ![f] = @ \ {n}] ELSE copies

\* The ways DeleteFromNode can end: only the primary knows the id, so it ends
\* well when the primary is a cached endpoint and answers 204.
DeleteOutcomes(f) ==
  IF primary[f] \in endpoints THEN Outcomes(primary[f]) ELSE {"refused"}

\* isStorageNodeOnline of the row's node_id, which names no storage_nodes row
\* when the node was not configured with the id of its row.
Online(f) == primary[f] \in Registered \cap active

\* History: a deletion that reads "online" queues nothing.
Spare(f) == givenUp' = IF Online(f) THEN givenUp \cup {f} ELSE givenUp

\* DELETE FROM files.  It can find the database locked; and as long as a
\* favorite references the row, it fails on every connection where foreign
\* keys are enforced.
DeleteRow(f, erased) == rows' = IF erased THEN [rows EXCEPT ![f] = "none"] ELSE rows

\* mutant: an online node is the one that gets the entry
EnqueueIfOnline(f, d) ==
  /\ pending' = IF Online(f) THEN [pending EXCEPT ![<<f, d>>] = "pending"] ELSE pending
  /\ UNCHANGED givenUp

\* INSERT INTO pending_deletions.  The handler looks whether the node exists;
\* the cleanup leaves that to a foreign key, enforced on some connections only.
\* Either statement can fail for any node, is logged, and the deletion goes on.
Enqueue(f, d) ==
  \/ /\ primary[f] \in Registered \/ d = "cleanup"
     /\ pending' = [pending EXCEPT ![<<f, d>>] = "pending"]
     /\ UNCHANGED givenUp
  \/ /\ givenUp' = givenUp \cup {f}
     /\ UNCHANGED pending

SetHandler(h, pc, f, todo) ==
  handler' = [handler EXCEPT ![h] = [pc |-> pc, file |-> f, todo |-> todo]]

Goto(h, pc) == SetHandler(h, pc, handler[h].file, handler[h].todo)

Done(h) == handler' = [handler EXCEPT ![h] = Idle]

\* EmptyTrashHandler goes on with its next file; a handler of one file is done.
NextFile(h, todo) ==
  handler' = [handler EXCEPT ![h] =
    IF todo = {} THEN Idle ELSE [pc |-> "select", file |-> None, todo |-> todo]]

At(h, pc) == handler[h].pc = pc

Uploading(f) == \E h \in Handlers : At(h, "send") /\ handler[h].file = f

-----------------------------------------------------------------------------
(* Upload: the file is sent to every endpoint, then its row is inserted. *)

BeginUpload(h, f) ==
  /\ At(h, "idle")
  /\ endpoints # {}
  /\ primary[f] = None /\ copies[f] = {} /\ ~ Uploading(f)
  /\ SetHandler(h, "send", f, endpoints)
  /\ UNCHANGED <<dbVars, nodeVars, endpoints, monVars, cleaner, disruptions, history>>

\* POST on a node writes the bytes under a file id of the node's own.
Store(f, n, o) ==
  copies' = IF CarriedOut(o) THEN [copies EXCEPT ![f] = @ \cup {n}] ELSE copies

\* The first node that answers is the one that the controller's row will name.
SendCopy(h, n) ==
  LET f == handler[h].file IN
  /\ At(h, "send")
  /\ n \in handler[h].todo
  /\ \E o \in Outcomes(n) :
       /\ Store(f, n, o)
       /\ primary' = IF Answered(o) /\ primary[f] = None
                     THEN [primary EXCEPT ![f] = n] ELSE primary
  /\ SetHandler(h, "send", f, handler[h].todo \ {n})
  /\ UNCHANGED <<rows, favorites, pending, active, up, endpoints, monVars,
                 cleaner, disruptions, history>>

\* A failed INSERT is only logged: the client still gets 201 and the file id.
FinishUpload(h, stored) ==
  LET f == handler[h].file IN
  /\ At(h, "send")
  /\ handler[h].todo = {}
  /\ stored => primary[f] # None
  /\ rows' = IF stored THEN [rows EXCEPT ![f] = "live"] ELSE rows
  /\ Done(h)
  /\ UNCHANGED <<primary, favorites, pending, active, nodeVars, endpoints, monVars,
                 cleaner, disruptions, history>>

-----------------------------------------------------------------------------
(* The trash: each handler reads the row, then updates it by id alone. *)

BeginTrash(h, f) ==
  /\ At(h, "idle")
  /\ rows[f] = "live"
  /\ SetHandler(h, "trash", f, {})
  /\ UNCHANGED <<dbVars, nodeVars, endpoints, monVars, cleaner, disruptions, history>>

BeginRestore(h, f) ==
  /\ At(h, "idle")
  /\ rows[f] \in InTrash
  /\ SetHandler(h, "restore", f, {})
  /\ UNCHANGED <<dbVars, nodeVars, endpoints, monVars, cleaner, disruptions, history>>

SetOrInsertRow(f, status) == rows' = [rows EXCEPT ![f] = status]  \* mutant: an upsert

\* UPDATE ... WHERE id = ?: no effect when the row is gone by now.
SetRow(f, status) ==
  rows' = IF rows[f] = "none" THEN rows ELSE [rows EXCEPT ![f] = status]

CommitTrash(h) ==
  /\ At(h, "trash")
  /\ SetRow(handler[h].file, "trashed")
  /\ Done(h)
  /\ UNCHANGED <<primary, favorites, pending, active, nodeVars, endpoints, monVars,
                 cleaner, disruptions, history>>

CommitRestore(h) ==
  /\ At(h, "restore")
  /\ SetRow(handler[h].file, "live")
  /\ Done(h)
  /\ UNCHANGED <<primary, favorites, pending, active, nodeVars, endpoints, monVars,
                 cleaner, disruptions, history>>

AddFavorite(f) ==
  /\ rows[f] = "live"
  /\ favorites' = favorites \cup {f}
  /\ UNCHANGED <<rows, primary, pending, active, nodeVars, endpoints, monVars,
                 procVars, disruptions, history>>

RemoveFavorite(f) ==
  /\ f \in favorites
  /\ favorites' = favorites \ {f}
  /\ UNCHANGED <<rows, primary, pending, active, nodeVars, endpoints, monVars,
                 procVars, disruptions, history>>

-----------------------------------------------------------------------------
(* Permanent deletion from the trash: PermanentDelete of one file or of the *)
(* files in a folder, or Empty over the files in the trash when it starts.  *)

BeginPurge(h, F) ==
  /\ At(h, "idle")
  /\ F # {}
  /\ \/ \E f \in F : F = {f}
     \/ F \subseteq Foldered
     \/ F = {f \in Files : rows[f] \in InTrash}
  /\ SetHandler(h, "select", None, F)
  /\ UNCHANGED <<dbVars, nodeVars, endpoints, monVars, cleaner, disruptions, history>>

\* mutant: every file of the list is deleted, restored or not
SelectListed(h, f) ==
  /\ At(h, "select")
  /\ f \in handler[h].todo
  /\ SetHandler(h, "call", f, handler[h].todo \ {f})
  /\ condemned' = condemned \cup {f}
  /\ UNCHANGED <<dbVars, nodeVars, endpoints, monVars, cleaner, disruptions, givenUp>>

\* permanentDeleteFile reads the row again and gives up unless it is trashed.
SelectFile(h, f) ==
  /\ At(h, "select")
  /\ f \in handler[h].todo
  /\ IF rows[f] \in InTrash
     THEN /\ SetHandler(h, "call", f, handler[h].todo \ {f})
          /\ condemned' = condemned \cup {f}
     ELSE /\ NextFile(h, handler[h].todo \ {f})
          /\ UNCHANGED condemned
  /\ UNCHANGED <<dbVars, nodeVars, endpoints, monVars, cleaner, disruptions, givenUp>>

\* DeleteFromNode: DELETE at the nodes, then (Forget) the row; an error of
\* either sends the handler to look whether the node is offline.
CallNode(h) ==
  /\ At(h, "call")
  /\ \E o \in DeleteOutcomes(handler[h].file) :
       /\ Unlink(handler[h].file, primary[handler[h].file], o)
       /\ Goto(h, IF Answered(o) THEN "forget" ELSE "check")
  /\ UNCHANGED <<dbVars, up, endpoints, monVars, cleaner, disruptions, history>>

Forget(h, erased) ==
  /\ At(h, "forget")
  /\ DeleteRow(handler[h].file, erased)
  /\ Goto(h, IF erased THEN "erase" ELSE "check")
  /\ UNCHANGED <<primary, favorites, pending, active, nodeVars, endpoints, monVars,
                 cleaner, disruptions, history>>

CheckNode(h) ==
  /\ At(h, "check")
  /\ Goto(h, IF Online(handler[h].file) THEN "erase" ELSE "queue")
  /\ Spare(handler[h].file)
  /\ UNCHANGED <<dbVars, nodeVars, endpoints, monVars, cleaner, disruptions, condemned>>

QueueDeletion(h) ==
  /\ At(h, "queue")
  /\ Enqueue(handler[h].file, "owner")
  /\ Goto(h, "erase")
  /\ UNCHANGED <<rows, primary, favorites, active, nodeVars, endpoints, monVars,
                 cleaner, disruptions, condemned>>

Erase(h, erased) ==
  /\ At(h, "erase")
  /\ DeleteRow(handler[h].file, erased)
  /\ NextFile(h, handler[h].todo)
  /\ UNCHANGED <<primary, favorites, pending, active, nodeVars, endpoints, monVars,
                 cleaner, disruptions, history>>

-----------------------------------------------------------------------------
(* DeleteFileHandler: no trash, the owner is read from the node itself. *)

BeginDirect(h, f) ==
  /\ At(h, "idle")
  /\ ~ Uploading(f)
  /\ primary[f] \in endpoints \cap up
  /\ SetHandler(h, "dcall", f, {})
  /\ condemned' = condemned \cup {f}
  /\ UNCHANGED <<dbVars, nodeVars, endpoints, monVars, cleaner, disruptions, givenUp>>

DirectCall(h) ==
  /\ At(h, "dcall")
  /\ \E o \in DeleteOutcomes(handler[h].file) :
       /\ Unlink(handler[h].file, primary[handler[h].file], o)
       /\ IF Answered(o) THEN Goto(h, "dforget") ELSE Done(h)
  /\ UNCHANGED <<dbVars, up, endpoints, monVars, cleaner, disruptions, history>>

DirectForget(h, erased) ==
  /\ At(h, "dforget")
  /\ DeleteRow(handler[h].file, erased)
  /\ Done(h)
  /\ UNCHANGED <<primary, favorites, pending, active, nodeVars, endpoints, monVars,
                 cleaner, disruptions, history>>

-----------------------------------------------------------------------------
(* The retention cleanup.  runCleanup takes its list of expired files once  *)
(* and deletes each of them without looking at the row again; then it goes  *)
(* through the folders that are expired, and deletes all files in them.     *)

NotExpired(f) == rows[f] = "trashed"   \* mutant: deleted_at > cutoff

Expired(f) == rows[f] = "expired"

CleanSelect ==
  LET expired == {f \in Files : Expired(f)} IN
  /\ "cleanup" \in Services
  /\ cleaner.pc = "idle"
  /\ expired # {}
  /\ cleaner' = [pc |-> "pick", file |-> None, todo |-> expired]
  /\ condemned' = condemned \cup expired
  /\ UNCHANGED <<dbVars, nodeVars, endpoints, monVars, handler, disruptions, givenUp>>

\* permanentDeleteFolder lists whatever rows are in the folder, live ones too.
\* Which folders are expired is FolderTrash's business: here, any of them.
CleanFolder(F) ==
  /\ "cleanup" \in Services
  /\ cleaner.pc = "idle"
  /\ F # {}
  /\ \A f \in F : rows[f] # "none"
  /\ cleaner' = [pc |-> "pick", file |-> None, todo |-> F]
  /\ condemned' = condemned \cup F
  /\ UNCHANGED <<dbVars, nodeVars, endpoints, monVars, handler, disruptions, givenUp>>

\* Only a node that the database says is offline gets a queued deletion.
CleanPick(f) ==
  /\ cleaner.pc = "pick"
  /\ f \in cleaner.todo
  /\ cleaner' = [pc |-> IF Online(f) THEN "erase" ELSE "queue",
                 file |-> f, todo |-> cleaner.todo \ {f}]
  /\ Spare(f)
  /\ UNCHANGED <<dbVars, nodeVars, endpoints, monVars, handler, disruptions, condemned>>

CleanQueue ==
  /\ cleaner.pc = "queue"
  /\ Enqueue(cleaner.file, "cleanup")
  /\ cleaner' = [cleaner EXCEPT !.pc = "erase"]
  /\ UNCHANGED <<rows, primary, favorites, active, nodeVars, endpoints, monVars,
                 handler, disruptions, condemned>>

\* A DELETE that fails is logged and the loop goes on.
CleanErase(erased) ==
  /\ cleaner.pc = "erase"
  /\ DeleteRow(cleaner.file, erased)
  /\ cleaner' = IF cleaner.todo = {} THEN Idle
                ELSE [pc |-> "pick", file |-> None, todo |-> cleaner.todo]
  /\ UNCHANGED <<primary, favorites, pending, active, nodeVars, endpoints, monVars,
                 handler, disruptions, history>>

-----------------------------------------------------------------------------
(* The health monitor and the workers it starts. *)

SetWorker(n, started, todo, deleted) ==
  worker' = [worker EXCEPT ![n] = [started |-> started, todo |-> todo, deleted |-> deleted]]


WasOffline(n) == n \notin previousStatus

\* checkAllNodes at node n: the health check, the worker when the node was
\* not healthy at the previous check, the new previousStatus.  is_active is
\* written afterwards, from the answer of the health check.
MonitorCheck(n, healthy) ==
  /\ "monitor" \in Services
  /\ check.node = None
  /\ healthy => n \in up
  /\ Lossy \/ (healthy <=> n \in up)
  /\ IF healthy /\ WasOffline(n)
     THEN SetWorker(n, TRUE, worker[n].todo, worker[n].deleted)
     ELSE UNCHANGED worker
  /\ previousStatus' = IF healthy THEN previousStatus \cup {n} ELSE previousStatus \ {n}
  /\ check' = [node |-> n, healthy |-> healthy]
  /\ UNCHANGED <<dbVars, nodeVars, endpoints, procVars, disruptions, history>>

MonitorUpdate ==
  /\ check.node # None
  /\ active' = IF check.healthy THEN active \cup {check.node} ELSE active \ {check.node}
  /\ check' = [node |-> None, healthy |-> FALSE]
  /\ UNCHANGED <<rows, primary, favorites, pending, nodeVars, endpoints,
                 previousStatus, worker, procVars, disruptions, history>>

\* The worker's list, of the entries that name its node, is read once.  A node
\* whose worker is started again while the last one still runs has the union
\* of the two lists to do.
WorkerSelect(n) ==
  /\ worker[n].started
  /\ SetWorker(n, FALSE,
       worker[n].todo \cup {e \in Entries : /\ pending[e] = "pending"
                                             /\ primary[e[1]] = n
                                             /\ n \in Registered},
       worker[n].deleted)
  /\ UNCHANGED <<dbVars, nodeVars, endpoints, previousStatus, check, procVars,
                 disruptions, history>>

\* A failed DELETE leaves the entry pending, and this worker goes on.
WorkerDelete(n, e) ==
  /\ worker[n].deleted = None
  /\ e \in worker[n].todo
  /\ \E o \in Outcomes(n) :
       /\ Unlink(e[1], n, o)
       /\ SetWorker(n, worker[n].started, worker[n].todo \ {e},
                    IF Answered(o) THEN e ELSE None)
  /\ UNCHANGED <<dbVars, up, endpoints, previousStatus, check, procVars, disruptions, history>>

\* The worker's cursor on pending_deletions is still open: the UPDATE can find
\* the database locked, and its error is ignored.
WorkerComplete(n, updated) ==
  /\ worker[n].deleted # None
  /\ pending' = IF updated THEN [pending EXCEPT ![worker[n].deleted] = "completed"]
                ELSE pending
  /\ SetWorker(n, worker[n].started, worker[n].todo, None)
  /\ UNCHANGED <<rows, primary, favorites, active, nodeVars, endpoints,
                 previousStatus, check, procVars, disruptions, history>>

-----------------------------------------------------------------------------
(* Everything else that happens to this state. *)

\* 30 days pass over a trashed file.
Age(f) ==
  /\ rows[f] = "trashed"
  /\ rows' = [rows EXCEPT ![f] = "expired"]
  /\ UNCHANGED <<primary, favorites, pending, active, nodeVars, endpoints, monVars,
                 procVars, disruptions, history>>

Disrupt ==
  /\ disruptions < MaxDisruptions
  /\ disruptions' = disruptions + 1

NodeDown(n) ==
  /\ n \in up
  /\ up' = up \ {n}
  /\ Disrupt
  /\ UNCHANGED <<dbVars, copies, endpoints, monVars, procVars, history>>

NodeUp(n) ==
  /\ n \notin up
  /\ up' = up \cup {n}
  /\ UNCHANGED <<dbVars, copies, endpoints, monVars, procVars, disruptions, history>>

\* An administrator or the provisioning handlers change is_active of node n
\* (or leave it, and only reload): refreshNodeClient follows.
SetActive(n, isActive) ==
  LET newActive == IF isActive THEN active \cup {n} ELSE active \ {n} IN
  /\ active' = newActive
  /\ endpoints' = newActive
  /\ Disrupt
  /\ UNCHANGED <<rows, primary, favorites, pending, nodeVars, monVars, procVars,
                 history>>

\* The controller stops and starts again: what is not in the database is lost,
\* and the client's endpoints are read anew.
Restart ==
  /\ Disrupt
  /\ primary' = [f \in Files |-> IF Uploading(f) THEN None ELSE primary[f]]
  /\ endpoints' = active
  /\ previousStatus' = {}
  /\ check' = [node |-> None, healthy |-> FALSE]
  /\ worker' = [n \in Nodes |-> NoWorker]
  /\ handler' = [h \in Handlers |-> Idle]
  /\ cleaner' = Idle
  /\ UNCHANGED <<rows, favorites, pending, active, nodeVars, history>>

-----------------------------------------------------------------------------
UploadStep(h)  == \/ \E f \in Files : BeginUpload(h, f)
                  \/ \E n \in Nodes : SendCopy(h, n)
                  \/ \E stored \in BOOLEAN : FinishUpload(h, stored)
TrashStep(h)   == \/ \E f \in Files : BeginTrash(h, f) \/ BeginRestore(h, f)
                  \/ CommitTrash(h)
                  \/ CommitRestore(h)
PurgeStep(h)   == \/ \E F \in SUBSET Files : BeginPurge(h, F)
                  \/ \E f \in Files : SelectFile(h, f)
                  \/ CallNode(h)
                  \/ CheckNode(h)
                  \/ QueueDeletion(h)
                  \/ \E erased \in BOOLEAN : Forget(h, erased) \/ Erase(h, erased)
DirectStep(h)  == \/ \E f \in Files : BeginDirect(h, f)
                  \/ DirectCall(h)
                  \/ \E erased \in BOOLEAN : DirectForget(h, erased)
CleanStep      == \/ CleanSelect
                  \/ \E F \in SUBSET Foldered : CleanFolder(F)
                  \/ \E f \in Files : CleanPick(f)
                  \/ CleanQueue
                  \/ \E erased \in BOOLEAN : CleanErase(erased)
WorkerStep(n)  == \/ WorkerSelect(n)
                  \/ \E e \in Entries : WorkerDelete(n, e)
                  \/ \E updated \in BOOLEAN : WorkerComplete(n, updated)
MonitorStep(n) == \E healthy \in BOOLEAN : MonitorCheck(n, healthy)

Next ==
  \/ \E h \in Handlers : UploadStep(h) \/ TrashStep(h) \/ PurgeStep(h) \/ DirectStep(h)
  \/ CleanStep
  \/ \E n \in Nodes : MonitorStep(n) \/ WorkerStep(n)
  \/ MonitorUpdate
  \/ \E f \in Files : AddFavorite(f) \/ RemoveFavorite(f) \/ Age(f)
  \/ \E n \in Nodes : NodeDown(n) \/ NodeUp(n)
  \/ \E n \in Nodes, isActive \in BOOLEAN : SetActive(n, isActive)
  \/ Restart

Spec == Init /\ [][Next]_vars

\* The cleanup runs on a ticker, for as long as the controller does: it lists
\* the expired files again and again, whatever folders it lists besides, and
\* goes through its lists.  The database is not locked for ever, at every
\* DELETE of a row that no favorite references.
Erased(f) == f \notin favorites /\ cleaner.file = f /\ CleanErase(TRUE)

CleanupFairness ==
  /\ SF_vars(CleanSelect)
  /\ WF_vars(cleaner.pc # "idle" /\ CleanStep)
  /\ \A f \in Files : SF_vars(Erased(f))

\* So does the monitor, whose loop visits every node, however often it is at
\* another one; a worker is a loop over its list.
MonitorFairness ==
  /\ WF_vars(MonitorUpdate)
  /\ \A n \in Nodes : SF_vars(MonitorStep(n)) /\ WF_vars(WorkerStep(n))

FairSpec == Spec /\ CleanupFairness

DrainSpec == Spec /\ MonitorFairness

-----------------------------------------------------------------------------
(* The inductive invariant. *)

BytesGone(f) == primary[f] \notin copies[f]

\* Where the bytes of a file whose row is about to be deleted are accounted for.
Accounted(f) ==
  \/ BytesGone(f)
  \/ \E d \in Deleters : pending[<<f, d>>] # "none"
  \/ f \in givenUp

\* An upload has its file for itself, and nobody can have condemned it yet.
UploadInv ==
  /\ \A h \in Handlers : At(h, "send") =>
       handler[h].file \in Files \ condemned /\ rows[handler[h].file] = "none"
  /\ \A h, g \in Handlers :
       At(h, "send") /\ At(g, "send") /\ handler[h].file = handler[g].file => h = g

RowInv == \A f \in Files : rows[f] # "none" \/ f \in condemned => primary[f] # None

BytesInv == \A f \in Files \ condemned : primary[f] # None => ~ BytesGone(f)

QueueInv ==
  /\ givenUp \subseteq condemned
  /\ \A e \in Entries : /\ pending[e] # "none" => e[1] \in condemned
                        /\ pending[e] = "completed" => BytesGone(e[1])

WorkerInv ==
  \A n \in Nodes :
    /\ \A e \in worker[n].todo : e[1] \in condemned /\ primary[e[1]] = n
    /\ worker[n].deleted # None => /\ worker[n].deleted[1] \in condemned
                                  /\ BytesGone(worker[n].deleted[1])

HandlerInv ==
  \A h \in Handlers :
    /\ handler[h].pc \in {"call", "forget", "check", "queue", "erase", "dcall", "dforget"}
         => handler[h].file \in condemned
    /\ handler[h].pc \in {"forget", "dforget"} => BytesGone(handler[h].file)
    /\ handler[h].pc = "erase" => Accounted(handler[h].file)

CleanerInv ==
  /\ cleaner.todo \subseteq condemned
  /\ cleaner.pc \in {"queue", "erase"} => cleaner.file \in condemned
  /\ cleaner.pc = "erase" => Accounted(cleaner.file)

IInv == TypeOK /\ UploadInv /\ RowInv /\ BytesInv /\ QueueInv /\ WorkerInv
          /\ HandlerInv /\ CleanerInv

-----------------------------------------------------------------------------
(* Properties. *)

\* A file whose row exists can be missing from its node only if a permanent
\* deletion of it was begun: neither another file's deletion, nor a stale
\* queue entry, nor a worker of another node, nor a restart takes its bytes.
OnlyCondemnedLoseData ==
  \A f \in Files : rows[f] # "none" /\ BytesGone(f) => f \in condemned

\* An entry of pending_deletions is marked completed only when the node has
\* really dropped the bytes, and they never come back under that id.
CompletedMeansGone ==
  \A e \in Entries : pending[e] = "completed" => BytesGone(e[1])

\* The row of a file, the only way to reach its bytes, is deleted only when
\* the bytes are gone, or a queue entry is there to drop them, or a deletion
\* gave them up by one of its two decisions: the database said that the node
\* is online, or no entry could be queued (the node is unknown, or the
\* statement failed).  A restart, a stale list, or another deletion of the
\* file between the steps of a deletion adds no third way.
NoSilentForget ==
  [][\A f \in Files : rows[f] # "none" /\ rows'[f] = "none" => Accounted(f)]_vars

\* A row that a permanent deletion removed never comes back: not by a restore
\* or a move to trash that read it before, not by the deletion's own retry.
NoResurrection ==
  [][\A f \in condemned : rows[f] = "none" => rows'[f] = "none"]_vars

Deletion == {"call", "forget", "check", "queue", "erase", "dcall", "dforget"}

\* A live file with its bytes that no deletion holds, on no list and in no queue.
Untouched(f) ==
  /\ rows[f] = "live" /\ ~ BytesGone(f)
  /\ \A h \in Handlers : handler[h].pc \in Deletion => handler[h].file # f
  /\ cleaner.file # f /\ f \notin cleaner.todo
  /\ \A d \in Deleters : pending[<<f, d>>] # "pending"
  /\ \A n \in Nodes, d \in Deleters : <<f, d>> \notin worker[n].todo

\* A file that is restored before any deletion of it got hold of it stays, with
\* its bytes, until it is trashed again, or deleted on the node by its owner, or
\* listed by the cleanup with the folder it is in.  What a deletion has listed
\* by then is deleted all the same.
UntouchedStays ==
  [][\A f \in Files : Untouched(f) =>
       \/ Untouched(f)'
       \/ rows'[f] \in InTrash
       \/ \E h \in Handlers : handler'[h].pc = "dcall" /\ handler'[h].file = f
       \/ f \in Foldered \cap cleaner'.todo]_vars

\* Retention ends: an expired file that is nobody's favorite does not stay in
\* the trash, whatever the nodes, the handlers and the restarts do.
ExpiredRowsGo ==
  \A f \in Files : rows[f] = "expired" ~> (rows[f] # "expired" \/ f \in favorites)


\* os_node_client.go:288, "DeleteFromNode deletes a file from every configured
\* node": when it succeeds no endpoint holds the bytes of the upload.
DeletedFromEveryNode ==
  \A h \in Handlers :
    handler[h].pc \in {"forget", "dforget"} => copies[handler[h].file] \cap endpoints \cap up = {}
-----------------------------------------------------------------------------
(* The refinement of FileFate. *)

RowOf(f) == IF rows[f] \in InTrash THEN "trash" ELSE rows[f]

BytesOf(f) == CASE primary[f] = None -> "none"
                [] primary[f] # None /\ ~ BytesGone(f) -> "kept"
                [] OTHER -> "gone"

Queued(f) == \E d \in Deleters : pending[<<f, d>>] # "none"

DeletionOf(f) == CASE f \notin condemned -> "no"
                   [] f \in condemned /\ (BytesGone(f) \/ Queued(f)) -> "settled"
                   [] f \in condemned /\ ~ (BytesGone(f) \/ Queued(f)) /\ f \in givenUp -> "givenUp"
                   [] OTHER -> "begun"

FateOf(f) == [row |-> RowOf(f), bytes |-> BytesOf(f), deletion |-> DeletionOf(f)]

Fate == INSTANCE FileFate WITH fate <- [f \in Files |-> FateOf(f)]

\* Whatever uploads, trash, deletions, cleanup, queue, workers and restarts do
\* between each other's steps, every file has one life: it is recorded once,
\* when its bytes are stored, nothing that was permanently deleted comes back
\* by a handler that read it before, its bytes go only for its own deletion,
\* and its row only when that deletion is settled or was given up.
EveryFileHasOneLife == Fate!Spec
=============================================================================
