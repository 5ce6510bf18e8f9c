--------------------------- MODULE NodeEnrollment ---------------------------
(***************************************************************************)
(* What a storage node keeps of the controllers that it is enrolled with:  *)
(* the commands os-storage-enroll (enroll.go, enrollment/enrollment.go)    *)
(* and os-remove-node (remove_node.go), and the revocation monitor of      *)
(* server-connect, all on the same files under /etc/os.                    *)
(*                                                                         *)
(* Each of the three reads controllers.json, works, and writes back all of *)
(* it; an enrollment waits up to half an hour in between.  os.WriteFile    *)
(* truncates the file first.  A command may fail, be killed or give up     *)
(* anywhere.                                                               *)
(*                                                                         *)
(* Every run of a command is a process of its own.  The key that an        *)
(* enrollment makes, the certificate that it is sent and the id of its     *)
(* node are all named by that run.  The node's URL and the CA certificate  *)
(* are left out, the latter going with the certificate.  No two nodes have *)
(* one id, whichever controllers gave it: os-remove-node finds an entry by *)
(* its id alone.                                                           *)
(***************************************************************************)
EXTENDS FiniteSets

CONSTANTS
  Controllers,  \* as the list tells them apart, by their whole URLs
  Commands,     \* bound: runs of the two commands, each of which happens once
  Earlier,      \* the enrollment, or None, that each controller has at the start
  Dir,          \* the directory that each controller's URL gives
  Monitor,      \* the revocation monitor
  None

ASSUME EnrollmentAssumption ==
  /\ None \notin Commands /\ Monitor \notin Commands
  /\ Earlier \in [Controllers -> Commands \cup {None}]
  /\ \A c, d \in Controllers :
       /\ Earlier[c] # None /\ Earlier[d] # None
       /\ Earlier[c] = Earlier[d] \/ Dir[c] = Dir[d]
       => c = d

VARIABLES
  file,         \* controllers.json: whole, empty (truncated) or garbage
  list,         \* its entries
  dir,          \* the files in each directory under /etc/os/controllers
  job,          \* what each command does
  monitor,      \* what the monitor does
  nodes,        \* what the controller knows of the node of each enrollment
  seen,         \* history: who read the list and worked on it as it is
  stale,        \* history: a list could not be read when an enrollment began,
                \* or was written over by somebody who had not read it
  mixed         \* history: directories in which an enrollment began while another
                \* ran there, or while an active entry of another URL had it

history == <<seen, stale, mixed>>

vars == <<file, list, dir, job, monitor, nodes, history>>

Entry(id, status) == [id |-> id, status |-> status]

NoEntry == Entry(None, "none")

Entries == [id : Commands, status : {"active", "revoked", "removed"}] \cup {NoEntry}

Lists == [Controllers -> Entries]

Empty == [c \in Controllers |-> NoEntry]

NoFiles == [there |-> FALSE, key |-> None, cert |-> None, id |-> None]

Dirs == {Dir[c] : c \in Controllers}

\* http://h and https://h are two entries, and have one directory.
In(d) == {c \in Controllers : Dir[c] = d}

EarlierIn(d) ==
  IF \E c \in In(d) : Earlier[c] # None
  THEN Earlier[CHOOSE c \in In(d) : Earlier[c] # None] ELSE None

FilesOf(p) == [there |-> p # None, key |-> p, cert |-> p, id |-> p]

Job(prog, pc, c, todo, copy) ==
  [prog |-> prog, pc |-> pc, at |-> c, todo |-> todo, copy |-> copy]

NotStarted == Job("none", "idle", None, {}, Empty)

Over == [NotStarted EXCEPT !.pc = "done"]

Enrolled == {Earlier[c] : c \in Controllers}

Sleeping == [pc |-> "sleep", todo |-> {}, at |-> None, file |-> "whole", copy |-> Empty]

Owners == Commands \cup {None}

Files == [there : BOOLEAN, key : Owners, cert : Owners, id : Owners]

Jobs == [prog : {"none", "enroll", "remove"},
         pc : {"idle", "poll", "key", "cert", "id", "notify", "delete", "save", "write",
               "lost", "done"},
         at : Controllers \cup {None}, todo : SUBSET Controllers, copy : Lists]

Monitors == [pc : {"sleep", "ask", "read", "move"}, todo : SUBSET (Controllers \X Commands),
             at : Controllers \cup {None}, file : {"whole", "empty", "garbage"},
             copy : Lists]

TypeOK ==
  /\ file \in {"whole", "empty", "garbage"}
  /\ list \in Lists
  /\ dir \in [Dirs -> Files]
  /\ job \in [Commands -> Jobs]
  /\ monitor \in Monitors
  /\ monitor.pc \in {"read", "move"} => monitor.at \in Controllers
  /\ nodes \in [Commands -> {"none", "requested", "rejected", "active", "revoked", "removed"}]
  /\ seen \subseteq Commands \cup {Monitor}
  /\ stale \in BOOLEAN
  /\ mixed \subseteq Dirs

Init ==
  /\ file = "whole"
  /\ list = [c \in Controllers |-> IF Earlier[c] = None THEN NoEntry
                                   ELSE Entry(Earlier[c], "active")]
  /\ dir = [d \in Dirs |-> FilesOf(EarlierIn(d))]
  /\ job = [p \in Commands |-> IF p \in Enrolled THEN Over ELSE NotStarted]
  /\ monitor = Sleeping
  /\ nodes = [p \in Commands |-> IF p \in Enrolled THEN "active" ELSE "none"]
  /\ seen = {} /\ stale = FALSE /\ mixed = {}

Listed(c) == list[c].status = "active"

\* What loadControllersConfig gives the enrollment, which goes on after an error.
Loaded == IF file = "whole" THEN list ELSE Empty

Readers(p) == IF file = "whole" THEN seen \cup {p} ELSE seen

Goto(p, pc) == job' = [job EXCEPT ![p].pc = pc]

-----------------------------------------------------------------------------
(* os-storage-enroll *)

Running(j) == j.pc \notin {"idle", "done"}

Enrolls(j, d) == Running(j) /\ j.prog = "enroll" /\ Dir[j.at] = d

Enrolling(d) == {p \in Commands : Enrolls(job[p], d)}

Taken(c) == Enrolling(Dir[c]) # {} \/ \E b \in In(Dir[c]) \ {c} : Listed(b)

(***************************************************************************)
(* What is asked of the user follows the reading, and the directory and    *)
(* the request follow that; it is one step, as nobody else sees what the   *)
(* command did in between.                                                 *)
(***************************************************************************)
Start(p, c) ==
  /\ job[p].pc = "idle"
  /\ job' = [job EXCEPT ![p] = Job("enroll", "poll", c, {}, Loaded)]
  /\ nodes' = [nodes EXCEPT ![p] = "requested"]
  /\ seen' = Readers(p)
  /\ dir' = [dir EXCEPT ![Dir[c]].there = TRUE]
  /\ stale' = (stale \/ file # "whole")
  /\ mixed' = IF Taken(c) THEN mixed \cup {Dir[c]} ELSE mixed
  /\ UNCHANGED <<file, list, monitor>>

\* It refuses a controller that is listed as active.
StartEnroll(p, c) == Loaded[c].status # "active" /\ Start(p, c)

\* The request is answered once it was approved, whatever became of the node since.
PollForApproval(p) ==
  /\ job[p].pc = "poll"
  /\ nodes[p] \in {"active", "revoked", "removed"}
  /\ Goto(p, "key")
  /\ UNCHANGED <<file, list, dir, monitor, nodes, history>>

(***************************************************************************)
(* SaveCredentials: the key, the certificate and the node's id, one file   *)
(* after the other, in the directory of the controller's URL.  A removal   *)
(* may take the directory away in between.                                 *)
(***************************************************************************)
OwnDir(p) == Dir[job[p].at]

SaveFile(p, name, next) ==
  /\ dir' = [dir EXCEPT ![OwnDir(p)][name] = p, ![OwnDir(p)].there = TRUE]
  /\ Goto(p, next)
  /\ UNCHANGED <<file, list, monitor, nodes, history>>

SaveCredentials(p) ==
  \/ job[p].pc = "key" /\ SaveFile(p, "key", "cert")
  \/ job[p].pc = "cert" /\ dir[OwnDir(p)].there /\ SaveFile(p, "cert", "id")
  \/ job[p].pc = "id" /\ dir[OwnDir(p)].there /\ SaveFile(p, "id", "save")

-----------------------------------------------------------------------------
(* os-remove-node *)

StartRemove(p, S, c) ==
  /\ job[p].pc = "idle" /\ file = "whole"
  /\ LET active == {d \in Controllers : Listed(d)} IN S = active \/ (S = {c} /\ c \in active)
  /\ c \in S
  /\ job' = [job EXCEPT ![p] = Job("remove", "notify", c, S \ {c}, list)]
  /\ seen' = Readers(p)
  /\ UNCHANGED <<file, list, dir, monitor, nodes, stale, mixed>>

Told(id) ==
  IF id # None /\ nodes[id] \in {"active", "revoked", "removed"}
  THEN [nodes EXCEPT ![id] = "removed"] ELSE nodes

\* The controller is told once; a failure is only printed.
NotifyControllerOfRemoval(p) ==
  /\ job[p].pc = "notify"
  /\ nodes' \in {nodes, Told(job[p].copy[job[p].at].id)}
  /\ Goto(p, "delete")
  /\ UNCHANGED <<file, list, dir, monitor, history>>

DeleteControllerCerts(p) ==
  /\ job[p].pc = "delete"
  /\ dir' = [dir EXCEPT ![OwnDir(p)] = NoFiles]
  /\ Goto(p, "save")
  /\ UNCHANGED <<file, list, monitor, nodes, history>>

-----------------------------------------------------------------------------
(* saveControllersConfig of both commands *)

\* mutant: the entries of the other controllers are not kept
OnlyOwnEntry(p) ==
  LET c == job[p].at IN
  IF job[p].prog = "enroll" THEN [Empty EXCEPT ![c] = Entry(p, "active")]
                            ELSE [job[p].copy EXCEPT ![c].status = "removed"]

NewList(p) ==
  LET c == job[p].at IN
  IF job[p].prog = "enroll" THEN [job[p].copy EXCEPT ![c] = Entry(p, "active")]
                            ELSE [job[p].copy EXCEPT ![c].status = "removed"]

Truncate(p) ==
  /\ job[p].pc = "save"
  /\ file' = "empty"
  /\ stale' = (stale \/ p \notin seen)
  /\ seen' = {}
  /\ Goto(p, "write")
  /\ UNCHANGED <<list, dir, monitor, nodes, mixed>>

\* mutant: what was saved is not kept for the next controller
Forgotten(p, c) ==
  IF job[p].todo = {} THEN c = job[p].at /\ Goto(p, "done")
  ELSE /\ c \in job[p].todo
       /\ job' = [job EXCEPT ![p].pc = "notify", ![p].at = c, ![p].todo = @ \ {c}]

\* A removal goes on to its next controller.
Saved(p, c) ==
  LET more == [job[p] EXCEPT !.copy = NewList(p)] IN
  IF job[p].todo = {} THEN c = job[p].at /\ job' = [job EXCEPT ![p] = [more EXCEPT !.pc = "done"]]
  ELSE /\ c \in job[p].todo
       /\ job' = [job EXCEPT ![p] = [more EXCEPT !.pc = "notify", !.at = c, !.todo = @ \ {c}]]

(***************************************************************************)
(* Where somebody else wrote after the truncation, the longer text shows   *)
(* through; where the monitor put another file in its place, the text is   *)
(* written to a file that has no name any more.                            *)
(***************************************************************************)
Write(p, c) ==
  /\ job[p].pc = "write"
  /\ file' \in IF file = "empty" THEN {"whole"} ELSE {"whole", "garbage"}
  /\ list' = NewList(p)
  /\ seen' = IF file' = "whole" THEN {p} ELSE {}
  /\ Saved(p, c)
  /\ UNCHANGED <<dir, monitor, nodes, stale, mixed>>

WriteLost(p, c) ==
  /\ job[p].pc = "lost"
  /\ seen' = seen \ {p}
  /\ Saved(p, c)
  /\ UNCHANGED <<file, list, dir, monitor, nodes, stale, mixed>>

\* The error is only printed.
SaveFails(p, c) ==
  /\ job[p].pc = "save"
  /\ file' \in {file, "empty"}
  /\ seen' = IF file' = file THEN seen \ {p} ELSE {}
  /\ Saved(p, c)
  /\ UNCHANGED <<list, dir, monitor, nodes, stale, mixed>>

\* A command fails, is killed, or gives up waiting.
Stop(p) ==
  /\ Running(job[p])
  /\ Goto(p, "done")
  /\ UNCHANGED <<file, list, dir, monitor, nodes, history>>

-----------------------------------------------------------------------------
(* The revocation monitor of server-connect: every minute *)

Sets(rec) == monitor' = rec

Further(todo) == IF todo = {} THEN Sleeping
                 ELSE [Sleeping EXCEPT !.pc = "ask", !.todo = todo]

Look ==
  /\ monitor.pc = "sleep" /\ file = "whole"
  /\ \E c \in Controllers : Listed(c)
  /\ Sets(Further({<<c, list[c].id>> : c \in {d \in Controllers : Listed(d)}}))
  /\ UNCHANGED <<file, list, dir, job, nodes, history>>

CheckRevoked(x) ==
  /\ monitor.pc = "ask" /\ x \in monitor.todo
  /\ nodes[x[2]] = "revoked"
  /\ Sets([monitor EXCEPT !.pc = "read", !.at = x[1], !.todo = @ \ {x}])
  /\ UNCHANGED <<file, list, dir, job, nodes, history>>

\* The controller does not answer, or with another status.
CheckOther(x) ==
  /\ monitor.pc = "ask" /\ x \in monitor.todo
  /\ Sets(Further(monitor.todo \ {x}))
  /\ UNCHANGED <<file, list, dir, job, nodes, history>>

\* awk writes a copy in which the controller's entry, if active, is revoked ...
HandleRevocation ==
  /\ monitor.pc = "read"
  /\ LET c == monitor.at IN
     Sets([monitor EXCEPT !.pc = "move", !.file = file,
                          !.copy = IF Listed(c) THEN [list EXCEPT ![c].status = "revoked"]
                                   ELSE list])
  /\ seen' = Readers(Monitor)
  /\ UNCHANGED <<file, list, dir, job, nodes, stale, mixed>>

\* mutant: the copy is not moved
ForgetCopy ==
  /\ monitor.pc = "move"
  /\ Sets(Further(monitor.todo))
  /\ UNCHANGED <<file, list, dir, job, nodes, history>>

\* ... and mv puts it in the place of the file, in one step where /tmp is on the
\* same file system, as is assumed here.
MoveCopy ==
  /\ monitor.pc = "move"
  /\ file' = monitor.file /\ list' = monitor.copy
  /\ job' = [p \in Commands |-> IF job[p].pc = "write" THEN [job[p] EXCEPT !.pc = "lost"]
                                ELSE job[p]]
  /\ stale' = (stale \/ Monitor \notin seen)
  /\ seen' = {}
  /\ Sets(Further(monitor.todo))
  /\ UNCHANGED <<dir, nodes, mixed>>

-----------------------------------------------------------------------------
(* The controllers, as the node sees them; Provisioning has their side. *)

Answer(p, status) ==
  /\ nodes' = [nodes EXCEPT ![p] = status]
  /\ UNCHANGED <<file, list, dir, job, monitor, history>>

Decide(p) == nodes[p] = "requested" /\ \E status \in {"active", "rejected"} : Answer(p, status)

Revoke(p) == nodes[p] \in {"active", "removed"} /\ Answer(p, "revoked")

-----------------------------------------------------------------------------
Monitoring ==
  \/ Look
  \/ \E x \in monitor.todo : CheckRevoked(x) \/ CheckOther(x)
  \/ HandleRevocation
  \/ MoveCopy

Next ==
  \/ \E p \in Commands :
       \/ \E c \in Controllers : StartEnroll(p, c) \/ Write(p, c) \/ WriteLost(p, c)
                                \/ SaveFails(p, c)
       \/ PollForApproval(p) \/ SaveCredentials(p)
       \/ \E S \in SUBSET Controllers, c \in Controllers : StartRemove(p, S, c)
       \/ NotifyControllerOfRemoval(p) \/ DeleteControllerCerts(p)
       \/ Truncate(p) \/ Stop(p)
       \/ Decide(p) \/ Revoke(p)
  \/ Monitoring

Spec == Init /\ [][Next]_vars

\* The monitor's loop goes on, and no controller is unreachable for ever.
Fairness ==
  /\ WF_vars(Monitoring)
  /\ SF_vars(\E x \in monitor.todo : CheckRevoked(x))

FairSpec == Spec /\ Fairness

-----------------------------------------------------------------------------
(* Properties *)

\* What a command is doing goes with what it is, and an enrollment works on a
\* list in which its controller is not active.
JobFits(j) ==
  /\ Running(j) => j.at \in Controllers /\ j.prog # "none"
  /\ j.prog = "enroll" /\ Running(j) =>
       j.todo = {} /\ j.pc \notin {"notify", "delete"} /\ j.copy[j.at].status # "active"
  /\ j.prog = "remove" =>
       /\ j.pc \notin {"poll", "key", "cert", "id"}
       /\ Running(j) => \A c \in j.todo \cup {j.at} : j.copy[c] # NoEntry

JobsFit == \A p \in Commands : JobFits(job[p])

OneEnrollment ==
  \A d \in Dirs \ mixed : \A p, q \in Enrolling(d) : p = q

\* Who read the list that is there has it, with what the monitor changes in it.
ReadersHaveIt ==
  /\ seen # {} => file = "whole"
  /\ file # "garbage"
  /\ \A p \in seen \ {Monitor} : job[p].copy = list
  /\ Monitor \in seen =>
       /\ monitor.pc = "move" /\ monitor.at \in Controllers /\ monitor.file = "whole"
       /\ \A c \in Controllers \ {monitor.at} : monitor.copy[c] = list[c]
       /\ monitor.copy[monitor.at] \in
            {list[monitor.at], [list[monitor.at] EXCEPT !.status = "revoked"]}
       /\ monitor.copy[monitor.at].status # "active"

\* Who truncated it has it too, and is the only one.
WriterHasIt ==
  \A p \in Commands :
    /\ job[p].pc # "lost"
    /\ job[p].pc = "write" => /\ file = "empty" /\ job[p].copy = list
                              /\ \A q \in Commands \ {p} : job[q].pc # "write"

\* The files that an enrollment has saved so far.
SavedSoFar(p) ==
  LET d == dir[OwnDir(p)] IN
  /\ job[p].pc \in {"cert", "id", "save", "write"} => d.key \in {None, p}
  /\ job[p].pc \in {"id", "save", "write"} => d.cert \in {None, p}
  /\ job[p].pc \in {"save", "write"} => d.id \in {None, p}

FilesFit ==
  \A d \in Dirs \ mixed :
    /\ \A p \in Enrolling(d) : SavedSoFar(p) /\ \A c \in In(d) : ~Listed(c)
    /\ \A c \in In(d) :
         Listed(c) => {dir[d].key, dir[d].cert, dir[d].id} \subseteq {None, list[c].id}

\* The inductive invariant.
IInv ==
  /\ TypeOK /\ JobsFit /\ OneEnrollment
  /\ ~stale => ReadersHaveIt /\ WriterHasIt /\ FilesFit

\* The credentials of an active entry are those of its own enrollment, or are
\* not there, wherever commands were killed and whatever removals and the
\* monitor do meanwhile; provided that every enrollment could read the list,
\* nobody saved the list over one that it had not read, and no enrollment began
\* in the entry's directory while another ran there or another URL's entry with
\* that directory was active.
CredentialsFit ==
  ~stale /\ file = "whole" =>
    \A d \in Dirs \ mixed : \A c \in In(d) :
      Listed(c) => {dir[d].key, dir[d].cert, dir[d].id} \subseteq {None, list[c].id}

\* An enrollment stays in the list until it is removed, or was revoked: other
\* enrollments, removals and the monitor, in any order, lose it only by saving
\* the list over one that they have not read.
ListedStays ==
  [][\A c \in Controllers :
       Listed(c) =>
         \/ list'[c] = list[c]
         \/ \E p \in Commands : /\ job[p].prog = "remove" /\ job[p].pc = "write"
                                /\ job[p].at = c /\ job[p].copy[c] = list[c]
         \/ monitor.pc = "move" /\ monitor.at = c /\ list'[c].status = "revoked"
         \/ stale']_vars

\* A node that was revoked does not stay in the list as active, whatever lists
\* the commands write back, while the list can be read.
RevocationNoticed ==
  []<>(file = "whole" => \A c \in Controllers : Listed(c) => nodes[list[c].id] # "revoked")
=============================================================================
