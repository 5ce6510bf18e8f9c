---------------------------- MODULE SearchCache ----------------------------
(***************************************************************************)
(* The search cache of the controller: MetadataCache                       *)
(* (services/cache/metadata_cache.go) over the C index of oscore/query     *)
(* (query.c), and the handlers that use it (api/search_handler.go,         *)
(* api/file_proxy.go).                                                     *)
(*                                                                         *)
(* A sync.RWMutex guards the cache.  A writer first announces itself, which *)
(* stops new readers, and waits for those that are there; when it leaves,  *)
(* the readers that were stopped come in.  Searches and statistics call    *)
(* GetMemoryUsage while they hold the read lock, which locks it again.     *)
(*                                                                         *)
(* The index keeps files in an array that is reallocated when it is full;  *)
(* its hash tables, trie and tree hold pointers into it, and so does the   *)
(* cache of the results of searches by name.  A pointer is the number of   *)
(* the array and a position.  All files here have one name and differ in   *)
(* their path; a loader names them, as a search does, by path and name.    *)
(* Every call of the index is one step; allocation never fails.            *)
(***************************************************************************)
EXTENDS Naturals, FiniteSets, Sequences

CONSTANTS
  Ids, Nodes,
  Handlers,        \* goroutines that serve requests
  None,
  FirstCapacity,   \* of the array: 64 in query.c
  MaxFiles,        \* what the memory limit has room for
  MaxArrays        \* bound: no Clear once so many arrays were allocated

ASSUME SearchCacheAssumption ==
  /\ None \notin Nodes /\ None \notin Handlers
  /\ FirstCapacity \in Nat \ {0} /\ MaxFiles \in Nat /\ MaxArrays \in Nat

VARIABLES
  files,     \* FileIndex.files: the id, and the array when it was added
  array,     \* the number of the array that is allocated
  capacity,  \* FileIndex.capacity
  cached,    \* result_cache: the pointers stored for the name, if any
  osFileMap,
  mu,        \* the RWMutex: its writer, the one that announced itself,
             \* and how often each goroutine holds the read lock
  proc       \* what each handler does

vars == <<files, array, capacity, cached, osFileMap, mu, proc>>

index == <<files, array, capacity, cached, osFileMap>>

Pointers == {<<files[i].array, i>> : i \in DOMAIN files}

Searches == {"name", "scan", "advanced"}

Reads == Searches \cup {"stats", "osid"}   \* GetOSID, GetMemoryUsage

Idle == [op |-> "none", at |-> "idle", again |-> 0, todo |-> {}, node |-> None, found |-> {}]

Job(op, at, again) == [Idle EXCEPT !.op = op, !.at = at, !.again = again]

JobRecords ==
  [op : Reads \cup {"load", "clear", "none"},
   at : {"idle", "rlock", "read", "again", "inside", "out", "lock", "wait", "write"},
   again : 0..2, todo : SUBSET Ids, node : Nodes \cup {None}, found : SUBSET (Nat \X Nat)]

\* A load has the node that it names.
Jobs == {job \in JobRecords : job.op = "load" => job.node \in Nodes}

Locks == [writer : Handlers \cup {None}, pending : Handlers \cup {None},
          readers : [Handlers -> 0..2]]

TypeOK ==
  /\ files \in Seq([id : Ids, array : Nat])
  /\ array \in Nat /\ capacity \in Nat
  /\ cached \subseteq Nat \X Nat
  /\ osFileMap \in [Ids -> Nodes \cup {None}]
  /\ mu \in Locks
  /\ proc \in [Handlers -> Jobs]

Init ==
  /\ files = <<>> /\ array = 0 /\ capacity = 0
  /\ cached = {}
  /\ osFileMap = [i \in Ids |-> None]
  /\ mu = [writer |-> None, pending |-> None, readers |-> [h \in Handlers |-> 0]]
  /\ proc = [h \in Handlers |-> Idle]

At(h, place) == proc[h].at = place

Go(h, place) == proc' = [proc EXCEPT ![h].at = place]

-----------------------------------------------------------------------------
(* Requests *)

\* Searches lock again once, GetStats twice, GetMemoryUsage and GetOSID never.
Again(op) == CASE op \in Searches -> 1 [] op = "stats" -> 2 [] OTHER -> 0

Read(h, op) ==
  /\ At(h, "idle")
  /\ proc' = [proc EXCEPT ![h] = Job(op, "rlock", Again(op))]
  /\ UNCHANGED <<index, mu>>

HandleLoadMetadata(h, todo, node) ==
  /\ At(h, "idle")
  /\ proc' = [proc EXCEPT ![h] = [Job("load", "lock", 2) EXCEPT !.todo = todo, !.node = node]]
  /\ UNCHANGED <<index, mu>>

HandleClearCache(h) ==
  /\ At(h, "idle") /\ array < MaxArrays
  /\ proc' = [proc EXCEPT ![h] = Job("clear", "lock", 2)]
  /\ UNCHANGED <<index, mu>>

-----------------------------------------------------------------------------
(* The lock *)

Waits(g) == At(g, "rlock") \/ At(g, "again")

Inside(at) == IF at = "rlock" THEN "read" ELSE "inside"

RLock(h) ==
  /\ Waits(h)
  /\ mu.writer = None /\ mu.pending = None
  /\ mu' = [mu EXCEPT !.readers[h] = @ + 1]
  /\ Go(h, Inside(proc[h].at))
  /\ UNCHANGED index

Leave(h) == mu' = [mu EXCEPT !.readers[h] = @ - 1]

\* A job calls GetMemoryUsage, if it has to once more.
Further(job) ==
  IF job.again > 0 THEN [job EXCEPT !.at = "again", !.again = @ - 1]
                   ELSE [job EXCEPT !.at = "out"]

\* mutant: the inner RUnlock is missing
ReturnInner(h) ==
  /\ At(h, "inside")
  /\ mu' = mu
  /\ proc' = [proc EXCEPT ![h] = Further(@)]
  /\ UNCHANGED index

\* The end of GetMemoryUsage inside another method.
RUnlockInner(h) ==
  /\ At(h, "inside")
  /\ Leave(h)
  /\ proc' = [proc EXCEPT ![h] = Further(@)]
  /\ UNCHANGED index

RUnlock(h) ==
  /\ At(h, "out")
  /\ Leave(h)
  /\ proc' = [proc EXCEPT ![h] = Idle]
  /\ UNCHANGED index

\* Lock takes the mutex of the writers and announces itself ...
Announce(h) ==
  /\ At(h, "lock")
  /\ mu.writer = None /\ mu.pending = None
  /\ mu' = [mu EXCEPT !.pending = h]
  /\ Go(h, "wait")
  /\ UNCHANGED index

\* ... and waits for the readers.
Lock(h) ==
  /\ At(h, "wait")
  /\ \A g \in Handlers : mu.readers[g] = 0
  /\ mu' = [mu EXCEPT !.writer = h, !.pending = None]
  /\ Go(h, "write")
  /\ UNCHANGED index

\* The waiting readers come in; the handler goes on with job.
Unlock(h, job) ==
  /\ mu' = [mu EXCEPT !.writer = None,
                      !.readers = [g \in Handlers |-> @[g] + IF Waits(g) THEN 1 ELSE 0]]
  /\ proc' = [g \in Handlers |->
               IF g = h THEN job
               ELSE IF Waits(g) THEN [proc[g] EXCEPT !.at = Inside(@)] ELSE proc[g]]

-----------------------------------------------------------------------------
(* The index *)

\* query_by_name: the bloom filter, then the cached results, then the table.
QueryByName(h) ==
  LET results == IF cached # {} THEN cached ELSE Pointers
  IN  /\ proc' = [proc EXCEPT ![h] = Further([@ EXCEPT !.found = results])]
      /\ cached' = results

\* query_by_path, query_by_type and query_by_size_range: every file matches.
Query(h) ==
  /\ proc' = [proc EXCEPT ![h] = Further([@ EXCEPT !.found = Pointers])]
  /\ cached' = cached

\* Of its conditions, those on the name are looked up by name.
QueryAdvanced(h) == QueryByName(h) \/ Query(h)

Use(h) ==
  /\ At(h, "read")
  /\ CASE proc[h].op = "name" -> QueryByName(h)
       [] proc[h].op = "scan" -> Query(h)
       [] proc[h].op = "advanced" -> QueryAdvanced(h)
       [] OTHER -> proc' = [proc EXCEPT ![h] = Further(@)] /\ cached' = cached
  /\ UNCHANGED <<files, array, capacity, osFileMap, mu>>

\* The array for one more file: realloc may move it.
Grow ==
  IF Len(files) < capacity THEN UNCHANGED <<array, capacity>>
  ELSE /\ capacity' = IF capacity = 0 THEN FirstCapacity ELSE 2 * capacity
       /\ array' \in IF capacity = 0 THEN {array + 1} ELSE {array, array + 1}

\* query_add_file, after query_can_add_file.
AddToIndex(id) ==
  /\ Grow
  /\ files' = Append(files, [id |-> id, array |-> array'])
  /\ UNCHANGED cached

\* A request that changed the cache ends with the statistics.
Stats == Job("stats", "rlock", 2)

\* mutant: the refusal of a file returns without Unlock
AddFileOrReturn(h, id) ==
  /\ At(h, "write") /\ proc[h].op = "load"
  /\ id \in proc[h].todo
  /\ LET rest == proc[h].todo \ {id}
         job == IF rest = {} THEN Stats ELSE [proc[h] EXCEPT !.at = "lock", !.todo = rest]
     IN  IF Len(files) < MaxFiles
         THEN /\ AddToIndex(id) /\ osFileMap' = [osFileMap EXCEPT ![id] = proc[h].node]
              /\ Unlock(h, job)
         ELSE UNCHANGED <<index, mu>> /\ proc' = [proc EXCEPT ![h] = job]

AddFile(h, id) ==
  /\ At(h, "write") /\ proc[h].op = "load"
  /\ id \in proc[h].todo
  /\ IF Len(files) < MaxFiles
     THEN AddToIndex(id) /\ osFileMap' = [osFileMap EXCEPT ![id] = proc[h].node]
     ELSE UNCHANGED index
  /\ LET rest == proc[h].todo \ {id}
     IN  Unlock(h, IF rest = {} THEN Stats
                   ELSE [proc[h] EXCEPT !.at = "lock", !.todo = rest])

\* mutant: the results of earlier searches stay
ClearTables(h) ==
  /\ At(h, "write") /\ proc[h].op = "clear"
  /\ files' = <<>> /\ capacity' = 0 /\ UNCHANGED <<array, cached>>
  /\ osFileMap' = [i \in Ids |-> None]
  /\ Unlock(h, Stats)

Clear(h) ==
  /\ At(h, "write") /\ proc[h].op = "clear"
  /\ files' = <<>> /\ capacity' = 0 /\ array' = array
  /\ cached' = {}
  /\ osFileMap' = [i \in Ids |-> None]
  /\ Unlock(h, Stats)

-----------------------------------------------------------------------------
Request(h) ==
  \/ \E op \in Reads : Read(h, op)
  \/ \E todo \in (SUBSET Ids) \ {{}}, node \in Nodes : HandleLoadMetadata(h, todo, node)
  \/ HandleClearCache(h)

Step(h) ==
  \/ RLock(h) \/ Use(h) \/ RUnlockInner(h) \/ RUnlock(h)
  \/ Announce(h) \/ Lock(h)
  \/ \E id \in Ids : AddFile(h, id)
  \/ Clear(h)

Next == \E h \in Handlers : Request(h) \/ Step(h)

Spec == Init /\ [][Next]_vars

\* A goroutine that can go on does, and the mutex of the writers is not kept
\* from one of them for ever.
Fairness == \A h \in Handlers : WF_vars(Step(h)) /\ SF_vars(Announce(h))

FairSpec == Spec /\ Fairness

-----------------------------------------------------------------------------
(* Properties *)

\* What a search finds, in the tables or in the results that an earlier one
\* left, are files of the index as it is when the search answers: nothing that
\* was there before a Clear, whatever happens between the query and the answer.
FoundIsIndexed ==
  /\ cached \subseteq Pointers
  /\ \A h \in Handlers : proc[h].found \subseteq Pointers

\* The node of every file that a search finds is known, and of no other file,
\* whatever loads were refused, repeated or cut short by a Clear.
NodesOfIndexed ==
  \A i \in Ids : osFileMap[i] # None <=> \E k \in DOMAIN files : files[k].id = i

\* How often a job holds the read lock.
Holds(job) ==
  CASE job.at \in {"read", "again", "out"} -> 1 [] job.at = "inside" -> 2 [] OTHER -> 0

\* The lock and its holders agree, and a result is only held with the read lock.
LockOK ==
  /\ \A h \in Handlers : /\ mu.readers[h] = Holds(proc[h])
                         /\ mu.writer = h <=> At(h, "write")
                         /\ mu.pending = h <=> At(h, "wait")
                         /\ proc[h].found # {} => mu.readers[h] > 0
  /\ mu.writer # None => mu.pending = None /\ \A h \in Handlers : mu.readers[h] = 0

(* The inductive invariant. *)
IInv == TypeOK /\ LockOK /\ FoundIsIndexed /\ NodesOfIndexed

\* A reader that waits to lock the mutex again keeps out the writer it waits for.
Reentered == mu.pending # None /\ \E g \in Handlers : At(g, "again")

\* Every request is answered, but for one case: a writer announced itself
\* between the two read locks of a search or of the statistics.
AnsweredUnlessReentered ==
  \A h \in Handlers : ~At(h, "idle") ~> (At(h, "idle") \/ Reentered)
=============================================================================
