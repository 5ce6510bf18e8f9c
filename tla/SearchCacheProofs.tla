-------------------------- MODULE SearchCacheProofs --------------------------
(* Proofs about SearchCache, for any files, nodes and goroutines. *)
EXTENDS SearchCache, TLAPS

\* A job that begins.
LEMMA JobBegins ==
  ASSUME NEW op \in Reads \cup {"load", "clear"}, NEW at \in {"rlock", "lock"},
         NEW again \in 0..2
  PROVE  /\ Job(op, at, again) \in JobRecords /\ Job(op, at, again).at = at
         /\ Job(op, at, again).found = {} /\ Job(op, at, again).op = op
BY DEF Job, Idle, JobRecords

\* Unless it is a load it needs no node.
LEMMA BeginsWithNothing ==
  ASSUME NEW op \in Reads \cup {"clear"}, NEW at \in {"rlock", "lock"},
         NEW again \in 0..2
  PROVE  /\ Job(op, at, again) \in Jobs /\ Job(op, at, again).at = at
         /\ Job(op, at, again).found = {} /\ Holds(Job(op, at, again)) = 0
<1>1. op # "load"
  BY DEF Reads, Searches
<1>. QED BY <1>1, JobBegins DEF Jobs, Holds

LEMMA IdleHoldsNothing ==
  Idle \in Jobs /\ Idle.at = "idle" /\ Idle.found = {} /\ Holds(Idle) = 0
BY DEF Idle, Jobs, JobRecords, Holds

\* Inside GetMemoryUsage and after it a job keeps the outer read lock.
LEMMA FurtherHoldsOne ==
  ASSUME NEW j \in Jobs
  PROVE  /\ Further(j) \in Jobs /\ Further(j).at \in {"again", "out"}
         /\ Further(j).found = j.found /\ Holds(Further(j)) = 1
<1>1. CASE j.again > 0
  <2>. DEFINE k == [j EXCEPT !.at = "again", !.again = @ - 1]
  <2>1. j.again - 1 \in 0..2
    BY <1>1 DEF Jobs, JobRecords
  <2>2. k \in Jobs /\ k.at = "again" /\ k.found = j.found
    BY <2>1 DEF Jobs, JobRecords
  <2>3. Further(j) = k
    BY <1>1 DEF Further
  <2>. QED BY <2>2, <2>3 DEF Holds
<1>2. CASE ~(j.again > 0)
  BY <1>2 DEF Further, Jobs, JobRecords, Holds
<1>. QED BY <1>1, <1>2

\* Another place in a job.
LEMMA MovedFits ==
  ASSUME NEW j \in Jobs,
         NEW at \in {"idle", "rlock", "read", "again", "inside", "out", "lock", "wait", "write"}
  PROVE  /\ [j EXCEPT !.at = at] \in Jobs /\ [j EXCEPT !.at = at].at = at
         /\ [j EXCEPT !.at = at].found = j.found
BY DEF Jobs, JobRecords

\* Elements of sequences.
LEMMA ElementFits ==
  ASSUME NEW S, NEW s \in Seq(S), NEW i \in DOMAIN s
  PROVE  s[i] \in S /\ i \in Nat
<1>1. DOMAIN s = 1..Len(s) /\ Len(s) \in Nat
  OBVIOUS
<1>. QED BY <1>1

\* The pointers of the index are pairs of numbers.
LEMMA PointersFit ==
  ASSUME TypeOK
  PROVE  Pointers \subseteq Nat \X Nat
<1>1. ASSUME NEW i \in DOMAIN files PROVE <<files[i].array, i>> \in Nat \X Nat
  <2>1. files \in Seq([id : Ids, array : Nat])
    BY DEF TypeOK
  <2>2. files[i] \in [id : Ids, array : Nat] /\ i \in Nat
    BY <1>1, <2>1, ElementFits
  <2>. QED BY <2>2
<1>. QED BY <1>1 DEF Pointers

\* What the invariant says of the lock.
LEMMA LockHere ==
  ASSUME SearchCacheAssumption, IInv, NEW h \in Handlers
  PROVE  /\ proc[h] \in Jobs /\ mu.readers[h] = Holds(proc[h]) /\ h # None
         /\ mu.writer = h <=> proc[h].at = "write"
         /\ mu.pending = h <=> proc[h].at = "wait"
         /\ proc[h].found # {} => Holds(proc[h]) > 0
         /\ mu.writer # None => mu.pending = None /\ mu.readers[h] = 0
BY DEF SearchCacheAssumption, IInv, TypeOK, LockOK, At

\* A step of one handler that leaves the index alone, and takes the lock as its
\* new job says.
LEMMA HandlerStep ==
  ASSUME SearchCacheAssumption, IInv, NEW h \in Handlers, NEW j \in Jobs,
         proc' = [proc EXCEPT ![h] = j], UNCHANGED <<files, array, capacity, osFileMap>>,
         mu' \in Locks,
         \A g \in Handlers \ {h} :
            /\ mu'.readers[g] = mu.readers[g]
            /\ mu'.writer = g <=> mu.writer = g
            /\ mu'.pending = g <=> mu.pending = g,
         mu'.readers[h] = Holds(j),
         mu'.writer = h <=> j.at = "write",
         mu'.pending = h <=> j.at = "wait",
         j.found # {} => Holds(j) > 0,
         mu'.writer # None => mu'.pending = None /\ \A g \in Handlers : mu'.readers[g] = 0,
         cached' \subseteq Pointers, j.found \subseteq Pointers
  PROVE  IInv'
<1>1. \A g \in Handlers : proc'[g] = IF g = h THEN j ELSE proc[g]
  BY DEF IInv, TypeOK
<1>2. Pointers' = Pointers
  BY DEF Pointers
<1>3. TypeOK'
  BY <1>1, PointersFit DEF IInv, TypeOK
<1>4. LockOK'
  <2>1. ASSUME NEW g \in Handlers
        PROVE  /\ mu'.readers[g] = Holds(proc'[g])
               /\ mu'.writer = g <=> proc'[g].at = "write"
               /\ mu'.pending = g <=> proc'[g].at = "wait"
               /\ proc'[g].found # {} => mu'.readers[g] > 0
    <3>1. CASE g = h
      BY <1>1, <3>1
    <3>2. CASE g # h
      BY <1>1, <3>2, LockHere
    <3>. QED BY <3>1, <3>2
  <2>. QED BY <2>1 DEF LockOK, At, Holds
<1>5. FoundIsIndexed'
  BY <1>1, <1>2 DEF IInv, FoundIsIndexed
<1>6. NodesOfIndexed'
  BY DEF IInv, NodesOfIndexed
<1>. QED BY <1>3, <1>4, <1>5, <1>6 DEF IInv

-----------------------------------------------------------------------------
(* The steps *)

LEMMA RequestKeeps ==
  ASSUME SearchCacheAssumption, IInv, NEW h \in Handlers, Request(h)
  PROVE  IInv'
<1>1. PICK j \in Jobs : /\ proc' = [proc EXCEPT ![h] = j] /\ j.at \in {"rlock", "lock"}
                        /\ j.found = {}
  <2>1. CASE \E op \in Reads : Read(h, op)
    <3>1. PICK op \in Reads : Read(h, op)
      BY <2>1
    <3>2. Again(op) \in 0..2
      BY DEF Again
    <3>. QED BY <3>1, <3>2, BeginsWithNothing DEF Read
  <2>2. CASE \E todo \in (SUBSET Ids) \ {{}}, node \in Nodes : HandleLoadMetadata(h, todo, node)
    <3>. PICK todo \in (SUBSET Ids) \ {{}}, node \in Nodes : HandleLoadMetadata(h, todo, node)
      BY <2>2
    <3>. DEFINE j == [Job("load", "lock", 2) EXCEPT !.todo = todo, !.node = node]
    <3>1. LET k == Job("load", "lock", 2)
          IN  k \in JobRecords /\ k.at = "lock" /\ k.found = {} /\ k.op = "load"
      BY JobBegins
    <3>2. j \in Jobs /\ j.at = "lock" /\ j.found = {}
      BY <3>1 DEF Jobs, JobRecords
    <3>. QED BY <3>2 DEF HandleLoadMetadata
  <2>3. CASE HandleClearCache(h)
    <3>. DEFINE j == Job("clear", "lock", 2)
    <3>1. j \in Jobs /\ j.at = "lock" /\ j.found = {}
      BY BeginsWithNothing
    <3>. QED BY <2>3, <3>1 DEF HandleClearCache
  <2>. QED BY <2>1, <2>2, <2>3 DEF Request
<1>2. proc[h].at = "idle" /\ UNCHANGED <<index, mu>>
  BY DEF Request, Read, HandleLoadMetadata, HandleClearCache, At
<1>3. Holds(j) = 0 /\ Holds(proc[h]) = 0
  BY <1>1, <1>2 DEF Holds
<1>4. mu.readers[h] = 0 /\ mu.writer # h /\ mu.pending # h /\ mu \in Locks
  BY <1>2, <1>3, LockHere DEF IInv, TypeOK
<1>5. cached \subseteq Pointers /\ (mu.writer # None => mu.pending = None /\ \A g \in Handlers : mu.readers[g] = 0)
  BY DEF IInv, FoundIsIndexed, LockOK
<1>. QED BY <1>1, <1>2, <1>3, <1>4, <1>5, HandlerStep DEF index

LEMMA RLockKeeps ==
  ASSUME SearchCacheAssumption, IInv, NEW h \in Handlers, RLock(h)
  PROVE  IInv'
<1>. DEFINE to == Inside(proc[h].at)
            j == [proc[h] EXCEPT !.at = to]
<1>1. /\ proc[h].at \in {"rlock", "again"} /\ mu.writer = None /\ mu.pending = None
      /\ mu' = [mu EXCEPT !.readers[h] = @ + 1] /\ proc' = [proc EXCEPT ![h] = j]
      /\ UNCHANGED index
  BY DEF RLock, Waits, At, Go
<1>2. to = IF proc[h].at = "rlock" THEN "read" ELSE "inside"
  BY DEF Inside
<1>3. j \in Jobs /\ j.at = to /\ j.found = proc[h].found
  <2>1. proc[h] \in Jobs /\ to \in {"read", "inside"}
    BY <1>2, LockHere
  <2>. QED BY <2>1 DEF Jobs, JobRecords
<1>. HIDE DEF j, to
<1>4. Holds(j) = Holds(proc[h]) + 1 /\ Holds(proc[h]) \in 0..1
  BY <1>1, <1>2, <1>3 DEF Holds
<1>5. /\ mu' \in Locks /\ mu'.writer = None /\ mu'.pending = None
      /\ mu'.readers[h] = mu.readers[h] + 1
      /\ \A g \in Handlers \ {h} : mu'.readers[g] = mu.readers[g]
  <2>1. mu \in Locks /\ mu.readers[h] \in 0..1
    BY <1>4, LockHere DEF IInv, TypeOK
  <2>. QED BY <1>1, <2>1 DEF Locks
<1>6. cached \subseteq Pointers /\ j.found \subseteq Pointers
  BY <1>3 DEF IInv, FoundIsIndexed
<1>7. h # None /\ mu.readers[h] = Holds(proc[h]) /\ \A g \in Handlers : g # None
  BY LockHere DEF SearchCacheAssumption
<1>8. j.at \notin {"write", "wait"}
  BY <1>2, <1>3
<1>9. Holds(j) > 0 /\ mu'.writer = mu.writer /\ mu'.pending = mu.pending
  BY <1>1, <1>4, <1>5
<1>. QED BY <1>1, <1>3, <1>4, <1>5, <1>6, <1>7, <1>8, <1>9, HandlerStep DEF index

\* An inner or an outer RUnlock.
LEMMA LeaveKeeps ==
  ASSUME SearchCacheAssumption, IInv, NEW h \in Handlers, NEW j \in Jobs,
         proc[h].at \in {"inside", "out"}, Leave(h), proc' = [proc EXCEPT ![h] = j],
         UNCHANGED index, Holds(j) = Holds(proc[h]) - 1, j.at \in {"again", "out", "idle"},
         j.found \subseteq proc[h].found, j.found # {} => Holds(j) > 0
  PROVE  IInv'
<1>1. mu.readers[h] = Holds(proc[h]) /\ Holds(proc[h]) \in 1..2
  BY LockHere DEF Holds
<1>2. mu.writer = None
  BY <1>1, LockHere
<1>3. /\ mu' \in Locks /\ mu'.writer = mu.writer /\ mu'.pending = mu.pending
      /\ mu'.readers[h] = mu.readers[h] - 1
      /\ \A g \in Handlers \ {h} : mu'.readers[g] = mu.readers[g]
  <2>1. mu \in Locks /\ mu.readers[h] \in 1..2
    BY <1>1 DEF IInv, TypeOK
  <2>. QED BY <2>1 DEF Locks, Leave
<1>4. mu.pending # h /\ h # None
  BY LockHere
<1>5. cached \subseteq Pointers /\ j.found \subseteq Pointers
  BY DEF IInv, FoundIsIndexed
<1>. QED BY <1>1, <1>2, <1>3, <1>4, <1>5, HandlerStep DEF index

LEMMA RUnlockInnerKeeps ==
  ASSUME SearchCacheAssumption, IInv, NEW h \in Handlers, RUnlockInner(h)
  PROVE  IInv'
<1>1. /\ proc[h].at = "inside" /\ Leave(h) /\ proc' = [proc EXCEPT ![h] = Further(proc[h])]
      /\ UNCHANGED index
  BY DEF RUnlockInner, At
<1>2. /\ Further(proc[h]) \in Jobs /\ Further(proc[h]).at \in {"again", "out"}
      /\ Further(proc[h]).found = proc[h].found /\ Holds(Further(proc[h])) = 1
  BY LockHere, FurtherHoldsOne
<1>3. Holds(proc[h]) = 2
  BY <1>1 DEF Holds
<1>. DEFINE j == Further(proc[h])
<1>4. /\ j \in Jobs /\ j.at \in {"again", "out", "idle"} /\ j.found \subseteq proc[h].found
      /\ Holds(j) = Holds(proc[h]) - 1 /\ Holds(j) > 0 /\ proc' = [proc EXCEPT ![h] = j]
  BY <1>1, <1>2, <1>3
<1>. HIDE DEF j
<1>. QED BY <1>1, <1>4, LeaveKeeps

LEMMA RUnlockKeeps ==
  ASSUME SearchCacheAssumption, IInv, NEW h \in Handlers, RUnlock(h)
  PROVE  IInv'
<1>1. /\ proc[h].at = "out" /\ Leave(h) /\ proc' = [proc EXCEPT ![h] = Idle]
      /\ UNCHANGED index
  BY DEF RUnlock, At
<1>2. Holds(proc[h]) = 1
  BY <1>1 DEF Holds
<1>. DEFINE j == Idle
<1>3. /\ j \in Jobs /\ j.at \in {"again", "out", "idle"} /\ j.found \subseteq proc[h].found
      /\ Holds(j) = Holds(proc[h]) - 1 /\ j.found = {} /\ proc' = [proc EXCEPT ![h] = j]
  BY <1>1, <1>2, IdleHoldsNothing
<1>. HIDE DEF j
<1>. QED BY <1>1, <1>3, LeaveKeeps

LEMMA AnnounceKeeps ==
  ASSUME SearchCacheAssumption, IInv, NEW h \in Handlers, Announce(h)
  PROVE  IInv'
<1>. DEFINE j == [proc[h] EXCEPT !.at = "wait"]
<1>1. /\ proc[h].at = "lock" /\ mu.writer = None /\ mu.pending = None
      /\ mu' = [mu EXCEPT !.pending = h] /\ proc' = [proc EXCEPT ![h] = j] /\ UNCHANGED index
  BY DEF Announce, At, Go
<1>2. j \in Jobs /\ j.at = "wait" /\ j.found = proc[h].found
  <2>1. proc[h] \in Jobs
    BY LockHere
  <2>. QED BY <2>1 DEF Jobs, JobRecords
<1>. HIDE DEF j
<1>3. Holds(j) = 0 /\ Holds(proc[h]) = 0
  BY <1>1, <1>2 DEF Holds
<1>4. mu.readers[h] = 0 /\ j.found = {} /\ h # None /\ \A g \in Handlers : g # None
  BY <1>2, <1>3, LockHere DEF SearchCacheAssumption
<1>5. mu' \in Locks /\ mu'.writer = None /\ mu'.pending = h /\ mu'.readers = mu.readers
  BY <1>1 DEF IInv, TypeOK, Locks
<1>6. cached \subseteq Pointers
  BY DEF IInv, FoundIsIndexed
<1>. QED BY <1>1, <1>2, <1>3, <1>4, <1>5, <1>6, HandlerStep DEF index

LEMMA LockKeeps ==
  ASSUME SearchCacheAssumption, IInv, NEW h \in Handlers, Lock(h)
  PROVE  IInv'
<1>. DEFINE j == [proc[h] EXCEPT !.at = "write"]
<1>1. /\ proc[h].at = "wait" /\ \A g \in Handlers : mu.readers[g] = 0
      /\ mu' = [mu EXCEPT !.writer = h, !.pending = None]
      /\ proc' = [proc EXCEPT ![h] = j] /\ UNCHANGED index
  BY DEF Lock, At, Go
<1>2. j \in Jobs /\ j.at = "write" /\ j.found = proc[h].found
  <2>1. proc[h] \in Jobs
    BY LockHere
  <2>. QED BY <2>1 DEF Jobs, JobRecords
<1>. HIDE DEF j
<1>3. Holds(j) = 0 /\ Holds(proc[h]) = 0
  BY <1>1, <1>2 DEF Holds
<1>4. /\ mu.pending = h /\ j.found = {} /\ h # None /\ \A g \in Handlers : g # None
      /\ mu.writer = None
  <2>1. mu.pending = h /\ j.found = {} /\ h # None /\ \A g \in Handlers : g # None
    BY <1>1, <1>2, <1>3, LockHere DEF SearchCacheAssumption
  <2>. QED BY <2>1, LockHere
<1>5. mu' \in Locks /\ mu'.writer = h /\ mu'.pending = None /\ mu'.readers = mu.readers
  BY <1>1 DEF IInv, TypeOK, Locks
<1>6. cached \subseteq Pointers
  BY DEF IInv, FoundIsIndexed
<1>. QED BY <1>1, <1>2, <1>3, <1>4, <1>5, <1>6, HandlerStep DEF index

LEMMA UseKeeps ==
  ASSUME SearchCacheAssumption, IInv, NEW h \in Handlers, Use(h)
  PROVE  IInv'
<1>1. proc[h].at = "read" /\ UNCHANGED <<files, array, capacity, osFileMap, mu>>
  BY DEF Use, At
<1>2. /\ proc[h] \in Jobs /\ proc[h].found \subseteq Pointers /\ cached \subseteq Pointers
      /\ Pointers \subseteq Nat \X Nat
  BY PointersFit DEF IInv, TypeOK, FoundIsIndexed
<1>3. PICK found \in SUBSET Pointers :
        /\ proc' = [proc EXCEPT ![h] = Further([proc[h] EXCEPT !.found = found])]
        /\ cached' \subseteq Pointers
  <2>1. CASE QueryByName(h)
    BY <1>2, <2>1 DEF QueryByName
  <2>2. CASE Query(h)
    BY <1>2, <2>2 DEF Query
  <2>3. CASE proc' = [proc EXCEPT ![h] = Further(proc[h])] /\ cached' = cached
    <3>1. proc[h] = [proc[h] EXCEPT !.found = proc[h].found]
      BY <1>2 DEF Jobs, JobRecords
    <3>. QED BY <1>2, <2>3, <3>1
  <2>. QED BY <2>1, <2>2, <2>3 DEF Use, QueryAdvanced
<1>. DEFINE k == [proc[h] EXCEPT !.found = found]
            j == Further(k)
<1>4. k \in Jobs /\ k.found = found
  BY <1>2, <1>3 DEF Jobs, JobRecords
<1>. HIDE DEF k
<1>5. j \in Jobs /\ j.at \in {"again", "out"} /\ j.found = found /\ Holds(j) = 1
  BY <1>4, FurtherHoldsOne
<1>6. proc' = [proc EXCEPT ![h] = j]
  BY <1>3 DEF k
<1>. HIDE DEF j
<1>7. Holds(proc[h]) = 1
  BY <1>1 DEF Holds
<1>8. mu.readers[h] = 1 /\ mu.writer # h /\ mu.pending # h /\ mu \in Locks /\ mu.writer = None
  BY <1>1, <1>7, LockHere DEF IInv, TypeOK
<1>9. mu' = mu /\ (mu'.writer = h <=> j.at = "write") /\ (mu'.pending = h <=> j.at = "wait")
      /\ mu'.readers[h] = Holds(j) /\ mu'.writer = None /\ Holds(j) > 0 /\ mu' \in Locks
      /\ UNCHANGED <<files, array, capacity, osFileMap>>
  BY <1>1, <1>5, <1>8
<1>. QED BY <1>1, <1>3, <1>5, <1>6, <1>8, <1>9, HandlerStep

\* A writer leaves, and the readers that waited come in.
LEMMA UnlockFits ==
  ASSUME SearchCacheAssumption, IInv, NEW h \in Handlers, NEW j \in Jobs,
         proc[h].at = "write", j.at \in {"lock", "rlock"}, j.found = {}, Unlock(h, j)
  PROVE  /\ mu' \in Locks /\ proc' \in [Handlers -> Jobs] /\ LockOK'
         /\ \A g \in Handlers : proc[g].found = {} /\ proc'[g].found = {}
<1>1. /\ mu.writer = h /\ h # None /\ mu.pending = None
      /\ \A g \in Handlers : mu.readers[g] = 0 /\ g # None
  <2>1. mu.writer = h /\ h # None
    BY LockHere
  <2>. QED BY <2>1, LockHere DEF SearchCacheAssumption
<1>2. \A g \in Handlers : /\ proc[g] \in Jobs /\ Holds(proc[g]) = 0 /\ proc[g].found = {}
                          /\ proc[g].at # "wait" /\ (g # h => proc[g].at # "write")
  BY <1>1, LockHere
<1>3. \A g \in Handlers : proc[g].at # "again" /\ (Waits(g) <=> proc[g].at = "rlock")
  BY <1>2 DEF Holds, Waits, At
<1>4. /\ mu' \in Locks /\ mu'.writer = None /\ mu'.pending = None
      /\ \A g \in Handlers : mu'.readers[g] = IF proc[g].at = "rlock" THEN 1 ELSE 0
  <2>1. mu \in Locks /\ mu' = [mu EXCEPT !.writer = None,
           !.readers = [g \in Handlers |-> mu.readers[g] + IF Waits(g) THEN 1 ELSE 0]]
    BY DEF IInv, TypeOK, Unlock
  <2>. DEFINE locks == [g \in Handlers |-> mu.readers[g] + IF Waits(g) THEN 1 ELSE 0]
  <2>2. \A g \in Handlers : locks[g] = IF proc[g].at = "rlock" THEN 1 ELSE 0
    BY <1>1, <1>3
  <2>3. locks \in [Handlers -> 0..2]
    <3>1. \A g \in Handlers : locks[g] \in 0..2
      BY <2>2
    <3>. QED BY <3>1
  <2>. HIDE DEF locks
  <2>4. mu' \in Locks /\ mu'.writer = None /\ mu'.pending = mu.pending /\ mu'.readers = locks
    BY <2>1, <2>3 DEF Locks, locks
  <2>. QED BY <1>1, <2>2, <2>4
<1>5. ASSUME NEW g \in Handlers
      PROVE  /\ proc'[g] \in Jobs /\ proc'[g].found = {}
             /\ mu'.readers[g] = Holds(proc'[g])
             /\ proc'[g].at \notin {"write", "wait"}
  <2>1. CASE g = h
    <3>1. proc'[g] = j
      BY <2>1 DEF Unlock
    <3>. QED BY <1>4, <2>1, <3>1 DEF Holds
  <2>2. CASE g # h /\ proc[g].at = "rlock"
    <3>1. proc'[g] = [proc[g] EXCEPT !.at = "read"]
      BY <1>3, <2>2 DEF Unlock, Inside
    <3>2. proc'[g] \in Jobs /\ proc'[g].at = "read" /\ proc'[g].found = proc[g].found
      BY <1>2, <3>1 DEF Jobs, JobRecords
    <3>. QED BY <1>2, <1>4, <2>2, <3>2 DEF Holds
  <2>3. CASE g # h /\ proc[g].at # "rlock"
    <3>1. proc'[g] = proc[g]
      BY <1>3, <2>3 DEF Unlock
    <3>. QED BY <1>2, <1>4, <2>3, <3>1
  <2>. QED BY <2>1, <2>2, <2>3
<1>6. proc' \in [Handlers -> Jobs]
  BY <1>5 DEF Unlock
<1>7. LockOK'
  BY <1>1, <1>4, <1>5 DEF LockOK, At
<1>. QED BY <1>2, <1>4, <1>5, <1>6, <1>7

\* What an AddFile that fits does to the index: it only grows.
LEMMA AddToIndexFits ==
  ASSUME SearchCacheAssumption, IInv, NEW id \in Ids, AddToIndex(id)
  PROVE  /\ files' \in Seq([id : Ids, array : Nat]) /\ array' \in Nat /\ capacity' \in Nat
         /\ cached' = cached /\ Pointers \subseteq Pointers'
         /\ \A i \in Ids : (\E k \in DOMAIN files' : files'[k].id = i)
                             <=> i = id \/ \E k \in DOMAIN files : files[k].id = i
<1>1. /\ files \in Seq([id : Ids, array : Nat]) /\ array \in Nat /\ capacity \in Nat
      /\ FirstCapacity \in Nat
  BY DEF IInv, TypeOK, SearchCacheAssumption
<1>2. array' \in Nat /\ capacity' \in Nat
  BY <1>1 DEF AddToIndex, Grow
<1>. DEFINE f == [id |-> id, array |-> array']
<1>3. f \in [id : Ids, array : Nat] /\ f.id = id
  BY <1>2
<1>4. files' = Append(files, f) /\ cached' = cached
  BY DEF AddToIndex
<1>. HIDE DEF f
<1>5. /\ files' \in Seq([id : Ids, array : Nat]) /\ Len(files') = Len(files) + 1
      /\ Len(files) \in Nat /\ DOMAIN files = 1..Len(files) /\ DOMAIN files' = 1..Len(files')
      /\ files'[Len(files) + 1] = f
      /\ \A k \in 1..Len(files) : files'[k] = files[k]
  BY <1>1, <1>3, <1>4
<1>6. Pointers \subseteq Pointers'
  BY <1>5 DEF Pointers
<1>7. \A i \in Ids : (\E k \in DOMAIN files' : files'[k].id = i)
                        <=> i = id \/ \E k \in DOMAIN files : files[k].id = i
  <2>1. DOMAIN files' = DOMAIN files \cup {Len(files) + 1}
    BY <1>5
  <2>. QED BY <1>3, <1>5, <2>1
<1>. QED BY <1>2, <1>4, <1>5, <1>6, <1>7

LEMMA AddFileKeeps ==
  ASSUME SearchCacheAssumption, IInv, NEW h \in Handlers, NEW id \in Ids, AddFile(h, id)
  PROVE  IInv'
<1>. DEFINE rest == proc[h].todo \ {id}
            more == [proc[h] EXCEPT !.at = "lock", !.todo = rest]
            j == IF rest = {} THEN Stats ELSE more
<1>1. proc[h].at = "write" /\ Unlock(h, j) /\ id \in proc[h].todo /\ proc[h].op = "load"
  BY DEF AddFile, At
<1>2. Holds(proc[h]) = 0
  BY <1>1 DEF Holds
<1>3. proc[h].found = {} /\ proc[h] \in Jobs
  BY <1>2, LockHere
<1>4. more \in Jobs /\ more.at = "lock" /\ more.found = {}
  BY <1>3 DEF Jobs, JobRecords
<1>5. Stats \in Jobs /\ Stats.at = "rlock" /\ Stats.found = {}
  BY BeginsWithNothing DEF Stats, Reads
<1>6. j \in Jobs /\ j.at \in {"lock", "rlock"} /\ j.found = {}
  BY <1>4, <1>5
<1>. HIDE DEF j
<1>7. /\ mu' \in Locks /\ proc' \in [Handlers -> Jobs] /\ LockOK'
      /\ \A g \in Handlers : proc'[g].found = {}
  BY <1>1, <1>6, UnlockFits
<1>8. CASE Len(files) < MaxFiles
  <2>1. AddToIndex(id) /\ osFileMap' = [osFileMap EXCEPT ![id] = proc[h].node]
    BY <1>8 DEF AddFile
  <2>2. /\ files' \in Seq([id : Ids, array : Nat]) /\ array' \in Nat /\ capacity' \in Nat
        /\ cached' = cached /\ Pointers \subseteq Pointers'
        /\ \A i \in Ids : (\E k \in DOMAIN files' : files'[k].id = i)
                            <=> i = id \/ \E k \in DOMAIN files : files[k].id = i
    BY <2>1, AddToIndexFits
  <2>3. proc[h].node \in Nodes
    BY <1>1, <1>3 DEF Jobs, JobRecords
  <2>4. /\ osFileMap' \in [Ids -> Nodes \cup {None}] /\ osFileMap'[id] # None
        /\ \A i \in Ids \ {id} : osFileMap'[i] = osFileMap[i]
    BY <2>1, <2>3 DEF IInv, TypeOK, SearchCacheAssumption
  <2>5. TypeOK' /\ FoundIsIndexed' /\ NodesOfIndexed'
    <3>1. TypeOK'
      BY <1>7, <2>2, <2>4 DEF IInv, TypeOK
    <3>2. FoundIsIndexed'
      BY <1>7, <2>2 DEF IInv, FoundIsIndexed
    <3>3. NodesOfIndexed'
      BY <2>2, <2>4 DEF IInv, NodesOfIndexed
    <3>. QED BY <3>1, <3>2, <3>3
  <2>. QED BY <1>7, <2>5 DEF IInv
<1>9. CASE ~(Len(files) < MaxFiles)
  <2>1. UNCHANGED index
    BY <1>9 DEF AddFile
  <2>2. Pointers' = Pointers
    BY <2>1 DEF index, Pointers
  <2>3. TypeOK' /\ FoundIsIndexed' /\ NodesOfIndexed'
    BY <1>7, <2>1, <2>2 DEF index, IInv, TypeOK, FoundIsIndexed, NodesOfIndexed
  <2>. QED BY <1>7, <2>3 DEF IInv
<1>. QED BY <1>8, <1>9

LEMMA ClearKeeps ==
  ASSUME SearchCacheAssumption, IInv, NEW h \in Handlers, Clear(h)
  PROVE  IInv'
<1>1. /\ proc[h].at = "write" /\ Unlock(h, Stats) /\ files' = <<>> /\ capacity' = 0
      /\ array' = array /\ cached' = {} /\ osFileMap' = [i \in Ids |-> None]
  BY DEF Clear, At
<1>2. Stats \in Jobs /\ Stats.at = "rlock" /\ Stats.found = {}
  BY BeginsWithNothing DEF Stats, Reads
<1>3. /\ mu' \in Locks /\ proc' \in [Handlers -> Jobs] /\ LockOK'
      /\ \A g \in Handlers : proc'[g].found = {}
  BY <1>1, <1>2, UnlockFits
<1>4. TypeOK'
  BY <1>1, <1>3 DEF IInv, TypeOK
<1>5. FoundIsIndexed'
  BY <1>1, <1>3 DEF FoundIsIndexed
<1>6. NodesOfIndexed'
  BY <1>1 DEF NodesOfIndexed
<1>. QED BY <1>3, <1>4, <1>5, <1>6 DEF IInv

-----------------------------------------------------------------------------
(* The invariant *)

LEMMA InitFits ==
  ASSUME SearchCacheAssumption, Init
  PROVE  IInv
<1>1. /\ files = <<>> /\ array = 0 /\ capacity = 0 /\ cached = {}
      /\ \A i \in Ids : osFileMap[i] = None
      /\ osFileMap \in [Ids -> Nodes \cup {None}]
  BY DEF Init
<1>2. \A h \in Handlers : proc[h] = Idle
  BY DEF Init
<1>3. /\ mu \in Locks /\ mu.writer = None /\ mu.pending = None
      /\ \A h \in Handlers : mu.readers[h] = 0
  <2>1. [h \in Handlers |-> 0] \in [Handlers -> 0..2]
    OBVIOUS
  <2>. QED BY <2>1 DEF Init, Locks
<1>4. proc \in [Handlers -> Jobs]
  BY IdleHoldsNothing DEF Init
<1>5. TypeOK
  BY <1>1, <1>3, <1>4 DEF TypeOK
<1>6. LockOK
  <2>1. \A h \in Handlers : h # None /\ Holds(proc[h]) = 0 /\ proc[h].at = "idle"
                             /\ proc[h].found = {}
    BY <1>2, IdleHoldsNothing DEF SearchCacheAssumption
  <2>. QED BY <1>3, <2>1 DEF LockOK, At
<1>7. FoundIsIndexed
  BY <1>1, <1>2, IdleHoldsNothing DEF FoundIsIndexed
<1>8. NodesOfIndexed
  BY <1>1 DEF NodesOfIndexed
<1>. QED BY <1>5, <1>6, <1>7, <1>8 DEF IInv

LEMMA StepKeeps ==
  ASSUME SearchCacheAssumption, IInv, [Next]_vars
  PROVE  IInv'
<1>1. CASE Next
  <2>1. PICK h \in Handlers : Request(h) \/ Step(h)
    BY <1>1 DEF Next
  <2>2. CASE Step(h)
    BY <2>2, RLockKeeps, UseKeeps, RUnlockInnerKeeps, RUnlockKeeps, AnnounceKeeps, LockKeeps,
       AddFileKeeps, ClearKeeps DEF Step
  <2>. QED BY <2>1, <2>2, RequestKeeps
<1>2. CASE UNCHANGED vars
  BY <1>2 DEF vars, IInv, TypeOK, LockOK, FoundIsIndexed, NodesOfIndexed, Pointers, At
<1>. QED BY <1>1, <1>2

\* A goroutine holds the lock as often as the place it is at says, a writer is
\* alone, and nobody keeps a result without the lock: the invariant from which
\* the freshness of the results follows.
THEOREM Invariance == Spec => []IInv
<1>1. Init => IInv
  BY SearchCacheAssumption, InitFits
<1>2. IInv /\ [Next]_vars => IInv'
  BY SearchCacheAssumption, StepKeeps
<1>. QED BY <1>1, <1>2, PTL DEF Spec

\* No search reads a pointer into an array that Clear freed, from the tables or
\* from the cached results of another search, for any number of goroutines and
\* any growth of the array.
THEOREM FoundAlwaysIndexed == Spec => []FoundIsIndexed
<1>1. IInv => FoundIsIndexed
  BY DEF IInv
<1>. QED BY <1>1, Invariance, PTL

-----------------------------------------------------------------------------
(* When the cache stops *)

\* Who is about to write is a Clear, or a Load that has a file left.
HasWork(job) ==
  job.at \in {"lock", "wait", "write"} =>
    job.op = "clear" \/ (job.op = "load" /\ job.todo # {})

\* The conditions under which the next step of g is possible, one for each place.
CanGo(g) ==
  \/ At(g, "read") \/ At(g, "inside") \/ At(g, "out")
  \/ (Waits(g) \/ At(g, "lock")) /\ mu.writer = None /\ mu.pending = None
  \/ At(g, "wait") /\ \A r \in Handlers : mu.readers[r] = 0
  \/ At(g, "write") /\ HasWork(proc[g])

WritersHaveWork == \A h \in Handlers : HasWork(proc[h])

\* Whenever a request is unanswered, some goroutine can go on, unless a reader
\* waits to lock again behind a writer: no other deadlock of the lock exists.
OnlyReentryStops ==
  (\E h \in Handlers : ~At(h, "idle")) => Reentered \/ \E g \in Handlers : CanGo(g)

\* Once a reader waits so, it and the writer wait for ever, and nobody else gets
\* the lock: that writer stays announced, that reader stays where it is.
ReentryIsForEver ==
  [][\A g \in Handlers : At(g, "again") /\ mu.pending # None
       => At(g, "again")' /\ mu'.pending = mu.pending /\ mu'.writer = None]_vars

LEMMA IdleHasNoWork == HasWork(Idle)
BY DEF Idle, HasWork

LEMMA JobHasWork ==
  ASSUME NEW again \in 0..2
  PROVE  HasWork(Job("clear", "lock", again)) /\ \A op \in Reads : HasWork(Job(op, "rlock", again))
BY JobBegins DEF HasWork

LEMMA FurtherHasWork ==
  ASSUME NEW j \in Jobs
  PROVE  HasWork(Further(j))
<1>1. Further(j).at \in {"again", "out"}
  BY FurtherHoldsOne
<1>. QED BY <1>1 DEF HasWork

\* A step of h to a job that has work keeps everybody's.
LEMMA WorkOfOne ==
  ASSUME IInv, WritersHaveWork, NEW h \in Handlers, NEW j, HasWork(j),
         proc' = [proc EXCEPT ![h] = j]
  PROVE  WritersHaveWork'
<1>1. \A g \in Handlers : proc'[g] = IF g = h THEN j ELSE proc[g]
  BY DEF IInv, TypeOK
<1>. QED BY <1>1 DEF WritersHaveWork

LEMMA WorkAfterRequest ==
  ASSUME IInv, WritersHaveWork, NEW h \in Handlers, Request(h)
  PROVE  WritersHaveWork'
<1>1. ASSUME NEW op \in Reads, Read(h, op)
      PROVE  WritersHaveWork'
  <2>1. Again(op) \in 0..2
    BY DEF Again
  <2>. QED BY <1>1, <2>1, JobHasWork, WorkOfOne DEF Read
<1>2. ASSUME NEW todo \in (SUBSET Ids) \ {{}}, NEW node \in Nodes, HandleLoadMetadata(h, todo, node)
      PROVE  WritersHaveWork'
  <2>. DEFINE j == [Job("load", "lock", 2) EXCEPT !.todo = todo, !.node = node]
  <2>1. HasWork(j)
    <3>1. PICK k \in JobRecords : k = Job("load", "lock", 2) /\ k.op = "load"
      BY JobBegins
    <3>2. j = [k EXCEPT !.todo = todo, !.node = node] /\ todo # {}
      BY <1>2, <3>1
    <3>3. j.op = "load" /\ j.todo = todo
      BY <3>1, <3>2 DEF JobRecords
    <3>. QED BY <3>2, <3>3 DEF HasWork
  <2>. QED BY <1>2, <2>1, WorkOfOne DEF HandleLoadMetadata
<1>3. CASE HandleClearCache(h)
  <2>1. HasWork(Job("clear", "lock", 2))
    BY JobHasWork
  <2>. QED BY <1>3, <2>1, WorkOfOne DEF HandleClearCache
<1>. QED BY <1>1, <1>2, <1>3 DEF Request

\* What Unlock does for the others, and the job with which h goes on.
LEMMA WorkAfterUnlock ==
  ASSUME IInv, WritersHaveWork, NEW h \in Handlers, NEW j, HasWork(j), Unlock(h, j)
  PROVE  WritersHaveWork'
<1>1. ASSUME NEW g \in Handlers
      PROVE  HasWork(proc'[g])
  <2>1. proc[g] \in Jobs
    BY DEF IInv, TypeOK
  <2>2. proc'[g] = IF g = h THEN j
                   ELSE IF Waits(g) THEN [proc[g] EXCEPT !.at = Inside(@)] ELSE proc[g]
    BY DEF Unlock
  <2>3. HasWork([proc[g] EXCEPT !.at = Inside(@)])
    BY <2>1 DEF HasWork, Inside, Jobs, JobRecords
  <2>. QED BY <2>2, <2>3 DEF WritersHaveWork
<1>. QED BY <1>1 DEF WritersHaveWork

LEMMA WorkAfterStep ==
  ASSUME IInv, WritersHaveWork, NEW h \in Handlers, Step(h)
  PROVE  WritersHaveWork'
<1>. proc[h] \in Jobs /\ HasWork(proc[h])
  BY DEF IInv, TypeOK, WritersHaveWork
<1>1. CASE RLock(h)
  <2>1. HasWork([proc[h] EXCEPT !.at = Inside(proc[h].at)])
    BY DEF HasWork, Inside, Jobs, JobRecords
  <2>. QED BY <1>1, <2>1, WorkOfOne DEF RLock, Go
<1>2. CASE Use(h)
  <2>1. PICK j \in Jobs : proc' = [proc EXCEPT ![h] = Further(j)]
    <3>1. ASSUME NEW found \in SUBSET (Nat \X Nat)
          PROVE  [proc[h] EXCEPT !.found = found] \in Jobs
      BY DEF Jobs, JobRecords
    <3>2. Pointers \in SUBSET (Nat \X Nat) /\ cached \in SUBSET (Nat \X Nat)
      BY PointersFit DEF IInv, TypeOK
    <3>3. CASE QueryByName(h)
      <4>. DEFINE results == IF cached # {} THEN cached ELSE Pointers
      <4>1. proc' = [proc EXCEPT ![h] = Further([proc[h] EXCEPT !.found = results])]
        BY <3>3 DEF QueryByName
      <4>2. results \in SUBSET (Nat \X Nat)
        BY <3>2
      <4>. HIDE DEF results
      <4>. QED BY <3>1, <4>1, <4>2
    <3>4. CASE Query(h)
      <4>1. proc' = [proc EXCEPT ![h] = Further([proc[h] EXCEPT !.found = Pointers])]
        BY <3>4 DEF Query
      <4>. QED BY <3>1, <3>2, <4>1
    <3>5. CASE proc' = [proc EXCEPT ![h] = Further(proc[h])]
      BY <3>5
    <3>. QED BY <1>2, <3>3, <3>4, <3>5 DEF Use, QueryAdvanced
  <2>. QED BY <2>1, FurtherHasWork, WorkOfOne
<1>3. CASE RUnlockInner(h)
  BY <1>3, FurtherHasWork, WorkOfOne DEF RUnlockInner
<1>4. CASE RUnlock(h)
  BY <1>4, IdleHasNoWork, WorkOfOne DEF RUnlock
<1>5. CASE Announce(h)
  <2>1. HasWork([proc[h] EXCEPT !.at = "wait"])
    BY <1>5 DEF Announce, At, HasWork, Jobs, JobRecords
  <2>. QED BY <1>5, <2>1, WorkOfOne DEF Announce, Go
<1>6. CASE Lock(h)
  <2>1. HasWork([proc[h] EXCEPT !.at = "write"])
    BY <1>6 DEF Lock, At, HasWork, Jobs, JobRecords
  <2>. QED BY <1>6, <2>1, WorkOfOne DEF Lock, Go
<1>7. ASSUME NEW id \in Ids, AddFile(h, id)
      PROVE  WritersHaveWork'
  <2>. DEFINE rest == proc[h].todo \ {id}
              next == [proc[h] EXCEPT !.at = "lock", !.todo = rest]
  <2>1. Unlock(h, IF rest = {} THEN Stats ELSE next)
    BY <1>7 DEF AddFile
  <2>2. HasWork(Stats)
    BY JobHasWork DEF Stats, Reads
  <2>3. rest # {} => HasWork(next)
    BY <1>7 DEF AddFile, HasWork, Jobs, JobRecords
  <2>. HIDE DEF rest, next
  <2>. QED BY <2>1, <2>2, <2>3, WorkAfterUnlock
<1>8. CASE Clear(h)
  <2>1. HasWork(Stats)
    BY JobHasWork DEF Stats, Reads
  <2>. QED BY <1>8, <2>1, WorkAfterUnlock DEF Clear
<1>. QED BY <1>1, <1>2, <1>3, <1>4, <1>5, <1>6, <1>7, <1>8 DEF Step

LEMMA AlwaysWork == Spec => []WritersHaveWork
<1>1. Init => WritersHaveWork
  BY IdleHasNoWork DEF Init, WritersHaveWork
<1>2. ASSUME IInv, WritersHaveWork, [Next]_vars
      PROVE  WritersHaveWork'
  <2>1. CASE Next
    BY <1>2, <2>1, WorkAfterRequest, WorkAfterStep DEF Next
  <2>2. CASE UNCHANGED vars
    BY <1>2, <2>2 DEF vars, WritersHaveWork
  <2>. QED BY <1>2, <2>1, <2>2
<1>3. IInv /\ WritersHaveWork /\ [Next]_vars => WritersHaveWork'
  BY <1>2
<1>. QED BY <1>1, <1>3, Invariance, PTL DEF Spec

\* Who keeps a goroutine of the cache from going on: the writer inside can always
\* go on, an announced one waits for readers, each of whom can go on unless it is
\* about to lock a second time, and if there is neither everybody can.  Hence the
\* nested read lock of SearchByName and GetStats is the only way into a deadlock.
THEOREM DeadlockNeedsReentry == Spec => []OnlyReentryStops
<1>1. ASSUME IInv, WritersHaveWork
      PROVE  OnlyReentryStops
  <2>. SUFFICES ASSUME NEW h \in Handlers, ~At(h, "idle"), ~Reentered
                PROVE  \E g \in Handlers : CanGo(g)
    BY DEF OnlyReentryStops
  <2>1. \A g \in Handlers : proc[g] \in Jobs /\ HasWork(proc[g])
    BY <1>1 DEF IInv, TypeOK, WritersHaveWork
  <2>2. \A g \in Handlers : /\ mu.readers[g] = Holds(proc[g])
                            /\ mu.writer = g <=> At(g, "write")
                            /\ mu.pending = g <=> At(g, "wait")
    BY <1>1 DEF IInv, LockOK
  <2>3. mu.writer \in Handlers \cup {None} /\ mu.pending \in Handlers \cup {None}
    BY <1>1 DEF IInv, TypeOK, Locks
  <2>4. CASE mu.writer # None
    <3>1. PICK w \in Handlers : At(w, "write")
      BY <2>2, <2>3, <2>4
    <3>2. CanGo(w)
      BY <2>1, <3>1 DEF CanGo, HasWork, At
    <3>. QED BY <3>2
  <2>5. CASE mu.writer = None /\ mu.pending = None
    <3>1. ~At(h, "wait") /\ ~At(h, "write")
      BY SearchCacheAssumption, <2>2, <2>5
    <3>2. CanGo(h)
      BY <2>1, <2>5, <3>1 DEF CanGo, Waits, At, Jobs, JobRecords
    <3>. QED BY <3>2
  <2>6. CASE mu.pending # None
    <3>1. PICK w \in Handlers : At(w, "wait")
      BY <2>2, <2>3, <2>6
    <3>2. CASE \A r \in Handlers : mu.readers[r] = 0
      BY <3>1, <3>2 DEF CanGo
    <3>3. ASSUME NEW r \in Handlers, mu.readers[r] # 0
          PROVE  CanGo(r)
      <4>1. Holds(proc[r]) # 0
        BY <2>2, <3>3
      <4>2. ~At(r, "again")
        BY <2>6 DEF Reentered
      <4>. QED BY <4>1, <4>2 DEF CanGo, Holds, At
    <3>. QED BY <3>2, <3>3
  <2>. QED BY <2>4, <2>5, <2>6
<1>. QED BY <1>1, Invariance, AlwaysWork, PTL

\* The deadlock of a nested read lock cannot be left: the writer waits for the lock
\* that the reader holds, the reader for the writer, and no request or step of
\* another goroutine changes that.  From then on every call of the cache waits.
THEOREM ReentryStays == Spec => ReentryIsForEver
<1>1. ASSUME IInv, [Next]_vars, NEW g \in Handlers, At(g, "again"), mu.pending # None
      PROVE  At(g, "again")' /\ mu'.pending = mu.pending /\ mu'.writer = None
  <2>1. mu \in Locks /\ mu.writer = None /\ \A h \in Handlers : ~At(h, "write")
    BY <1>1, LockHere, SearchCacheAssumption DEF IInv, LockOK, TypeOK, At
  <2>2. mu.readers[g] = 1 /\ \A h \in Handlers : proc[h] \in Jobs
    BY <1>1 DEF IInv, LockOK, TypeOK, Holds, At
  <2>3. CASE UNCHANGED vars
    BY <1>1, <2>1, <2>3 DEF vars, At
  <2>4. ASSUME NEW h \in Handlers, Request(h) \/ Step(h)
        PROVE  At(g, "again")' /\ mu'.pending = mu.pending /\ mu'.writer = None
    <3>1. CASE Request(h)
      <4>1. At(h, "idle") /\ mu' = mu
        BY <3>1 DEF Request, Read, HandleLoadMetadata, HandleClearCache
      <4>2. \A x \in Handlers \ {h} : proc'[x] = proc[x]
        BY <1>1, <3>1 DEF Request, Read, HandleLoadMetadata, HandleClearCache, IInv, TypeOK
      <4>3. g # h
        BY <1>1, <4>1 DEF At
      <4>. QED BY <1>1, <2>1, <4>1, <4>2, <4>3 DEF At
    <3>2. ~RLock(h) /\ ~Announce(h) /\ ~Lock(h) /\ ~Clear(h) /\ \A id \in Ids : ~AddFile(h, id)
      <4>1. ~RLock(h) /\ ~Announce(h)
        BY <1>1 DEF RLock, Announce
      <4>2. ~Lock(h)
        BY <2>2 DEF Lock
      <4>3. ~Clear(h) /\ \A id \in Ids : ~AddFile(h, id)
        BY <2>1 DEF Clear, AddFile
      <4>. QED BY <4>1, <4>2, <4>3
    <3>3. CASE Use(h) \/ RUnlockInner(h) \/ RUnlock(h)
      <4>1. At(h, "read") \/ At(h, "inside") \/ At(h, "out")
        BY <3>3 DEF Use, RUnlockInner, RUnlock
      <4>2. mu'.pending = mu.pending /\ mu'.writer = mu.writer
        BY <2>1, <3>3 DEF Use, RUnlockInner, RUnlock, Leave, Locks
      <4>3. \A x \in Handlers \ {h} : proc'[x] = proc[x]
        BY <1>1, <3>3 DEF Use, QueryByName, Query, QueryAdvanced, RUnlockInner, RUnlock, IInv, TypeOK
      <4>4. g # h
        BY <1>1, <4>1 DEF At
      <4>. QED BY <1>1, <2>1, <4>2, <4>3, <4>4 DEF At
    <3>. QED BY <2>4, <3>1, <3>2, <3>3 DEF Step
  <2>. QED BY <1>1, <2>3, <2>4 DEF Next
<1>2. IInv /\ [Next]_vars => [\A g \in Handlers : At(g, "again") /\ mu.pending # None
        => At(g, "again")' /\ mu'.pending = mu.pending /\ mu'.writer = None]_vars
  BY <1>1
<1>. QED BY <1>2, Invariance, PTL DEF Spec, ReentryIsForEver
=============================================================================
