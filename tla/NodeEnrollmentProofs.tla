------------------------ MODULE NodeEnrollmentProofs ------------------------
(* Proofs about NodeEnrollment, for any controllers and commands. *)
EXTENDS NodeEnrollment, TLAPS

\* The controllers that have a directory.
LEMMA DirsFit ==
  /\ \A c \in Controllers : Dir[c] \in Dirs /\ c \in In(Dir[c])
  /\ \A d \in Dirs : \A c \in In(d) : c \in Controllers /\ Dir[c] = d
BY DEF Dirs, In

\* What is read is a list.
LEMMA ListsFit ==
  ASSUME IInv
  PROVE  Empty \in Lists /\ Loaded \in Lists /\ list \in Lists
<1>1. Empty \in Lists
  BY DEF Empty, Lists, Entries, NoEntry, Entry
<1>. QED BY <1>1 DEF IInv, TypeOK, Loaded

\* An entry whose status is changed stays one, and keeps its id.
LEMMA EntriesFit ==
  /\ \A e \in Entries \ {NoEntry}, s \in {"active", "revoked", "removed"} :
       /\ [e EXCEPT !.status = s] \in Entries \ {NoEntry}
       /\ [e EXCEPT !.status = s].status = s
  /\ \A p \in Commands : /\ Entry(p, "active") \in Entries \ {NoEntry}
                         /\ Entry(p, "active").status = "active"
                         /\ Entry(p, "active").id = p
  /\ \A e \in Entries : e.status = "active" => e # NoEntry /\ e.id \in Commands
BY DEF Entries, NoEntry, Entry

\* One entry of a list is changed.
LEMMA ListWith ==
  ASSUME NEW l \in Lists, NEW c \in Controllers, NEW e \in Entries
  PROVE  /\ [l EXCEPT ![c] = e] \in Lists
         /\ \A d \in Controllers : [l EXCEPT ![c] = e][d] = IF d = c THEN e ELSE l[d]
BY DEF Lists

\* What a command saves differs from what it read in its own entry only.
LEMMA NewListFits ==
  ASSUME IInv, NEW p \in Commands, Running(job[p])
  PROVE  /\ NewList(p) \in Lists
         /\ \A d \in Controllers \ {job[p].at} : NewList(p)[d] = job[p].copy[d]
         /\ NewList(p)[job[p].at] # NoEntry
         /\ NewList(p)[job[p].at] =
              IF job[p].prog = "enroll" THEN Entry(p, "active")
              ELSE [job[p].copy[job[p].at] EXCEPT !.status = "removed"]
         /\ job[p].prog # "enroll" => NewList(p)[job[p].at].status = "removed"
<1>. DEFINE c == job[p].at
            l == job[p].copy
<1>1. c \in Controllers /\ l \in Lists
      /\ (job[p].prog # "enroll" => l[c] \in Entries \ {NoEntry})
  BY DEF IInv, TypeOK, Jobs, JobsFit, JobFits, Lists
<1>2. CASE job[p].prog = "enroll"
  BY <1>1, <1>2, EntriesFit, ListWith DEF NewList
<1>3. CASE job[p].prog # "enroll"
  <2>1. NewList(p) = [l EXCEPT ![c] = [l[c] EXCEPT !.status = "removed"]]
    BY <1>3 DEF NewList
  <2>. DEFINE e == [l[c] EXCEPT !.status = "removed"]
  <2>2. e \in Entries \ {NoEntry} /\ e.status = "removed"
    BY <1>1, <1>3, EntriesFit
  <2>3. NewList(p) = [l EXCEPT ![c] = e]
    BY <2>1
  <2>. HIDE DEF e
  <2>4. NewList(p) \in Lists /\ \A d \in Controllers : NewList(p)[d] = IF d = c THEN e ELSE l[d]
    BY <1>1, <2>2, <2>3, ListWith
  <2>. QED BY <2>2, <2>4, <1>1, <1>3 DEF e
<1>. QED BY <1>2, <1>3

\* A job that is written down, and what its parts are.
LEMMA JobMade ==
  ASSUME NEW c \in Controllers, NEW S \in SUBSET Controllers, NEW l \in Lists,
         NEW prog \in {"enroll", "remove"}, NEW pc \in {"poll", "notify"}
  PROVE  /\ Job(prog, pc, c, S, l) \in Jobs
         /\ Job(prog, pc, c, S, l).prog = prog /\ Job(prog, pc, c, S, l).pc = pc
         /\ Job(prog, pc, c, S, l).at = c /\ Job(prog, pc, c, S, l).todo = S
         /\ Job(prog, pc, c, S, l).copy = l
BY DEF Job, Jobs

\* A step of one command keeps what holds of the commands, unless an enrollment begins.
LEMMA JobStep ==
  ASSUME IInv, NEW p \in Commands, NEW j \in Jobs, job' = [job EXCEPT ![p] = j],
         JobFits(j), \A c \in Dirs : Enrolls(j, c) => Enrolls(job[p], c),
         UNCHANGED mixed
  PROVE  /\ job' \in [Commands -> Jobs]
         /\ \A q \in Commands : job'[q] = IF q = p THEN j ELSE job[q]
         /\ \A d \in Dirs : Enrolling(d)' \subseteq Enrolling(d)
         /\ JobsFit' /\ OneEnrollment'
<1>1. /\ job' \in [Commands -> Jobs]
      /\ \A q \in Commands : job'[q] = IF q = p THEN j ELSE job[q]
  BY DEF IInv, TypeOK
<1>2. \A d \in Dirs : Enrolling(d)' \subseteq Enrolling(d)
  BY <1>1 DEF Enrolling, Enrolls, Running
<1>3. JobsFit'
  BY <1>1 DEF IInv, JobsFit, JobFits, Running
<1>4. OneEnrollment'
  BY <1>2 DEF IInv, OneEnrollment
<1>. QED BY <1>1, <1>2, <1>3, <1>4

\* As long as it works on its controller, a command goes from one thing to the next.
LEMMA GoesOn ==
  ASSUME IInv, NEW p \in Commands, Running(job[p]), UNCHANGED mixed,
         NEW pc \in {"poll", "key", "cert", "id", "delete", "save", "write", "lost", "done"},
         Goto(p, pc),
         job[p].prog = "enroll" => pc # "delete",
         job[p].prog = "remove" => pc \notin {"poll", "key", "cert", "id"}
  PROVE  /\ job' \in [Commands -> Jobs]
         /\ \A q \in Commands \ {p} : job'[q] = job[q]
         /\ job'[p] = [job[p] EXCEPT !.pc = pc]
         /\ \A d \in Dirs : Enrolling(d)' \subseteq Enrolling(d)
         /\ JobsFit' /\ OneEnrollment'
<1>. DEFINE j == [job[p] EXCEPT !.pc = pc]
<1>1. /\ job[p] \in Jobs /\ j \in Jobs /\ j.pc = pc /\ j.at = job[p].at
      /\ j.prog = job[p].prog /\ j.todo = job[p].todo /\ j.copy = job[p].copy
  BY DEF IInv, TypeOK, Jobs
<1>2. JobFits(job[p])
  BY DEF IInv, JobsFit
<1>3. JobFits(j)
  BY <1>1, <1>2 DEF JobFits, Running
<1>4. \A c \in Dirs : Enrolls(j, c) => Enrolls(job[p], c)
  BY <1>1 DEF Enrolls
<1>5. job' = [job EXCEPT ![p] = j]
  BY DEF Goto
<1>. HIDE DEF j
<1>6. job' \in [Commands -> Jobs]
      /\ (\A q \in Commands : job'[q] = IF q = p THEN j ELSE job[q])
      /\ (\A d \in Dirs : Enrolling(d)' \subseteq Enrolling(d))
      /\ JobsFit' /\ OneEnrollment'
  BY <1>1, <1>3, <1>4, <1>5, JobStep
<1>. QED BY <1>6 DEF j

-----------------------------------------------------------------------------
(* The steps of os-storage-enroll *)

LEMMA StartEnrollKeeps ==
  ASSUME EnrollmentAssumption, IInv, NEW p \in Commands, NEW c \in Controllers,
         StartEnroll(p, c)
  PROVE  IInv'
<1>. DEFINE j == Job("enroll", "poll", c, {}, Loaded)
<1>1. /\ j \in Jobs /\ j.prog = "enroll" /\ j.pc = "poll" /\ j.at = c
      /\ j.todo = {} /\ j.copy = Loaded
  BY ListsFit, JobMade
<1>2. job' = [job EXCEPT ![p] = j] /\ Loaded[c].status # "active" /\ job[p].pc = "idle"
  BY DEF StartEnroll, Start
<1>. HIDE DEF j
<1>3. job' \in [Commands -> Jobs] /\ \A q \in Commands : job'[q] = IF q = p THEN j ELSE job[q]
  BY <1>1, <1>2 DEF IInv, TypeOK
<1>4. dir' \in [Dirs -> Files]
      /\ \A d \in Dirs : /\ dir'[d].key = dir[d].key /\ dir'[d].cert = dir[d].cert
                         /\ dir'[d].id = dir[d].id
  <2>1. Dir[c] \in Dirs /\ dir \in [Dirs -> Files] /\ dir' = [dir EXCEPT ![Dir[c]].there = TRUE]
    BY DirsFit DEF StartEnroll, Start, IInv, TypeOK
  <2>2. \A f \in Files : /\ [f EXCEPT !.there = TRUE] \in Files
                         /\ [f EXCEPT !.there = TRUE].key = f.key
                         /\ [f EXCEPT !.there = TRUE].cert = f.cert
                         /\ [f EXCEPT !.there = TRUE].id = f.id
    BY DEF Files
  <2>3. dir' = [dir EXCEPT ![Dir[c]] = [dir[Dir[c]] EXCEPT !.there = TRUE]]
    BY <2>1
  <2>. QED BY <2>1, <2>2, <2>3
<1>5. TypeOK'
  BY <1>3, <1>4, DirsFit DEF StartEnroll, Start, Readers, IInv, TypeOK
<1>6. JobsFit'
  BY <1>1, <1>2, <1>3 DEF IInv, JobsFit, JobFits
<1>. DEFINE e == Dir[c]
<1>7. /\ \A d \in Dirs \ {e} : Enrolling(d)' = Enrolling(d)
      /\ Enrolling(e)' = Enrolling(e) \cup {p}
      /\ mixed' = IF Taken(c) THEN mixed \cup {e} ELSE mixed
      /\ e \notin mixed' => Enrolling(e) = {} /\ \A b \in In(e) \ {c} : ~Listed(b)
  BY <1>1, <1>2, <1>3 DEF StartEnroll, Start, Enrolling, Enrolls, Running, Taken
<1>8. OneEnrollment'
  BY <1>7 DEF IInv, OneEnrollment
<1>9. ASSUME ~stale' PROVE ReadersHaveIt' /\ WriterHasIt' /\ FilesFit'
  <2>1. ~stale /\ file = "whole" /\ Loaded = list /\ seen' = seen \cup {p}
        /\ UNCHANGED <<file, list, monitor>>
    BY <1>9 DEF StartEnroll, Start, Loaded, Readers
  <2>2. ReadersHaveIt'
    BY <1>1, <1>3, <2>1 DEF EnrollmentAssumption, IInv, TypeOK, ReadersHaveIt
  <2>3. WriterHasIt'
    BY <1>1, <1>3, <2>1 DEF IInv, WriterHasIt
  <2>4. FilesFit'
    <3>1. ASSUME NEW d \in Dirs \ mixed', NEW q \in Enrolling(d)'
          PROVE  SavedSoFar(q)' /\ \A b \in In(d) : ~Listed(b)'
      <4>1. CASE d = e
        <5>1. q = p /\ \A b \in In(e) \ {c} : ~Listed(b)
          BY <1>7, <3>1, <4>1
        <5>. QED BY <1>1, <1>2, <1>3, <2>1, <4>1, <5>1 DEF Listed, SavedSoFar
      <4>2. CASE d # e
        <5>1. d \in Dirs \ mixed /\ q \in Enrolling(d) /\ q \in Commands /\ OwnDir(q) = d
          BY <1>7, <3>1, <4>2 DEF Enrolling, Enrolls, OwnDir
        <5>2. q # p
          BY <5>1, <1>2 DEF Enrolling, Enrolls, Running
        <5>3. SavedSoFar(q) /\ \A b \in In(d) : ~Listed(b)
          BY <2>1, <5>1 DEF IInv, FilesFit
        <5>. QED BY <5>1, <5>2, <5>3, <1>3, <1>4, <2>1 DEF Listed, SavedSoFar, OwnDir
      <4>. QED BY <4>1, <4>2
    <3>2. ASSUME NEW d \in Dirs \ mixed', NEW b \in In(d), Listed(b)'
          PROVE  {dir'[d].key, dir'[d].cert, dir'[d].id} \subseteq {None, list'[b].id}
      BY <1>4, <1>7, <2>1, <3>2 DEF IInv, FilesFit, Listed
    <3>. QED BY <3>1, <3>2 DEF FilesFit
  <2>. QED BY <2>2, <2>3, <2>4
<1>. QED BY <1>5, <1>6, <1>8, <1>9 DEF IInv

\* A step that changes neither list nor histories, and takes files away only.
LEMMA FilesStay ==
  ASSUME IInv, ~stale, UNCHANGED <<list, mixed>>,
         dir' \in [Dirs -> Files],
         \A d \in Dirs : /\ dir'[d].key \in {None, dir[d].key}
                               /\ dir'[d].cert \in {None, dir[d].cert}
                               /\ dir'[d].id \in {None, dir[d].id},
         \A d \in Dirs : Enrolling(d)' \subseteq Enrolling(d),
         \A q \in Commands : Running(job[q])' =>
            /\ job'[q].at = job[q].at \/ job'[q].prog = "remove"
            /\ job'[q].pc \in {"cert", "id", "save", "write"} /\ job'[q].prog = "enroll" =>
                 \/ job'[q].pc = job[q].pc
                 \/ job'[q].pc = "write" /\ job[q].pc = "save"
  PROVE  FilesFit'
<1>1. ASSUME NEW d \in Dirs \ mixed', NEW q \in Enrolling(d)'
      PROVE  SavedSoFar(q)' /\ \A b \in In(d) : ~Listed(b)'
  <2>1. /\ q \in Commands /\ q \in Enrolling(d) /\ d \in Dirs \ mixed
        /\ Running(job[q])' /\ job'[q].prog = "enroll" /\ job'[q].at = job[q].at
        /\ OwnDir(q) = d
    BY <1>1 DEF Enrolling, Enrolls, OwnDir
  <2>2. SavedSoFar(q) /\ \A b \in In(d) : ~Listed(b)
    BY <2>1 DEF IInv, FilesFit
  <2>. QED BY <2>1, <2>2 DEF Listed, SavedSoFar, OwnDir
<1>2. ASSUME NEW d \in Dirs \ mixed', NEW b \in In(d), Listed(b)'
      PROVE  {dir'[d].key, dir'[d].cert, dir'[d].id} \subseteq {None, list'[b].id}
  BY <1>2 DEF IInv, FilesFit, Listed
<1>. QED BY <1>1, <1>2 DEF FilesFit

\* A step of a command that leaves file, list and readers alone.
LEMMA ReadersStay ==
  ASSUME IInv, ~stale, NEW p \in Commands,
         \A q \in Commands \ {p} : job'[q] = job[q],
         job'[p].copy = job[p].copy, job'[p].pc \notin {"write", "lost"},
         UNCHANGED <<file, list, monitor, seen>>
  PROVE  ReadersHaveIt' /\ WriterHasIt'
<1>1. \A q \in seen \ {Monitor} : q \in Commands /\ job'[q].copy = list'
  BY DEF IInv, TypeOK, ReadersHaveIt
<1>2. ReadersHaveIt'
  BY <1>1 DEF IInv, ReadersHaveIt
<1>3. WriterHasIt'
  BY DEF IInv, WriterHasIt
<1>. QED BY <1>2, <1>3

LEMMA PollForApprovalKeeps ==
  ASSUME IInv, NEW p \in Commands, PollForApproval(p)
  PROVE  IInv'
<1>1. /\ Running(job[p]) /\ Goto(p, "key") /\ UNCHANGED <<file, list, dir, monitor, nodes, history>>
      /\ job[p].prog # "remove"
  BY DEF PollForApproval, Running, IInv, JobsFit, JobFits
<1>2. /\ job' \in [Commands -> Jobs]
      /\ \A q \in Commands \ {p} : job'[q] = job[q]
      /\ job'[p] = [job[p] EXCEPT !.pc = "key"]
      /\ \A d \in Dirs : Enrolling(d)' \subseteq Enrolling(d)
      /\ JobsFit' /\ OneEnrollment'
  BY <1>1, GoesOn DEF history
<1>3. job'[p].pc = "key" /\ job'[p].at = job[p].at /\ job'[p].copy = job[p].copy
  BY <1>2 DEF IInv, TypeOK, Jobs
<1>4. TypeOK'
  BY <1>1, <1>2 DEF IInv, TypeOK, history
<1>5. ASSUME ~stale' PROVE ReadersHaveIt' /\ WriterHasIt' /\ FilesFit'
  <2>1. ~stale /\ UNCHANGED <<file, list, dir, monitor, seen, mixed>>
    BY <1>1, <1>5 DEF history
  <2>2. ReadersHaveIt' /\ WriterHasIt'
    BY <1>2, <1>3, <2>1, ReadersStay
  <2>3. FilesFit'
    BY <1>2, <1>3, <1>4, <2>1, FilesStay DEF TypeOK
  <2>. QED BY <2>2, <2>3
<1>. QED BY <1>2, <1>4, <1>5 DEF IInv

\* One file of an enrollment's credentials: what was saved so far is p's, or gone.
LEMMA SaveFileKeeps ==
  ASSUME IInv, NEW p \in Commands, NEW next \in {"cert", "id", "save"},
         job[p].prog = "enroll", Running(job[p]), Goto(p, next),
         UNCHANGED <<file, list, monitor, nodes, history>>,
         dir' \in [Dirs -> Files],
         \A d \in Dirs : d # OwnDir(p) => dir'[d] = dir[d],
         OwnDir(p) \notin mixed /\ ~stale => SavedSoFar(p)'
  PROVE  IInv'
<1>1. /\ job' \in [Commands -> Jobs]
      /\ \A q \in Commands \ {p} : job'[q] = job[q]
      /\ job'[p] = [job[p] EXCEPT !.pc = next]
      /\ \A d \in Dirs : Enrolling(d)' \subseteq Enrolling(d)
      /\ JobsFit' /\ OneEnrollment'
  BY GoesOn DEF history
<1>2. job'[p].pc = next /\ job'[p].at = job[p].at /\ job'[p].copy = job[p].copy
  BY <1>1 DEF IInv, TypeOK, Jobs
<1>3. TypeOK'
  BY <1>1 DEF IInv, TypeOK, history
<1>4. OwnDir(p) \in Dirs /\ p \in Enrolling(OwnDir(p))
  BY DirsFit DEF IInv, JobsFit, JobFits, Enrolling, Enrolls, OwnDir
<1>5. ASSUME ~stale' PROVE ReadersHaveIt' /\ WriterHasIt' /\ FilesFit'
  <2>1. ~stale /\ UNCHANGED <<file, list, monitor, seen, mixed>>
    BY <1>5 DEF history
  <2>2. ReadersHaveIt' /\ WriterHasIt'
    BY <1>1, <1>2, <2>1, ReadersStay
  <2>3. ASSUME NEW d \in Dirs \ mixed', NEW q \in Enrolling(d)'
        PROVE  SavedSoFar(q)' /\ \A b \in In(d) : ~Listed(b)'
    <3>1. q \in Enrolling(d) /\ d \in Dirs \ mixed /\ q \in Commands /\ OwnDir(q) = d
      BY <1>1, <2>1, <2>3 DEF Enrolling, Enrolls, OwnDir
    <3>2. SavedSoFar(q) /\ \A b \in In(d) : ~Listed(b)
      BY <2>1, <3>1 DEF IInv, FilesFit
    <3>3. CASE q = p
      BY <2>1, <3>1, <3>2, <3>3 DEF Listed
    <3>4. CASE q # p
      <4>1. d # OwnDir(p)
        BY <1>4, <3>1, <3>4 DEF IInv, OneEnrollment
      <4>. QED BY <1>1, <2>1, <3>1, <3>2, <3>4, <4>1 DEF Listed, SavedSoFar, OwnDir
    <3>. QED BY <3>3, <3>4
  <2>4. ASSUME NEW d \in Dirs \ mixed', NEW b \in In(d), Listed(b)'
        PROVE  {dir'[d].key, dir'[d].cert, dir'[d].id} \subseteq {None, list'[b].id}
    <3>1. d \in Dirs \ mixed /\ Listed(b)
      BY <2>1, <2>4 DEF Listed
    <3>2. d # OwnDir(p)
      BY <1>4, <2>1, <3>1 DEF IInv, FilesFit
    <3>. QED BY <2>1, <3>1, <3>2 DEF IInv, FilesFit
  <2>. QED BY <2>2, <2>3, <2>4 DEF FilesFit
<1>. QED BY <1>1, <1>3, <1>5 DEF IInv

LEMMA SaveCredentialsKeeps ==
  ASSUME IInv, NEW p \in Commands, SaveCredentials(p)
  PROVE  IInv'
<1>. DEFINE c == OwnDir(p)
<1>1. /\ Running(job[p]) /\ job[p].prog = "enroll" /\ c \in Dirs
      /\ job[p].pc \in {"key", "cert", "id"}
  <2>1. Running(job[p]) /\ job[p].pc \in {"key", "cert", "id"}
    BY DEF SaveCredentials, Running
  <2>2. JobFits(job[p]) /\ job[p].prog \in {"none", "enroll", "remove"}
    BY DEF IInv, JobsFit, TypeOK, Jobs
  <2>. QED BY <2>1, <2>2, DirsFit DEF JobFits, OwnDir
<1>2. UNCHANGED <<file, list, monitor, nodes, history>>
  BY DEF SaveCredentials, SaveFile
<1>3. ASSUME c \notin mixed, ~stale PROVE SavedSoFar(p)
  <2>1. p \in Enrolling(c)
    BY <1>1 DEF Enrolling, Enrolls, OwnDir
  <2>. QED BY <1>1, <1>3, <2>1 DEF IInv, FilesFit
<1>4. dir \in [Dirs -> Files] /\ job[p] \in Jobs /\ job \in [Commands -> Jobs]
  BY DEF IInv, TypeOK
<1>5. CASE job[p].pc = "key"
  <2>1. Goto(p, "cert") /\ dir' = [dir EXCEPT ![c].key = p, ![c].there = TRUE]
    BY <1>5 DEF SaveCredentials, SaveFile
  <2>2. /\ dir' \in [Dirs -> Files] /\ dir'[c].key = p
        /\ \A d \in Dirs : d # c => dir'[d] = dir[d]
    BY <1>1, <1>4, <2>1 DEF Files, Owners
  <2>3. job'[p].pc = "cert" /\ job'[p].at = job[p].at
    BY <1>4, <2>1 DEF Goto, Jobs
  <2>4. SavedSoFar(p)'
    BY <2>2, <2>3 DEF SavedSoFar, OwnDir
  <2>. QED BY <1>1, <1>2, <2>1, <2>2, <2>4, SaveFileKeeps
<1>6. CASE job[p].pc = "cert"
  <2>1. Goto(p, "id") /\ dir' = [dir EXCEPT ![c].cert = p, ![c].there = TRUE]
    BY <1>6 DEF SaveCredentials, SaveFile
  <2>2. /\ dir' \in [Dirs -> Files] /\ dir'[c].cert = p /\ dir'[c].key = dir[c].key
        /\ \A d \in Dirs : d # c => dir'[d] = dir[d]
    BY <1>1, <1>4, <2>1 DEF Files, Owners
  <2>3. job'[p].pc = "id" /\ job'[p].at = job[p].at
    BY <1>4, <2>1 DEF Goto, Jobs
  <2>4. c \notin mixed /\ ~stale => SavedSoFar(p)'
    BY <1>3, <1>6, <2>2, <2>3 DEF SavedSoFar, OwnDir
  <2>. QED BY <1>1, <1>2, <2>1, <2>2, <2>4, SaveFileKeeps
<1>7. CASE job[p].pc = "id"
  <2>1. Goto(p, "save") /\ dir' = [dir EXCEPT ![c].id = p, ![c].there = TRUE]
    BY <1>7 DEF SaveCredentials, SaveFile
  <2>2. /\ dir' \in [Dirs -> Files] /\ dir'[c].id = p /\ dir'[c].key = dir[c].key
        /\ dir'[c].cert = dir[c].cert
        /\ \A d \in Dirs : d # c => dir'[d] = dir[d]
    BY <1>1, <1>4, <2>1 DEF Files, Owners
  <2>3. job'[p].pc = "save" /\ job'[p].at = job[p].at
    BY <1>4, <2>1 DEF Goto, Jobs
  <2>4. c \notin mixed /\ ~stale => SavedSoFar(p)'
    BY <1>3, <1>7, <2>2, <2>3 DEF SavedSoFar, OwnDir
  <2>. QED BY <1>1, <1>2, <2>1, <2>2, <2>4, SaveFileKeeps
<1>. QED BY <1>1, <1>5, <1>6, <1>7

LEMMA StopKeeps ==
  ASSUME IInv, NEW p \in Commands, Stop(p)
  PROVE  IInv'
<1>1. Running(job[p]) /\ Goto(p, "done") /\ UNCHANGED <<file, list, dir, monitor, nodes, history>>
  BY DEF Stop
<1>2. /\ job' \in [Commands -> Jobs]
      /\ \A q \in Commands \ {p} : job'[q] = job[q]
      /\ job'[p] = [job[p] EXCEPT !.pc = "done"]
      /\ \A d \in Dirs : Enrolling(d)' \subseteq Enrolling(d)
      /\ JobsFit' /\ OneEnrollment'
  BY <1>1, GoesOn DEF history
<1>3. job'[p].pc = "done" /\ job'[p].at = job[p].at /\ job'[p].copy = job[p].copy
  BY <1>2 DEF IInv, TypeOK, Jobs
<1>4. TypeOK'
  BY <1>1, <1>2 DEF IInv, TypeOK, history
<1>5. ASSUME ~stale' PROVE ReadersHaveIt' /\ WriterHasIt' /\ FilesFit'
  <2>1. ~stale /\ UNCHANGED <<file, list, dir, monitor, seen, mixed>>
    BY <1>1, <1>5 DEF history
  <2>2. ReadersHaveIt' /\ WriterHasIt'
    BY <1>2, <1>3, <2>1, ReadersStay
  <2>3. FilesFit'
    BY <1>2, <1>3, <1>4, <2>1, FilesStay DEF TypeOK
  <2>. QED BY <2>2, <2>3
<1>. QED BY <1>2, <1>4, <1>5 DEF IInv

-----------------------------------------------------------------------------
(* The steps of os-remove-node *)

LEMMA StartRemoveKeeps ==
  ASSUME EnrollmentAssumption, IInv, NEW p \in Commands, NEW S \in SUBSET Controllers,
         NEW c \in Controllers, StartRemove(p, S, c)
  PROVE  IInv'
<1>. DEFINE j == Job("remove", "notify", c, S \ {c}, list)
<1>1. /\ j \in Jobs /\ j.prog = "remove" /\ j.pc = "notify" /\ j.at = c
      /\ j.todo = S \ {c} /\ j.copy = list
  BY ListsFit, JobMade
<1>2. /\ job' = [job EXCEPT ![p] = j] /\ file = "whole" /\ job[p].pc = "idle"
      /\ seen' = seen \cup {p} /\ UNCHANGED <<file, list, dir, monitor, nodes, stale, mixed>>
      /\ \A d \in S \cup {c} : d \in Controllers /\ Listed(d)
  BY DEF StartRemove, Readers
<1>. HIDE DEF j
<1>3. \A d \in S \cup {c} : list[d] # NoEntry
  BY <1>2, ListsFit, EntriesFit DEF Lists, Listed
<1>4. JobFits(j)
  BY <1>1, <1>3 DEF JobFits
<1>5. \A d \in Dirs : Enrolls(j, d) => Enrolls(job[p], d)
  BY <1>1 DEF Enrolls
<1>6. /\ job' \in [Commands -> Jobs]
      /\ \A q \in Commands : job'[q] = IF q = p THEN j ELSE job[q]
      /\ \A d \in Dirs : Enrolling(d)' \subseteq Enrolling(d)
      /\ JobsFit' /\ OneEnrollment'
  BY <1>1, <1>2, <1>4, <1>5, JobStep
<1>7. TypeOK'
  BY <1>2, <1>6 DEF IInv, TypeOK
<1>8. ASSUME ~stale' PROVE ReadersHaveIt' /\ WriterHasIt' /\ FilesFit'
  <2>1. ~stale
    BY <1>2, <1>8
  <2>2. ReadersHaveIt'
    BY <1>1, <1>2, <1>6, <2>1 DEF EnrollmentAssumption, IInv, TypeOK, ReadersHaveIt
  <2>3. WriterHasIt'
    BY <1>1, <1>2, <1>6, <2>1 DEF IInv, WriterHasIt
  <2>4. FilesFit'
    BY <1>1, <1>2, <1>6, <1>7, <2>1, FilesStay DEF TypeOK
  <2>. QED BY <2>2, <2>3, <2>4
<1>. QED BY <1>6, <1>7, <1>8 DEF IInv

LEMMA NotifyKeeps ==
  ASSUME IInv, NEW p \in Commands, NotifyControllerOfRemoval(p)
  PROVE  IInv'
<1>1. /\ Running(job[p]) /\ Goto(p, "delete") /\ UNCHANGED <<file, list, dir, monitor, history>>
      /\ job[p].prog # "enroll"
  BY DEF NotifyControllerOfRemoval, Running, IInv, JobsFit, JobFits
<1>2. /\ job' \in [Commands -> Jobs]
      /\ \A q \in Commands \ {p} : job'[q] = job[q]
      /\ job'[p] = [job[p] EXCEPT !.pc = "delete"]
      /\ \A d \in Dirs : Enrolling(d)' \subseteq Enrolling(d)
      /\ JobsFit' /\ OneEnrollment'
  BY <1>1, GoesOn DEF history
<1>3. job'[p].pc = "delete" /\ job'[p].at = job[p].at /\ job'[p].copy = job[p].copy
  BY <1>2 DEF IInv, TypeOK, Jobs
<1>4. nodes' \in [Commands -> {"none", "requested", "rejected", "active", "revoked", "removed"}]
  BY DEF NotifyControllerOfRemoval, Told, IInv, TypeOK
<1>5. TypeOK'
  BY <1>1, <1>2, <1>4 DEF IInv, TypeOK, history
<1>6. ASSUME ~stale' PROVE ReadersHaveIt' /\ WriterHasIt' /\ FilesFit'
  <2>1. ~stale /\ UNCHANGED <<file, list, dir, monitor, seen, mixed>>
    BY <1>1, <1>6 DEF history
  <2>2. ReadersHaveIt' /\ WriterHasIt'
    BY <1>2, <1>3, <2>1, ReadersStay
  <2>3. FilesFit'
    BY <1>2, <1>3, <1>5, <2>1, FilesStay DEF TypeOK
  <2>. QED BY <2>2, <2>3
<1>. QED BY <1>2, <1>5, <1>6 DEF IInv

LEMMA DeleteControllerCertsKeeps ==
  ASSUME IInv, NEW p \in Commands, DeleteControllerCerts(p)
  PROVE  IInv'
<1>1. /\ Running(job[p]) /\ Goto(p, "save") /\ UNCHANGED <<file, list, monitor, nodes, history>>
      /\ job[p].prog # "enroll" /\ dir' = [dir EXCEPT ![OwnDir(p)] = NoFiles]
  BY DEF DeleteControllerCerts, Running, IInv, JobsFit, JobFits
<1>2. /\ job' \in [Commands -> Jobs]
      /\ \A q \in Commands \ {p} : job'[q] = job[q]
      /\ job'[p] = [job[p] EXCEPT !.pc = "save"]
      /\ \A d \in Dirs : Enrolling(d)' \subseteq Enrolling(d)
      /\ JobsFit' /\ OneEnrollment'
  BY <1>1, GoesOn DEF history
<1>3. /\ job'[p].pc = "save" /\ job'[p].at = job[p].at /\ job'[p].copy = job[p].copy
      /\ job'[p].prog = job[p].prog
  BY <1>2 DEF IInv, TypeOK, Jobs
<1>4. /\ dir' \in [Dirs -> Files]
      /\ \A d \in Dirs : /\ dir'[d].key \in {None, dir[d].key}
                               /\ dir'[d].cert \in {None, dir[d].cert}
                               /\ dir'[d].id \in {None, dir[d].id}
  BY <1>1 DEF IInv, TypeOK, Files, Owners, NoFiles
<1>5. TypeOK'
  BY <1>1, <1>2, <1>4 DEF IInv, TypeOK, history
<1>6. ASSUME ~stale' PROVE ReadersHaveIt' /\ WriterHasIt' /\ FilesFit'
  <2>1. ~stale /\ UNCHANGED <<file, list, monitor, seen, mixed>>
    BY <1>1, <1>6 DEF history
  <2>2. ReadersHaveIt' /\ WriterHasIt'
    BY <1>2, <1>3, <2>1, ReadersStay
  <2>3. FilesFit'
    BY <1>1, <1>2, <1>3, <1>4, <2>1, FilesStay
  <2>. QED BY <2>2, <2>3
<1>. QED BY <1>2, <1>5, <1>6 DEF IInv

-----------------------------------------------------------------------------
(* The steps of saveControllersConfig *)

LEMMA TruncateKeeps ==
  ASSUME EnrollmentAssumption, IInv, NEW p \in Commands, Truncate(p)
  PROVE  IInv'
<1>1. /\ Running(job[p]) /\ Goto(p, "write") /\ UNCHANGED <<list, dir, monitor, nodes, mixed>>
      /\ job[p].pc = "save" /\ file' = "empty" /\ seen' = {}
      /\ stale' = (stale \/ p \notin seen)
  BY DEF Truncate, Running
<1>2. /\ job' \in [Commands -> Jobs]
      /\ \A q \in Commands \ {p} : job'[q] = job[q]
      /\ job'[p] = [job[p] EXCEPT !.pc = "write"]
      /\ \A d \in Dirs : Enrolling(d)' \subseteq Enrolling(d)
      /\ JobsFit' /\ OneEnrollment'
  BY <1>1, GoesOn
<1>3. /\ job'[p].pc = "write" /\ job'[p].at = job[p].at /\ job'[p].copy = job[p].copy
      /\ job'[p].prog = job[p].prog
  BY <1>2 DEF IInv, TypeOK, Jobs
<1>4. TypeOK'
  BY <1>1, <1>2 DEF IInv, TypeOK
<1>5. ASSUME ~stale' PROVE ReadersHaveIt' /\ WriterHasIt' /\ FilesFit'
  <2>1. ~stale /\ p \in seen \ {Monitor}
    BY <1>1, <1>5 DEF EnrollmentAssumption
  <2>2. file = "whole" /\ job[p].copy = list
    BY <2>1 DEF IInv, ReadersHaveIt
  <2>3. ReadersHaveIt'
    BY <1>1 DEF ReadersHaveIt
  <2>4. WriterHasIt'
    BY <1>1, <1>2, <1>3, <2>1, <2>2 DEF IInv, WriterHasIt
  <2>5. FilesFit'
    BY <1>1, <1>2, <1>3, <1>4, <2>1, FilesStay DEF TypeOK
  <2>. QED BY <2>3, <2>4, <2>5
<1>. QED BY <1>2, <1>4, <1>5 DEF IInv

\* What a command is after a save: done, or a removal from the next controller.
LEMMA SavedFits ==
  ASSUME IInv, NEW p \in Commands, NEW c \in Controllers, Running(job[p]),
         Saved(p, c), UNCHANGED mixed
  PROVE  /\ job' \in [Commands -> Jobs]
         /\ \A q \in Commands \ {p} : job'[q] = job[q]
         /\ job'[p].copy = NewList(p)
         /\ job'[p].pc \in {"notify", "done"}
         /\ \A d \in Dirs : Enrolling(d)' \subseteq Enrolling(d) \ {p}
         /\ JobsFit' /\ OneEnrollment'
<1>1. /\ job[p] \in Jobs /\ JobFits(job[p])
      /\ NewList(p) \in Lists /\ NewList(p)[job[p].at] # NoEntry
      /\ \A d \in Controllers \ {job[p].at} : NewList(p)[d] = job[p].copy[d]
  BY NewListFits DEF IInv, TypeOK, JobsFit
<1>2. PICK j \in Jobs :
        /\ job' = [job EXCEPT ![p] = j] /\ j.copy = NewList(p) /\ j.prog = job[p].prog
        /\ \/ j.pc = "done"
           \/ j.pc = "notify" /\ j.at \in job[p].todo /\ j.todo \subseteq job[p].todo
  <2>. DEFINE more == [job[p] EXCEPT !.copy = NewList(p)]
  <2>1. /\ more \in Jobs /\ more.copy = NewList(p) /\ more.prog = job[p].prog
        /\ more.todo = job[p].todo
    BY <1>1 DEF Jobs
  <2>2. CASE job[p].todo = {}
    <3>1. job' = [job EXCEPT ![p] = [more EXCEPT !.pc = "done"]]
      BY <2>2 DEF Saved
    <3>. HIDE DEF more
    <3>. DEFINE j == [more EXCEPT !.pc = "done"]
    <3>2. j \in Jobs /\ j.copy = NewList(p) /\ j.prog = job[p].prog /\ j.pc = "done"
      BY <2>1 DEF Jobs
    <3>. QED BY <3>1, <3>2
  <2>3. CASE job[p].todo # {}
    <3>1. /\ c \in job[p].todo
          /\ job' = [job EXCEPT ![p] = [more EXCEPT !.pc = "notify", !.at = c, !.todo = @ \ {c}]]
      BY <2>3 DEF Saved
    <3>. HIDE DEF more
    <3>. DEFINE j == [more EXCEPT !.pc = "notify", !.at = c, !.todo = @ \ {c}]
    <3>2. /\ j \in Jobs /\ j.copy = NewList(p) /\ j.prog = job[p].prog
          /\ j.pc = "notify" /\ j.at = c /\ j.todo \subseteq job[p].todo
      BY <2>1, <3>1 DEF Jobs
    <3>. QED BY <3>1, <3>2
  <2>. QED BY <2>2, <2>3
<1>3. j.pc = "notify" => j.prog = "remove"
  BY <1>1, <1>2 DEF JobFits, Jobs
<1>4. JobFits(j)
  <2>1. CASE j.pc = "done"
    BY <2>1 DEF JobFits, Running
  <2>2. CASE j.pc = "notify"
    <3>1. /\ j.prog = "remove" /\ j.at \in Controllers /\ j.todo \subseteq Controllers
          /\ j.at \in job[p].todo /\ j.todo \subseteq job[p].todo
      BY <1>1, <1>2, <1>3, <2>2 DEF Jobs
    <3>2. \A d \in j.todo \cup {j.at} : j.copy[d] # NoEntry
      BY <1>1, <1>2, <3>1 DEF JobFits
    <3>. QED BY <2>2, <3>1, <3>2 DEF JobFits
  <2>. QED BY <1>2, <2>1, <2>2
<1>5. \A d \in Dirs : ~Enrolls(j, d)
  BY <1>2, <1>3 DEF Enrolls, Running
<1>6. /\ job' \in [Commands -> Jobs]
      /\ \A q \in Commands : job'[q] = IF q = p THEN j ELSE job[q]
      /\ \A d \in Dirs : Enrolling(d)' \subseteq Enrolling(d)
      /\ JobsFit' /\ OneEnrollment'
  BY <1>2, <1>4, <1>5, JobStep
<1>7. \A d \in Dirs : p \notin Enrolling(d)'
  BY <1>5, <1>6 DEF Enrolling, Enrolls, Running
<1>. QED BY <1>2, <1>6, <1>7

LEMMA WriteKeeps ==
  ASSUME EnrollmentAssumption, IInv, NEW p \in Commands, NEW c \in Controllers, Write(p, c)
  PROVE  IInv'
<1>. DEFINE a == job[p].at
<1>1. /\ Running(job[p]) /\ job[p].pc = "write" /\ Saved(p, c) /\ list' = NewList(p)
      /\ file' \in IF file = "empty" THEN {"whole"} ELSE {"whole", "garbage"}
      /\ seen' = IF file' = "whole" THEN {p} ELSE {}
      /\ UNCHANGED <<dir, monitor, nodes, stale, mixed>>
  BY DEF Write, Running
<1>2. /\ job' \in [Commands -> Jobs]
      /\ \A q \in Commands \ {p} : job'[q] = job[q]
      /\ job'[p].copy = NewList(p)
      /\ job'[p].pc \in {"notify", "done"}
      /\ \A d \in Dirs : Enrolling(d)' \subseteq Enrolling(d) \ {p}
      /\ JobsFit' /\ OneEnrollment'
  BY <1>1, SavedFits
<1>3. /\ NewList(p) \in Lists
      /\ \A d \in Controllers \ {a} : NewList(p)[d] = job[p].copy[d]
      /\ job[p].prog = "enroll" => NewList(p)[a] = Entry(p, "active")
      /\ job[p].prog # "enroll" => NewList(p)[a].status = "removed"
  BY <1>1, NewListFits
<1>4. TypeOK'
  <2>1. /\ file' \in {"whole", "empty", "garbage"} /\ list' \in Lists
        /\ seen' \subseteq Commands \cup {Monitor}
    BY <1>1, <1>3
  <2>. QED BY <1>1, <1>2, <2>1 DEF IInv, TypeOK
<1>5. ASSUME ~stale' PROVE ReadersHaveIt' /\ WriterHasIt' /\ FilesFit'
  <2>1. ~stale /\ file = "empty" /\ job[p].copy = list
        /\ \A q \in Commands \ {p} : job[q].pc # "write"
    BY <1>1, <1>5 DEF IInv, WriterHasIt
  <2>2. file' = "whole" /\ seen' = {p}
    BY <1>1, <2>1
  <2>3. ReadersHaveIt'
    BY <1>1, <1>2, <2>2 DEF EnrollmentAssumption, ReadersHaveIt
  <2>4. WriterHasIt'
    BY <1>2, <2>1 DEF IInv, WriterHasIt
  <2>5. p \in Enrolling(Dir[a]) \/ job[p].prog # "enroll"
    BY <1>1 DEF Enrolling, Enrolls
  <2>6. a \in Controllers /\ Dir[a] \in Dirs
    BY <1>1, DirsFit DEF IInv, JobsFit, JobFits
  <2>7. ASSUME NEW d \in Dirs \ mixed', NEW q \in Enrolling(d)'
        PROVE  SavedSoFar(q)' /\ \A b \in In(d) : ~Listed(b)'
    <3>1. /\ q \in Commands /\ q # p /\ q \in Enrolling(d)
          /\ d \in Dirs \ mixed /\ job'[q] = job[q]
      BY <1>1, <1>2, <2>7 DEF Enrolling, Enrolls
    <3>2. SavedSoFar(q) /\ \A b \in In(d) : ~Listed(b)
      BY <2>1, <3>1 DEF IInv, FilesFit
    <3>3. SavedSoFar(q)'
      BY <1>1, <3>1, <3>2 DEF SavedSoFar, OwnDir
    <3>4. d = Dir[a] => job[p].prog # "enroll"
      BY <2>5, <3>1 DEF IInv, OneEnrollment
    <3>5. ASSUME NEW b \in In(d) PROVE ~Listed(b)'
      <4>1. b \in Controllers /\ Dir[b] = d
        BY DirsFit
      <4>. QED BY <1>1, <1>3, <2>1, <3>1, <3>2, <3>4, <4>1 DEF Listed
    <3>. QED BY <3>3, <3>5
  <2>8. ASSUME NEW d \in Dirs \ mixed', NEW b \in In(d), Listed(b)'
        PROVE  {dir'[d].key, dir'[d].cert, dir'[d].id} \subseteq {None, list'[b].id}
    <3>1. b \in Controllers /\ Dir[b] = d /\ d \in Dirs \ mixed
      BY <1>1, DirsFit
    <3>2. CASE b = a
      <4>1. job[p].prog = "enroll" /\ list'[b] = Entry(p, "active")
        BY <1>1, <1>3, <2>8, <3>2 DEF Listed
      <4>2. SavedSoFar(p) /\ list'[b].id = p
        BY <2>1, <2>5, <3>1, <3>2, <4>1, EntriesFit DEF IInv, FilesFit
      <4>. QED BY <1>1, <3>1, <3>2, <4>2 DEF SavedSoFar, OwnDir
    <3>3. CASE b # a
      BY <1>1, <1>3, <2>1, <2>8, <3>1, <3>3 DEF Listed, IInv, FilesFit
    <3>. QED BY <3>2, <3>3
  <2>. QED BY <2>3, <2>4, <2>7, <2>8 DEF FilesFit
<1>. QED BY <1>2, <1>4, <1>5 DEF IInv

LEMMA WriteLostKeeps ==
  ASSUME IInv, NEW p \in Commands, NEW c \in Controllers, WriteLost(p, c)
  PROVE  IInv'
<1>1. /\ Running(job[p]) /\ job[p].pc = "lost" /\ Saved(p, c) /\ seen' = seen \ {p}
      /\ UNCHANGED <<file, list, dir, monitor, nodes, stale, mixed>>
  BY DEF WriteLost, Running
<1>2. job' \in [Commands -> Jobs] /\ JobsFit' /\ OneEnrollment'
  BY <1>1, SavedFits
<1>3. TypeOK'
  BY <1>1, <1>2 DEF IInv, TypeOK
<1>4. stale'
  BY <1>1 DEF IInv, WriterHasIt
<1>. QED BY <1>2, <1>3, <1>4 DEF IInv

LEMMA SaveFailsKeeps ==
  ASSUME EnrollmentAssumption, IInv, NEW p \in Commands, NEW c \in Controllers,
         SaveFails(p, c)
  PROVE  IInv'
<1>1. /\ Running(job[p]) /\ job[p].pc = "save" /\ Saved(p, c) /\ file' \in {file, "empty"}
      /\ seen' = IF file' = file THEN seen \ {p} ELSE {}
      /\ UNCHANGED <<list, dir, monitor, nodes, stale, mixed>>
  BY DEF SaveFails, Running
<1>2. /\ job' \in [Commands -> Jobs]
      /\ \A q \in Commands \ {p} : job'[q] = job[q]
      /\ job'[p].pc \in {"notify", "done"}
      /\ \A d \in Dirs : Enrolling(d)' \subseteq Enrolling(d) \ {p}
      /\ JobsFit' /\ OneEnrollment'
  BY <1>1, SavedFits
<1>3. TypeOK'
  BY <1>1, <1>2 DEF IInv, TypeOK
<1>4. ASSUME ~stale' PROVE ReadersHaveIt' /\ WriterHasIt' /\ FilesFit'
  <2>1. ~stale
    BY <1>1, <1>4
  <2>2. ReadersHaveIt'
    <3>1. ReadersHaveIt /\ seen \subseteq Commands \cup {Monitor}
      BY <2>1 DEF IInv, TypeOK
    <3>2. CASE file' = file
      BY <1>1, <1>2, <3>1, <3>2 DEF EnrollmentAssumption, ReadersHaveIt
    <3>3. CASE file' # file
      BY <1>1, <3>3 DEF ReadersHaveIt
    <3>. QED BY <3>2, <3>3
  <2>3. WriterHasIt'
    BY <1>1, <1>2, <2>1 DEF IInv, WriterHasIt
  <2>4. FilesFit'
    <3>1. ASSUME NEW d \in Dirs \ mixed', NEW q \in Enrolling(d)'
          PROVE  SavedSoFar(q)' /\ \A b \in In(d) : ~Listed(b)'
      <4>1. q \in Enrolling(d) /\ q \in Commands \ {p} /\ job'[q] = job[q] /\ d \in Dirs \ mixed
        BY <1>1, <1>2, <3>1 DEF Enrolling
      <4>. QED BY <1>1, <2>1, <4>1 DEF IInv, FilesFit, Listed, SavedSoFar, OwnDir
    <3>2. ASSUME NEW d \in Dirs \ mixed', NEW b \in In(d), Listed(b)'
          PROVE  {dir'[d].key, dir'[d].cert, dir'[d].id} \subseteq {None, list'[b].id}
      BY <1>1, <2>1, <3>2 DEF IInv, FilesFit, Listed
    <3>. QED BY <3>1, <3>2 DEF FilesFit
  <2>. QED BY <2>2, <2>3, <2>4
<1>. QED BY <1>2, <1>3, <1>4 DEF IInv

-----------------------------------------------------------------------------
(* The steps of the revocation monitor and of the controllers *)

\* What the monitor is between two questions.
LEMMA FurtherFits ==
  ASSUME IInv, NEW T \in SUBSET (Controllers \X Commands)
  PROVE  Further(T) \in Monitors /\ Further(T).pc \in {"sleep", "ask"}
BY ListsFit DEF Further, Sleeping, Monitors

\* A step that changes no more than what the monitor is doing, or the nodes.
LEMMA OthersStay ==
  ASSUME IInv, UNCHANGED <<file, list, dir, job, history>>,
         monitor' \in Monitors,
         monitor'.pc \in {"read", "move"} => monitor'.at \in Controllers,
         nodes' \in [Commands -> {"none", "requested", "rejected", "active", "revoked", "removed"}],
         Monitor \in seen => UNCHANGED monitor
  PROVE  IInv'
<1>1. UNCHANGED <<file, list, dir, job, seen, stale, mixed>>
  BY DEF history
<1>2. TypeOK'
  BY <1>1 DEF IInv, TypeOK
<1>3. \A d \in Dirs : Enrolling(d)' = Enrolling(d)
  BY <1>1 DEF Enrolling
<1>4. JobsFit' /\ OneEnrollment'
  BY <1>1, <1>3 DEF IInv, JobsFit, OneEnrollment
<1>5. ASSUME ~stale' PROVE ReadersHaveIt' /\ WriterHasIt' /\ FilesFit'
  <2>1. ReadersHaveIt'
    BY <1>1, <1>5 DEF IInv, ReadersHaveIt
  <2>2. WriterHasIt'
    BY <1>1, <1>5 DEF IInv, WriterHasIt
  <2>3. FilesFit'
    BY <1>1, <1>2, <1>3, <1>5, FilesStay DEF TypeOK
  <2>. QED BY <2>1, <2>2, <2>3
<1>. QED BY <1>2, <1>4, <1>5 DEF IInv

\* Between "sleep" and "ask" the monitor has read nothing.
LEMMA AskingKeeps ==
  ASSUME IInv, monitor.pc \in {"sleep", "ask"}, monitor' \in Monitors,
         monitor'.pc \in {"read", "move"} => monitor'.at \in Controllers,
         UNCHANGED <<file, list, dir, job, nodes, history>>
  PROVE  IInv'
<1>1. CASE stale
  <2>1. /\ UNCHANGED <<file, list, dir, job, nodes, seen, stale, mixed>> /\ stale'
        /\ \A d \in Dirs : Enrolling(d)' = Enrolling(d)
    BY <1>1 DEF history, Enrolling
  <2>2. TypeOK' /\ JobsFit' /\ OneEnrollment'
    BY <2>1 DEF IInv, TypeOK, JobsFit, OneEnrollment
  <2>. QED BY <2>1, <2>2 DEF IInv
<1>2. CASE ~stale
  <2>1. Monitor \notin seen
    BY <1>2 DEF IInv, ReadersHaveIt
  <2>2. nodes' \in [Commands -> {"none", "requested", "rejected", "active", "revoked", "removed"}]
    BY DEF IInv, TypeOK
  <2>. QED BY <2>1, <2>2, OthersStay
<1>. QED BY <1>1, <1>2

LEMMA LookKeeps ==
  ASSUME IInv, Look
  PROVE  IInv'
<1>. DEFINE T == {<<c, list[c].id>> : c \in {d \in Controllers : Listed(d)}}
<1>1. T \in SUBSET (Controllers \X Commands)
  BY ListsFit, EntriesFit DEF Listed, Lists
<1>2. /\ monitor' = Further(T) /\ monitor.pc = "sleep"
      /\ UNCHANGED <<file, list, dir, job, nodes, history>>
  BY DEF Look, Sets
<1>3. monitor' \in Monitors /\ monitor'.pc \in {"sleep", "ask"}
  BY <1>1, <1>2, FurtherFits
<1>. QED BY <1>2, <1>3, AskingKeeps

LEMMA CheckKeeps ==
  ASSUME IInv, NEW x \in monitor.todo, CheckRevoked(x) \/ CheckOther(x)
  PROVE  IInv'
<1>1. /\ x[1] \in Controllers /\ monitor.todo \ {x} \in SUBSET (Controllers \X Commands)
      /\ monitor \in Monitors
  BY DEF IInv, TypeOK, Monitors
<1>2. monitor.pc = "ask" /\ UNCHANGED <<file, list, dir, job, nodes, history>>
  BY DEF CheckRevoked, CheckOther
<1>3. CASE CheckRevoked(x)
  <2>1. monitor' = [monitor EXCEPT !.pc = "read", !.at = x[1], !.todo = @ \ {x}]
    BY <1>3 DEF CheckRevoked, Sets
  <2>2. monitor' \in Monitors /\ monitor'.at \in Controllers
    BY <1>1, <2>1 DEF Monitors
  <2>. QED BY <1>2, <2>2, AskingKeeps
<1>4. CASE CheckOther(x)
  <2>1. monitor' = Further(monitor.todo \ {x})
    BY <1>4 DEF CheckOther, Sets
  <2>2. monitor' \in Monitors /\ monitor'.pc \in {"sleep", "ask"}
    BY <1>1, <2>1, FurtherFits
  <2>. QED BY <1>2, <2>2, AskingKeeps
<1>. QED BY <1>3, <1>4

LEMMA HandleRevocationKeeps ==
  ASSUME EnrollmentAssumption, IInv, HandleRevocation
  PROVE  IInv'
<1>. DEFINE c == monitor.at
            e == [list[c] EXCEPT !.status = "revoked"]
            l == IF Listed(c) THEN [list EXCEPT ![c] = e] ELSE list
<1>1. /\ monitor.pc = "read" /\ c \in Controllers /\ monitor \in Monitors
      /\ seen' = Readers(Monitor) /\ UNCHANGED <<file, list, dir, job, nodes, stale, mixed>>
  BY DEF HandleRevocation, IInv, TypeOK
<1>2. monitor' = [monitor EXCEPT !.pc = "move", !.file = file, !.copy = l]
  BY DEF HandleRevocation, Sets
<1>3. list \in Lists /\ (Listed(c) => e \in Entries /\ e.status = "revoked")
  BY <1>1, ListsFit, EntriesFit DEF Listed, Lists
<1>4. /\ l \in Lists /\ \A d \in Controllers \ {c} : l[d] = list[d]
      /\ l[c] = IF Listed(c) THEN e ELSE list[c]
  BY <1>1, <1>3 DEF Lists
<1>5. l[c].status # "active"
  BY <1>3, <1>4 DEF Listed
<1>. HIDE DEF l
<1>6. /\ monitor' \in Monitors /\ monitor'.pc = "move" /\ monitor'.at = c
      /\ monitor'.file = file /\ monitor'.copy = l
  BY <1>1, <1>2, <1>4 DEF Monitors, IInv, TypeOK
<1>7. TypeOK'
  BY <1>1, <1>6 DEF IInv, TypeOK, Readers
<1>8. \A d \in Dirs : Enrolling(d)' = Enrolling(d)
  BY <1>1 DEF Enrolling
<1>9. JobsFit' /\ OneEnrollment'
  BY <1>1, <1>8 DEF IInv, JobsFit, OneEnrollment
<1>10. ASSUME ~stale' PROVE ReadersHaveIt' /\ WriterHasIt' /\ FilesFit'
  <2>1. ReadersHaveIt'
    <3>1. ~stale /\ ReadersHaveIt
      BY <1>1, <1>10 DEF IInv
    <3>2. Monitor \notin seen
      BY <1>1, <3>1 DEF ReadersHaveIt
    <3>3. CASE file = "whole"
      BY <1>1, <1>4, <1>5, <1>6, <3>1, <3>3 DEF ReadersHaveIt, Readers
    <3>4. CASE file # "whole"
      BY <1>1, <3>1, <3>2, <3>4 DEF ReadersHaveIt, Readers
    <3>. QED BY <3>3, <3>4
  <2>2. WriterHasIt'
    BY <1>1, <1>10 DEF IInv, WriterHasIt
  <2>3. FilesFit'
    BY <1>1, <1>7, <1>8, <1>10, FilesStay DEF TypeOK
  <2>. QED BY <2>1, <2>2, <2>3
<1>. QED BY <1>7, <1>9, <1>10 DEF IInv

LEMMA MoveCopyKeeps ==
  ASSUME EnrollmentAssumption, IInv, MoveCopy
  PROVE  IInv'
<1>1. /\ monitor.pc = "move" /\ file' = monitor.file /\ list' = monitor.copy
      /\ job' = [p \in Commands |-> IF job[p].pc = "write" THEN [job[p] EXCEPT !.pc = "lost"]
                                    ELSE job[p]]
      /\ stale' = (stale \/ Monitor \notin seen) /\ seen' = {}
      /\ monitor' = Further(monitor.todo) /\ UNCHANGED <<dir, nodes, mixed>>
  BY DEF MoveCopy, Sets
<1>2. monitor' \in Monitors /\ monitor'.pc \in {"sleep", "ask"}
  BY <1>1, FurtherFits DEF IInv, TypeOK, Monitors
<1>3. ASSUME NEW p \in Commands
      PROVE  /\ job'[p] \in Jobs /\ job'[p].at = job[p].at /\ job'[p].prog = job[p].prog
             /\ job'[p].todo = job[p].todo /\ job'[p].copy = job[p].copy
             /\ job'[p].pc = IF job[p].pc = "write" THEN "lost" ELSE job[p].pc
  BY <1>1 DEF IInv, TypeOK, Jobs
<1>4. TypeOK'
  BY <1>1, <1>2, <1>3 DEF IInv, TypeOK, Monitors
<1>5. \A d \in Dirs : Enrolling(d)' = Enrolling(d)
  BY <1>3 DEF Enrolling, Enrolls, Running
<1>6. JobsFit' /\ OneEnrollment'
  <2>1. ASSUME NEW p \in Commands PROVE JobFits(job[p])'
    <3>1. JobFits(job[p])
      BY DEF IInv, JobsFit
    <3>. QED BY <1>3, <3>1 DEF JobFits, Running
  <2>. QED BY <1>1, <1>5, <2>1 DEF IInv, JobsFit, OneEnrollment
<1>7. ASSUME ~stale' PROVE ReadersHaveIt' /\ WriterHasIt' /\ FilesFit'
  <2>1. ~stale /\ Monitor \in seen
    BY <1>1, <1>7
  <2>2. /\ monitor.at \in Controllers /\ file = "whole" /\ file' = "whole"
        /\ \A d \in Controllers \ {monitor.at} : list'[d] = list[d]
        /\ list'[monitor.at].status # "active"
    BY <1>1, <2>1 DEF IInv, ReadersHaveIt
  <2>3. \A p \in Commands : job[p].pc \notin {"write", "lost"} /\ job'[p].pc = job[p].pc
    BY <1>3, <2>1, <2>2 DEF IInv, WriterHasIt
  <2>4. ReadersHaveIt' /\ WriterHasIt'
    BY <1>1, <2>2, <2>3 DEF ReadersHaveIt, WriterHasIt
  <2>5. ASSUME NEW d \in Dirs \ mixed', NEW q \in Enrolling(d)'
        PROVE  SavedSoFar(q)' /\ \A b \in In(d) : ~Listed(b)'
    <3>1. q \in Commands /\ q \in Enrolling(d) /\ d \in Dirs \ mixed
      BY <1>1, <1>5, <2>5 DEF Enrolling
    <3>2. SavedSoFar(q) /\ \A b \in In(d) : ~Listed(b)
      BY <2>1, <3>1 DEF IInv, FilesFit
    <3>. QED BY <1>1, <1>3, <2>2, <2>3, <3>1, <3>2, DirsFit DEF Listed, SavedSoFar, OwnDir
  <2>6. ASSUME NEW d \in Dirs \ mixed', NEW b \in In(d), Listed(b)'
        PROVE  {dir'[d].key, dir'[d].cert, dir'[d].id} \subseteq {None, list'[b].id}
    BY <1>1, <2>1, <2>2, <2>6, DirsFit DEF IInv, FilesFit, Listed
  <2>. QED BY <2>4, <2>5, <2>6 DEF FilesFit
<1>. QED BY <1>4, <1>6, <1>7 DEF IInv

LEMMA AnswerKeeps ==
  ASSUME IInv, NEW p \in Commands, Decide(p) \/ Revoke(p)
  PROVE  IInv'
<1>1. nodes' \in [Commands -> {"none", "requested", "rejected", "active", "revoked", "removed"}]
  BY DEF Decide, Revoke, Answer, IInv, TypeOK
<1>2. UNCHANGED <<file, list, dir, job, monitor, history>>
  BY DEF Decide, Revoke, Answer
<1>. QED BY <1>1, <1>2, OthersStay DEF IInv, TypeOK

-----------------------------------------------------------------------------
(* The theorems *)

LEMMA InitFits ==
  ASSUME EnrollmentAssumption, Init
  PROVE  IInv
<1>1. Enrolled \subseteq Commands \cup {None}
  BY DEF EnrollmentAssumption, Enrolled
<1>2. ASSUME NEW c \in Controllers
      PROVE  /\ list[c] \in Entries /\ (Listed(c) => list[c].id = Earlier[c])
  <2>1. Earlier[c] \in Commands \cup {None} /\ None \notin Commands
    BY DEF EnrollmentAssumption
  <2>2. list[c] = IF Earlier[c] = None THEN NoEntry ELSE Entry(Earlier[c], "active")
    BY DEF Init
  <2>. QED BY <2>1, <2>2 DEF Entries, NoEntry, Entry, Listed
<1>3. Empty \in Lists
  BY DEF Empty, Lists, Entries, NoEntry, Entry
<1>4. ASSUME NEW p \in Commands
      PROVE  job[p] \in Jobs /\ job[p].prog = "none" /\ job[p].pc \in {"idle", "done"}
  BY <1>3 DEF Init, Over, NotStarted, Job, Jobs
<1>5. TypeOK
  <2>1. list \in Lists
    BY <1>2 DEF Init, Lists
  <2>2. dir \in [Dirs -> Files] /\ job \in [Commands -> Jobs]
    <3>1. ASSUME NEW d \in Dirs PROVE EarlierIn(d) \in Owners
      BY DirsFit DEF EarlierIn, EnrollmentAssumption, Owners
    <3>. QED BY <1>4, <3>1 DEF Init, FilesOf, Files, Owners
  <2>3. monitor \in Monitors /\ monitor.pc = "sleep"
    BY <1>3 DEF Init, Sleeping, Monitors
  <2>4. nodes \in [Commands -> {"none", "requested", "rejected", "active", "revoked", "removed"}]
    BY DEF Init
  <2>. QED BY <2>1, <2>2, <2>3, <2>4 DEF Init, TypeOK
<1>6. JobsFit
  BY <1>4 DEF JobsFit, JobFits, Running
<1>7. \A d \in Dirs : Enrolling(d) = {}
  BY <1>4 DEF Enrolling, Enrolls
<1>8. OneEnrollment
  BY <1>7 DEF OneEnrollment
<1>9. ReadersHaveIt
  BY DEF Init, ReadersHaveIt
<1>10. WriterHasIt
  BY <1>4 DEF WriterHasIt
<1>11. FilesFit
  <2>1. ASSUME NEW d \in Dirs, NEW c \in In(d), Listed(c)
        PROVE  {dir[d].key, dir[d].cert, dir[d].id} \subseteq {None, list[c].id}
    <3>1. c \in Controllers /\ Dir[c] = d /\ dir[d] = FilesOf(EarlierIn(d))
      BY DirsFit DEF Init
    <3>2. list[c].id = Earlier[c] /\ Earlier[c] # None
      BY <1>2, <2>1, <3>1 DEF Init, Listed, NoEntry, Entry
    <3>3. \A b \in In(d) : Earlier[b] # None => b = c
      BY <3>1, <3>2, DirsFit DEF EnrollmentAssumption
    <3>4. EarlierIn(d) = Earlier[c]
      BY <3>2, <3>3 DEF EarlierIn
    <3>5. dir[d].key = list[c].id /\ dir[d].cert = list[c].id /\ dir[d].id = list[c].id
      BY <3>1, <3>2, <3>4 DEF FilesOf
    <3>. QED BY <3>5
  <2>. QED BY <1>7, <2>1 DEF FilesFit
<1>. QED BY <1>5, <1>6, <1>8, <1>9, <1>10, <1>11 DEF IInv

LEMMA StepKeeps ==
  ASSUME EnrollmentAssumption, IInv, [Next]_vars
  PROVE  IInv'
<1>1. ASSUME NEW p \in Commands, NEW c \in Controllers,
             StartEnroll(p, c) \/ Write(p, c) \/ WriteLost(p, c) \/ SaveFails(p, c)
      PROVE  IInv'
  BY <1>1, StartEnrollKeeps, WriteKeeps, WriteLostKeeps, SaveFailsKeeps
<1>2. ASSUME NEW p \in Commands, PollForApproval(p) \/ SaveCredentials(p)
      PROVE  IInv'
  BY <1>2, PollForApprovalKeeps, SaveCredentialsKeeps
<1>3. ASSUME NEW p \in Commands, NEW S \in SUBSET Controllers, NEW c \in Controllers,
             StartRemove(p, S, c)
      PROVE  IInv'
  BY <1>3, StartRemoveKeeps
<1>4. ASSUME NEW p \in Commands, NotifyControllerOfRemoval(p) \/ DeleteControllerCerts(p)
      PROVE  IInv'
  BY <1>4, NotifyKeeps, DeleteControllerCertsKeeps
<1>5. ASSUME NEW p \in Commands, Truncate(p) \/ Stop(p)
      PROVE  IInv'
  BY <1>5, TruncateKeeps, StopKeeps
<1>6. ASSUME NEW p \in Commands, Decide(p) \/ Revoke(p)
      PROVE  IInv'
  BY <1>6, AnswerKeeps
<1>7. CASE Monitoring
  BY <1>7, LookKeeps, CheckKeeps, HandleRevocationKeeps, MoveCopyKeeps DEF Monitoring
<1>8. CASE UNCHANGED vars
  BY <1>8, OthersStay DEF vars, IInv, TypeOK
<1>. QED BY <1>1, <1>2, <1>3, <1>4, <1>5, <1>6, <1>7, <1>8 DEF Next

\* The invariant: unless somebody wrote over a list that it had not read, or
\* could not read, whoever is about to save the list has it as it is; and the
\* files in a directory in which no enrollment began while another ran there,
\* or while another URL's entry with that directory was active, are those of
\* one enrollment.
THEOREM Invariance == Spec => []IInv
<1>1. Init => IInv
  BY InitFits, EnrollmentAssumption
<1>2. IInv /\ [Next]_vars => IInv'
  BY StepKeeps, EnrollmentAssumption
<1>. QED BY <1>1, <1>2, PTL DEF Spec

\* The key, the certificate and the id of an active entry are those of its
\* own enrollment, or are gone, with the exceptions that CredentialsFit names:
\* a list that could not be read or was written over unread, and a directory
\* that two enrollments had at a time.
THEOREM CredentialsAlwaysFit == Spec => []CredentialsFit
<1>1. IInv => CredentialsFit
  BY DEF IInv, FilesFit, CredentialsFit
<1>. QED BY <1>1, Invariance, PTL

\* What a step does to the active entry of a controller.
LEMMA ListedStep ==
  ASSUME EnrollmentAssumption, IInv, [Next]_vars, NEW c \in Controllers, Listed(c), ~stale'
  PROVE  \/ list'[c] = list[c]
         \/ \E p \in Commands : /\ job[p].prog = "remove" /\ job[p].pc = "write"
                                /\ job[p].at = c /\ job[p].copy[c] = list[c]
         \/ monitor.pc = "move" /\ monitor.at = c /\ list'[c].status = "revoked"
<1>1. CASE UNCHANGED list
  BY <1>1
<1>2. ASSUME NEW p \in Commands, NEW d \in Controllers, Write(p, d), c # job[p].at
      PROVE  UNCHANGED list[c]
  <2>1. ~stale /\ Running(job[p]) /\ job[p].pc = "write" /\ list' = NewList(p)
    BY <1>2 DEF Write, Running
  <2>2. job[p].copy = list
    BY <2>1 DEF IInv, WriterHasIt
  <2>. QED BY <1>2, <2>1, <2>2, NewListFits
<1>3. ASSUME NEW p \in Commands, NEW d \in Controllers, Write(p, d), c = job[p].at
      PROVE  /\ job[p].prog = "remove" /\ job[p].pc = "write"
             /\ job[p].at = c /\ job[p].copy[c] = list[c]
  <2>1. ~stale /\ Running(job[p]) /\ job[p].pc = "write"
    BY <1>3 DEF Write, Running
  <2>2. job[p].copy = list
    BY <2>1 DEF IInv, WriterHasIt
  <2>3. JobFits(job[p]) /\ job[p] \in Jobs
    BY DEF IInv, JobsFit, TypeOK
  <2>. QED BY <1>3, <2>1, <2>2, <2>3 DEF JobFits, Jobs, Listed
<1>4. CASE MoveCopy
  <2>1. ~stale /\ Monitor \in seen /\ list' = monitor.copy /\ monitor.pc = "move"
    BY <1>4 DEF MoveCopy
  <2>2. list \in Lists /\ list[c] \in Entries /\ list[c] # NoEntry
    BY ListsFit, EntriesFit DEF Lists, Listed
  <2>3. c = monitor.at =>
          list'[c].status # "active"
          /\ list'[c] \in {list[c], [list[c] EXCEPT !.status = "revoked"]}
    BY <2>1 DEF IInv, ReadersHaveIt
  <2>4. c = monitor.at => list'[c].status = "revoked"
    <3>1. [list[c] EXCEPT !.status = "revoked"].status = "revoked"
      BY <2>2, EntriesFit
    <3>. QED BY <2>3, <3>1 DEF Listed
  <2>5. c # monitor.at => list'[c] = list[c]
    BY <2>1 DEF IInv, ReadersHaveIt
  <2>. QED BY <2>1, <2>4, <2>5
<1>5. \/ UNCHANGED list \/ MoveCopy
      \/ \E p \in Commands, d \in Controllers : Write(p, d)
  BY DEF Next, vars, history, Start, StartEnroll, WriteLost, SaveFails, PollForApproval,
         SaveCredentials, SaveFile, StartRemove, NotifyControllerOfRemoval,
         DeleteControllerCerts, Truncate, Stop, Decide, Revoke, Answer, Monitoring, Look,
         CheckRevoked, CheckOther, HandleRevocation
<1>. QED BY <1>1, <1>2, <1>3, <1>4, <1>5

\* An enrollment stays in the list until it is removed, or was revoked, unless
\* somebody wrote over a list that it had not read, or could not read.
THEOREM ListedStaysListed == Spec => ListedStays
<1>1. IInv /\ [Next]_vars =>
        [\A c \in Controllers :
           Listed(c) =>
             \/ list'[c] = list[c]
             \/ \E p \in Commands : /\ job[p].prog = "remove" /\ job[p].pc = "write"
                                    /\ job[p].at = c /\ job[p].copy[c] = list[c]
             \/ monitor.pc = "move" /\ monitor.at = c /\ list'[c].status = "revoked"
             \/ stale']_vars
  BY ListedStep, EnrollmentAssumption
<1>. QED BY <1>1, Invariance, PTL DEF Spec, ListedStays
=============================================================================
