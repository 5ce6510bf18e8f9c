------------------------- MODULE FolderTrashProofs -------------------------
(* Proofs about FolderTrash, for any folders, files and handlers. *)
EXTENDS FolderTrash, WellFoundedInduction, TLAPS

Known(x) == status[x] # "none"

\* A frame of process p, whose operation is op: its lists hold rows of its
\* folder, and a handler deletes only what it saw in the trash.
FrameOK(p, op, t) ==
  /\ t \in Frames
  /\ op \in {"trash", "restore"} => t.pc \in {"self", "files", "list", "subs"}
  /\ op \notin {"trash", "restore"} => t.pc # "self"
  /\ op \in {"trash", "restore"} \/ t.pc \notin {"files", "expired", "erase"}
       => t.folder # None
  /\ t.pc = "erase" => t.file # None
  /\ t.folder # None => Known(t.folder)
  /\ \A c \in t.subs : Known(c) /\ parent[c] = t.folder
  /\ \A f \in t.files \cup ({t.file} \ {None}) :
       Known(f) /\ (t.folder # None => parent[f] = t.folder)
  /\ op \notin {"trash", "restore"} /\ p # Cleaner =>
       /\ t.folder # None /\ t.pc # "check" => t.folder \in binned
       /\ t.pc = "erase" => t.file \in binned

\* What process p holds: operation, folders to do, and a path of frames.
ProcOK(p, q) ==
  /\ q = [op |-> q.op, todo |-> q.todo, stack |-> q.stack]
  /\ q.op \in {"none", "trash", "restore", "purge", "empty", "clean"}
  /\ q.op = "clean" => p = Cleaner
  /\ q.todo \subseteq Folders
  /\ \A d \in q.todo : Known(d)
  /\ q.stack \in Seq(Frames)
  /\ \A i \in 1..Len(q.stack) : FrameOK(p, q.op, q.stack[i])
  /\ \A i \in 2..Len(q.stack) :
       q.stack[i].folder # None /\ parent[q.stack[i].folder] = q.stack[i-1].folder

RowsOK ==
  /\ status \in [Items -> {"none", "live", "gone"} \cup InTrash]
  /\ parent \in [Items -> Folders \cup {None}]

HistoryOK ==
  /\ binned \subseteq Items
  /\ meddled \in [Procs -> SUBSET Items]
  /\ missed \in [Procs -> SUBSET Folders]
  /\ \A x \in Items : status[x] \in InTrash => x \in binned

ProcsOK == DOMAIN proc = Procs /\ proc = [p \in Procs |-> proc[p]]
             /\ \A p \in Procs : ProcOK(p, proc[p])

Inductive == RowsOK /\ HistoryOK /\ ProcsOK

\* What no step takes back: a row once there keeps its parent, and what was
\* in the trash was in the trash.
Grows ==
  /\ \A x \in Items : Known(x) => Known(x)' /\ parent'[x] = parent[x]
  /\ binned \subseteq binned'

-----------------------------------------------------------------------------
\* Frames stay consistent with the tree when it grows.
LEMMA FrameStays ==
  ASSUME FolderAssumption, Grows, NEW p, NEW op, NEW t, FrameOK(p, op, t)
  PROVE  FrameOK(p, op, t)'
<1>1. t \in Frames /\ t.folder \in Folders \cup {None} /\ t.files \subseteq Files
        /\ t.subs \subseteq Folders /\ t.file \in Files \cup {None}
  BY DEF FrameOK, Frames
<1>2. (t \in Frames)'
  BY <1>1 DEF Frames
<1>3. \A c \in t.subs : Known(c)' /\ parent'[c] = t.folder
  BY <1>1 DEF FrameOK, Grows, Items
<1>4. \A f \in t.files \cup ({t.file} \ {None}) :
        Known(f)' /\ (t.folder # None => parent'[f] = t.folder)
  BY <1>1 DEF FrameOK, Grows, Items
<1>5. t.folder # None => Known(t.folder)'
  BY <1>1 DEF FrameOK, Grows, Items
<1>. QED BY <1>1, <1>2, <1>3, <1>4, <1>5 DEF FrameOK, Grows

\* So does what a process holds.
LEMMA ProcStays ==
  ASSUME FolderAssumption, Grows, NEW p, NEW q, ProcOK(p, q)
  PROVE  ProcOK(p, q)'
<1>1. \A i \in 1..Len(q.stack) : FrameOK(p, q.op, q.stack[i])'
  BY FrameStays DEF ProcOK
<1>2. \A i \in 1..Len(q.stack) : q.stack[i] \in Frames
  BY DEF ProcOK
<1>3. (\A d \in q.todo : Known(d))'
  BY DEF ProcOK, Grows, Items
<1>4. ASSUME NEW i \in 2..Len(q.stack)
      PROVE  parent'[q.stack[i].folder] = q.stack[i-1].folder
  <2>1. i \in 1..Len(q.stack)
    BY DEF ProcOK
  <2>2. q.stack[i].folder \in Folders /\ Known(q.stack[i].folder)
    BY <2>1, <1>2 DEF ProcOK, FrameOK, Frames
  <2>. QED BY <2>2 DEF ProcOK, Grows, Items
<1>5. (q.stack \in Seq(Frames))'
  BY DEF ProcOK, Frames
<1>. QED BY <1>1, <1>3, <1>4, <1>5 DEF ProcOK

\* When one process moves, ProcsOK is about that process only.
LEMMA OneMoves ==
  ASSUME FolderAssumption, Inductive, Grows, NEW p \in Procs, NEW q, ProcOK(p, q)',
         proc' = [proc EXCEPT ![p] = q]
  PROVE  ProcsOK'
<1>1. \A r \in Procs : ProcOK(r, proc[r])
  BY DEF Inductive, ProcsOK
<1>2. DOMAIN proc = Procs /\ proc = [r \in Procs |-> proc[r]]
  BY DEF Inductive, ProcsOK
<1>3. DOMAIN proc' = Procs /\ proc' = [r \in Procs |-> proc'[r]]
  BY <1>2
<1>4. ASSUME NEW r \in Procs
      PROVE  ProcOK(r, proc[r])'
  <2>1. CASE r = p
    <3>1. proc'[r] = q
      BY <2>1, <1>2
    <3>. QED BY <3>1, <2>1 DEF ProcOK
  <2>2. CASE r # p
    <3>1. PICK old : old = proc[r]
      OBVIOUS
    <3>2. ProcOK(r, old)
      BY <3>1, <1>1
    <3>3. ProcOK(r, old)'
      BY <3>2, ProcStays
    <3>4. proc'[r] = old
      BY <2>2, <3>1, <1>2
    <3>. QED BY <3>3, <3>4 DEF ProcOK
  <2>. QED BY <2>1, <2>2
<1>5. (Procs = DOMAIN proc)'
  BY <1>3 DEF Procs
<1>. QED BY <1>3, <1>4, <1>5 DEF ProcsOK, Procs

\* Nobody moves.
LEMMA NoneMoves ==
  ASSUME FolderAssumption, Inductive, Grows, UNCHANGED proc
  PROVE  ProcsOK'
<1>1. ASSUME NEW r \in Procs PROVE ProcOK(r, proc[r])'
  <2>1. PICK old : old = proc[r]
    OBVIOUS
  <2>2. ProcOK(r, old)'
    BY <2>1, ProcStays DEF Inductive, ProcsOK
  <2>. QED BY <2>1, <2>2 DEF ProcOK
<1>. QED BY <1>1 DEF Inductive, ProcsOK, Procs

\* A process that begins an operation, or goes on with its next folder, has a
\* stack of one frame.
LEMMA OneFrame ==
  ASSUME FolderAssumption, Inductive, Grows, NEW p \in Procs,
         NEW op \in {"trash", "restore", "purge", "empty", "clean"},
         op = "clean" => p = Cleaner,
         NEW todo \in SUBSET Folders, \A d \in todo : Known(d)',
         NEW t, FrameOK(p, op, t)',
         proc' = [proc EXCEPT ![p] = [op |-> op, todo |-> todo, stack |-> <<t>>]]
  PROVE  ProcsOK'
<1>1. PICK q : q = [op |-> op, todo |-> todo, stack |-> <<t>>]
  OBVIOUS
<1>2. q.op = op /\ q.todo = todo /\ q.stack = <<t>>
  BY <1>1
<1>3. t \in Frames
  BY DEF FrameOK, Frames
<1>4. q.stack \in Seq(Frames) /\ Len(q.stack) = 1 /\ q.stack[1] = t
  BY <1>2, <1>3
<1>5. ProcOK(p, q)'
  <2>1. \A i \in 1..Len(q.stack) : FrameOK(p, q.op, q.stack[i])'
    BY <1>2, <1>4
  <2>2. (q.stack \in Seq(Frames))'
    BY <1>4 DEF Frames
  <2>3. \A i \in 2..Len(q.stack) : FALSE
    BY <1>4
  <2>. QED BY <1>1, <1>2, <2>1, <2>2, <2>3 DEF ProcOK
<1>. QED BY <1>1, <1>5, OneMoves

\* The innermost call goes on in the same folder.
LEMMA TopGoesOn ==
  ASSUME FolderAssumption, Inductive, Grows, NEW p \in Procs, Depth(p) > 0,
         NEW op, op = proc[p].op, NEW t, FrameOK(p, op, t)', t.folder = Top(p).folder,
         GoOn(p, t)
  PROVE  ProcsOK'
<1>1. PICK old : old = proc[p]
  OBVIOUS
<1>2. ProcOK(p, old) /\ ProcOK(p, old)'
  BY <1>1, ProcStays DEF Inductive, ProcsOK
<1>3. PICK n : n = Len(old.stack)
  OBVIOUS
<1>4. n \in 1..Len(old.stack) /\ n \in Nat /\ old.stack \in Seq(Frames)
  BY <1>1, <1>2, <1>3 DEF ProcOK, Depth
<1>5. PICK stack : stack = [old.stack EXCEPT ![n] = t]
  OBVIOUS
<1>6. t \in Frames
  BY DEF FrameOK, Frames
<1>7. /\ stack \in Seq(Frames) /\ Len(stack) = n /\ stack[n] = t
      /\ \A i \in 1..n : i # n => stack[i] = old.stack[i]
  BY <1>3, <1>4, <1>5, <1>6
<1>8. PICK q : q = [op |-> old.op, todo |-> old.todo, stack |-> stack]
  OBVIOUS
<1>9. q.op = old.op /\ q.todo = old.todo /\ q.stack = stack
  BY <1>8
<1>10. ProcOK(p, q)'
  <2>1. ASSUME NEW i \in 1..Len(q.stack) PROVE FrameOK(p, q.op, q.stack[i])'
    <3>1. CASE i = n
      BY <3>1, <1>1, <1>7, <1>9
    <3>2. CASE i # n
      BY <3>2, <1>2, <1>3, <1>7, <1>9 DEF ProcOK
    <3>. QED BY <3>1, <3>2
  <2>2. ASSUME NEW i \in 2..Len(q.stack)
        PROVE  /\ q.stack[i].folder # None
               /\ parent'[q.stack[i].folder] = q.stack[i-1].folder
    <3>1. \A j \in 1..n : stack[j].folder = old.stack[j].folder
      BY <1>1, <1>3, <1>7 DEF Top, Depth
    <3>2. i \in 1..n /\ i-1 \in 1..n /\ i \in 2..Len(old.stack)
      BY <1>3, <1>4, <1>7, <1>9
    <3>3. /\ old.stack[i].folder # None
          /\ parent'[old.stack[i].folder] = old.stack[i-1].folder
      BY <1>2, <3>2 DEF ProcOK
    <3>. QED BY <1>9, <3>1, <3>2, <3>3
  <2>3. (q.stack \in Seq(Frames))'
    BY <1>7, <1>9 DEF Frames
  <2>. QED BY <1>2, <1>8, <1>9, <2>1, <2>2, <2>3 DEF ProcOK
<1>11. proc' = [proc EXCEPT ![p] = q]
  <2>1. old = [op |-> old.op, todo |-> old.todo, stack |-> old.stack]
    BY <1>2 DEF ProcOK
  <2>2. [old EXCEPT !.stack = stack] = q
    BY <2>1, <1>8
  <2>3. proc' = [proc EXCEPT ![p] = [old EXCEPT !.stack = stack]]
    BY <1>1, <1>3, <1>5 DEF GoOn, Depth
  <2>. QED BY <2>2, <2>3
<1>. QED BY <1>10, <1>11, OneMoves

\* The innermost call returns.
LEMMA TopReturns ==
  ASSUME FolderAssumption, Inductive, Grows, NEW p \in Procs, Depth(p) > 0,
         NEW todo \in SUBSET Folders, \A d \in todo : Known(d)', Return(p, todo)
  PROVE  ProcsOK'
<1>1. PICK old : old = proc[p]
  OBVIOUS
<1>2. ProcOK(p, old) /\ ProcOK(p, old)'
  BY <1>1, ProcStays DEF Inductive, ProcsOK
<1>3. PICK n : n = Len(old.stack)
  OBVIOUS
<1>4. n \in Nat /\ n > 0 /\ old.stack \in Seq(Frames)
  BY <1>1, <1>2, <1>3 DEF ProcOK, Depth
<1>5. CASE proc' = [proc EXCEPT ![p] = Idle]
  <2>1. ProcOK(p, Idle)'
    BY DEF ProcOK, Idle
  <2>. QED BY <1>5, <2>1, OneMoves
<1>6. CASE proc' # [proc EXCEPT ![p] = Idle]
  <2>1. PICK stack : stack = SubSeq(old.stack, 1, n-1)
    OBVIOUS
  <2>2. /\ stack \in Seq(Frames) /\ Len(stack) = n-1
        /\ \A i \in 1..(n-1) : stack[i] = old.stack[i]
    BY <1>3, <1>4, <2>1
  <2>3. PICK q : q = [op |-> old.op, todo |-> todo, stack |-> stack]
    OBVIOUS
  <2>4. q.op = old.op /\ q.todo = todo /\ q.stack = stack
    BY <2>3
  <2>5. ProcOK(p, q)'
    <3>1. ASSUME NEW i \in 1..Len(q.stack) PROVE FrameOK(p, q.op, q.stack[i])'
      BY <1>2, <1>3, <1>4, <2>2, <2>4 DEF ProcOK
    <3>2. ASSUME NEW i \in 2..Len(q.stack)
          PROVE  /\ q.stack[i].folder # None
                 /\ parent'[q.stack[i].folder] = q.stack[i-1].folder
      <4>1. i \in 1..(n-1) /\ i-1 \in 1..(n-1) /\ i \in 2..Len(old.stack)
        BY <1>3, <1>4, <2>2, <2>4
      <4>2. /\ old.stack[i].folder # None
            /\ parent'[old.stack[i].folder] = old.stack[i-1].folder
        BY <1>2, <4>1 DEF ProcOK
      <4>. QED BY <2>2, <2>4, <4>1, <4>2
    <3>3. (q.stack \in Seq(Frames))'
      BY <2>2, <2>4 DEF Frames
    <3>. QED BY <1>2, <2>3, <2>4, <3>1, <3>2, <3>3 DEF ProcOK
  <2>6. proc' = [proc EXCEPT ![p] = q]
    BY <1>1, <1>3, <1>6, <2>1, <2>3 DEF Return, Depth
  <2>. QED BY <2>5, <2>6, OneMoves
<1>. QED BY <1>5, <1>6

\* The innermost call takes a subfolder off its list and calls itself for it.
LEMMA TopDescends ==
  ASSUME FolderAssumption, Inductive, Grows, NEW p \in Procs, NEW c, Descend(p, c)
  PROVE  ProcsOK'
<1>1. PICK old : old = proc[p]
  OBVIOUS
<1>2. ProcOK(p, old) /\ ProcOK(p, old)'
  BY <1>1, ProcStays DEF Inductive, ProcsOK
<1>3. PICK n : n = Len(old.stack)
  OBVIOUS
<1>4. n \in Nat /\ n > 0 /\ old.stack \in Seq(Frames)
  <2>1. Depth(p) > 0
    BY DEF Descend, At
  <2>. QED BY <1>1, <1>2, <1>3, <2>1 DEF ProcOK, Depth
<1>5. PICK t : t = old.stack[n]
  OBVIOUS
<1>6. FrameOK(p, old.op, t) /\ FrameOK(p, old.op, t)' /\ t \in Frames
  BY <1>2, <1>3, <1>4, <1>5 DEF ProcOK
<1>7. c \in t.subs /\ c \in Folders /\ Known(c)' /\ parent'[c] = t.folder /\ t.pc = "subs"
  BY <1>1, <1>3, <1>5, <1>6 DEF Descend, At, Top, Depth, FrameOK, Frames
<1>8. PICK u : u = [t EXCEPT !.subs = @ \ {c}]
  OBVIOUS
<1>9. /\ u \in Frames /\ u.folder = t.folder /\ u.pc = t.pc /\ u.subs \subseteq t.subs
      /\ u.files = t.files /\ u.file = t.file
  BY <1>6, <1>8 DEF Frames
<1>10. FrameOK(p, old.op, u)'
  BY <1>6, <1>9 DEF FrameOK, Frames
<1>11. PICK v : v = Enter(old.op, c)
  OBVIOUS
<1>12. /\ v \in Frames /\ v.folder = c /\ v.files = {} /\ v.subs = {} /\ v.file = None
       /\ v.pc = IF old.op \in {"trash", "restore"} THEN "self"
                 ELSE IF old.op = "clean" THEN "read" ELSE "check"
  BY <1>7, <1>11 DEF Enter, Frame, Frames
<1>13. FrameOK(p, old.op, v)'
  <2>1. c # None
    BY <1>7 DEF FolderAssumption, Items
  <2>2. old.op = "clean" => p = Cleaner
    BY <1>2 DEF ProcOK
  <2>. QED BY <1>7, <1>12, <2>1, <2>2 DEF FrameOK, Frames
<1>14. PICK stack : stack = Append([old.stack EXCEPT ![n] = u], v)
  OBVIOUS
<1>15. /\ stack \in Seq(Frames) /\ Len(stack) = n+1 /\ stack[n] = u /\ stack[n+1] = v
       /\ \A i \in 1..n : i # n => stack[i] = old.stack[i]
  <2>1. PICK s : s = [old.stack EXCEPT ![n] = u]
    OBVIOUS
  <2>2. /\ s \in Seq(Frames) /\ Len(s) = n /\ s[n] = u
        /\ \A i \in 1..n : i # n => s[i] = old.stack[i]
    BY <1>3, <1>4, <1>9, <2>1
  <2>. QED BY <1>4, <1>12, <1>14, <2>1, <2>2
<1>16. PICK q : q = [op |-> old.op, todo |-> old.todo, stack |-> stack]
  OBVIOUS
<1>17. q.op = old.op /\ q.todo = old.todo /\ q.stack = stack
  BY <1>16
<1>18. ProcOK(p, q)'
  <2>1. ASSUME NEW i \in 1..Len(q.stack) PROVE FrameOK(p, q.op, q.stack[i])'
    <3>1. CASE i = n
      BY <3>1, <1>10, <1>15, <1>17
    <3>2. CASE i = n+1
      BY <3>2, <1>13, <1>15, <1>17
    <3>3. CASE i \in 1..n /\ i # n
      BY <3>3, <1>2, <1>3, <1>15, <1>17 DEF ProcOK
    <3>. QED BY <1>4, <1>15, <1>17, <3>1, <3>2, <3>3
  <2>2. ASSUME NEW i \in 2..Len(q.stack)
        PROVE  /\ q.stack[i].folder # None
               /\ parent'[q.stack[i].folder] = q.stack[i-1].folder
    <3>1. \A j \in 1..n : stack[j].folder = old.stack[j].folder
      BY <1>5, <1>9, <1>15
    <3>2. CASE i = n+1
      <4>1. i-1 = n /\ c # None
        BY <3>2, <1>4, <1>7 DEF FolderAssumption, Items
      <4>. QED BY <3>2, <4>1, <1>7, <1>9, <1>12, <1>15, <1>17
    <3>3. CASE i \in 2..n
      <4>1. i \in 1..n /\ i-1 \in 1..n /\ i \in 2..Len(old.stack)
        BY <3>3, <1>3, <1>4
      <4>2. /\ old.stack[i].folder # None
            /\ parent'[old.stack[i].folder] = old.stack[i-1].folder
        BY <1>2, <4>1 DEF ProcOK
      <4>. QED BY <1>17, <3>1, <4>1, <4>2
    <3>. QED BY <1>4, <1>15, <1>17, <3>2, <3>3
  <2>3. (q.stack \in Seq(Frames))'
    BY <1>15, <1>17 DEF Frames
  <2>. QED BY <1>2, <1>16, <1>17, <2>1, <2>2, <2>3 DEF ProcOK
<1>19. proc' = [proc EXCEPT ![p] = q]
  <2>1. old = [op |-> old.op, todo |-> old.todo, stack |-> old.stack]
    BY <1>2 DEF ProcOK
  <2>2. [old EXCEPT !.stack = stack] = q
    BY <2>1, <1>16
  <2>3. Top(p) = t /\ Depth(p) = n
    BY <1>1, <1>3, <1>5 DEF Top, Depth
  <2>4. proc' = [proc EXCEPT ![p] = [old EXCEPT !.stack = stack]]
    BY <1>1, <1>8, <1>11, <1>14, <2>3 DEF Descend
  <2>. QED BY <2>2, <2>4
<1>. QED BY <1>18, <1>19, OneMoves

-----------------------------------------------------------------------------
(* What the steps do to the rows. *)

\* Rows keep their types, stay rows, and keep their parents.
Tame ==
  /\ RowsOK'
  /\ \A x \in Items : Known(x) => Known(x)' /\ parent'[x] = parent[x]

\* The rows stay as they are.
LEMMA TameRows == ASSUME Inductive, UNCHANGED rows PROVE Tame
  BY DEF Inductive, RowsOK, Tame, Known, rows, Items, InTrash

\* One row is moved to the trash or restored.
LEMMA TameSet ==
  ASSUME Inductive, NEW x \in Items, NEW st \in {"live", "trashed"}, Set(x, st),
         UNCHANGED parent
  PROVE  Tame
  BY DEF Inductive, RowsOK, Tame, Known, Set, Exists, Items, InTrash

\* A row is deleted, or the DELETE did nothing.
LEMMA TameErase ==
  ASSUME Inductive, NEW x \in Items,
         status' = status \/ status' = [status EXCEPT ![x] = "gone"], UNCHANGED parent
  PROVE  Tame
  BY DEF Inductive, RowsOK, Tame, Known, Items, InTrash

\* The files of a folder are moved to the trash or restored.
LEMMA TameMove ==
  ASSUME Inductive, NEW p \in Procs, MoveFiles(p)
  PROVE  Tame
<1>1. Target(p) \in {"live", "trashed"}
  BY DEF Target
<1>2. status' = [x \in Items |-> IF x \in FilesIn(p) THEN Target(p) ELSE status[x]]
        /\ UNCHANGED parent
  BY DEF MoveFiles
<1>. QED BY <1>1, <1>2 DEF Inductive, RowsOK, Tame, Known, Items, InTrash

\* A row is created.
LEMMA TameInsert ==
  ASSUME FolderAssumption, Inductive, NEW x \in Items, NEW d \in Folders \cup {None},
         Insert(x, d)
  PROVE  Tame
  BY DEF Inductive, RowsOK, Tame, Known, Insert, Items, InTrash

\* A row passes its retention.
LEMMA TameAge ==
  ASSUME Inductive, NEW x \in Items, Age(x)
  PROVE  Tame
  BY DEF Inductive, RowsOK, Tame, Known, Age, Items, InTrash

\* With the history recorded, a tame step grows the tree.
LEMMA TameGrows ==
  ASSUME FolderAssumption, Inductive, Tame, Record
  PROVE  Grows /\ RowsOK' /\ HistoryOK'
<1>1. binned \subseteq binned' /\ binned' \subseteq Items
        /\ \A x \in Items : status'[x] \in InTrash => x \in binned'
  BY DEF Inductive, HistoryOK, Record
<1>2. ItemsChanged \subseteq Items
  BY DEF ItemsChanged
<1>3. meddled' \in [Procs -> SUBSET Items]
  <2>1. \A p \in Procs : meddled[p] \subseteq Items
    BY DEF Inductive, HistoryOK
  <2>. QED BY <1>2, <2>1 DEF Record
<1>4. missed' \in [Procs -> SUBSET Folders]
  <2>1. \A p \in Procs : missed[p] \subseteq Folders /\ Subs(p) \subseteq Folders
    BY DEF Inductive, HistoryOK, Subs
  <2>. QED BY <2>1 DEF Record
<1>5. HistoryOK'
  BY <1>1, <1>3, <1>4 DEF HistoryOK, InTrash, Items, Procs
<1>. QED BY <1>1, <1>5 DEF Tame, Grows

-----------------------------------------------------------------------------
(* What the steps do to the processes. *)

\* The frame that a process is in is consistent, and so are its folders to do.
LEMMA TopOK ==
  ASSUME FolderAssumption, Inductive, NEW p \in Procs, Depth(p) > 0
  PROVE  /\ FrameOK(p, proc[p].op, Top(p))
         /\ Top(p) \in Frames
         /\ proc[p].todo \subseteq Folders
         /\ \A d \in proc[p].todo : Known(d)
         /\ proc[p].op = "clean" => p = Cleaner
  BY DEF Inductive, ProcsOK, ProcOK, Depth, Top

\* The same call, at its next statement.
LEMMA TopGoesTo ==
  ASSUME FolderAssumption, Inductive, Grows, NEW p \in Procs, Depth(p) > 0,
         NEW pc \in {"files", "list", "read", "drop"}, Goto(p, pc), Top(p).folder # None,
         Moving(p) => pc \in {"files", "list"},
         ~ Moving(p) /\ p # Cleaner => Top(p).folder \in binned
  PROVE  ProcsOK'
<1>1. PICK op : op = proc[p].op
  OBVIOUS
<1>2. PICK u : u = Top(p)
  OBVIOUS
<1>3. FrameOK(p, op, u) /\ FrameOK(p, op, u)' /\ u \in Frames
  BY <1>1, <1>2, TopOK, FrameStays
<1>4. PICK t : t = [u EXCEPT !.pc = pc]
  OBVIOUS
<1>5. /\ t \in Frames /\ t.folder = u.folder /\ t.pc = pc /\ t.files = u.files
      /\ t.subs = u.subs /\ t.file = u.file
  BY <1>3, <1>4 DEF Frames
<1>6. op \notin {"trash", "restore"} /\ p # Cleaner => u.folder \in binned'
  BY <1>1, <1>2 DEF Moving, Grows
<1>7. FrameOK(p, op, t)'
  BY <1>1, <1>2, <1>3, <1>5, <1>6 DEF FrameOK, Moving, Frames
<1>. QED BY <1>1, <1>2, <1>4, <1>5, <1>7, TopGoesOn DEF Goto

\* After it wrote its folder or its files, a move goes on in the same folder.
LEMMA MoveProcs ==
  ASSUME FolderAssumption, Inductive, Grows, NEW p \in Procs, MoveFolder(p) \/ MoveFiles(p)
  PROVE  ProcsOK'
<1>1. Depth(p) > 0 /\ Moving(p) /\ (Goto(p, "files") \/ Goto(p, "list"))
  BY DEF MoveFolder, MoveFiles, At
<1>2. Top(p).folder # None
  BY <1>1, TopOK DEF FrameOK, Moving
<1>. QED BY <1>1, <1>2, TopGoesTo

\* The subfolders listed are in the folder of the frame.
LEMMA ListProcs ==
  ASSUME FolderAssumption, Inductive, Grows, NEW p \in Procs, ListSubs(p)
  PROVE  ProcsOK'
<1>1. PICK op : op = proc[p].op
  OBVIOUS
<1>2. PICK u : u = Top(p)
  OBVIOUS
<1>3. Depth(p) > 0 /\ u.pc = "list"
  BY <1>2 DEF ListSubs, At
<1>4. FrameOK(p, op, u) /\ FrameOK(p, op, u)' /\ u \in Frames
  BY <1>1, <1>2, <1>3, TopOK, FrameStays
<1>5. PICK subs \in SUBSET Subs(p) : GoOn(p, [Top(p) EXCEPT !.pc = "subs", !.subs = subs])
  BY DEF ListSubs
<1>6. subs \subseteq Folders /\ \A c \in subs : Known(c) /\ parent[c] = u.folder
  BY <1>2, <1>5 DEF Subs, Exists, Known, InTrash
<1>7. PICK t : t = [u EXCEPT !.pc = "subs", !.subs = subs]
  OBVIOUS
<1>8. /\ t \in Frames /\ t.folder = u.folder /\ t.pc = "subs" /\ t.files = u.files
      /\ t.subs = subs /\ t.file = u.file
  BY <1>4, <1>6, <1>7 DEF Frames
<1>9. \A c \in subs : Known(c)' /\ parent'[c] = u.folder
  BY <1>6 DEF Grows, Items
<1>10. FrameOK(p, op, t)'
  BY <1>3, <1>4, <1>8, <1>9 DEF FrameOK, Frames
<1>. QED BY <1>1, <1>2, <1>3, <1>5, <1>7, <1>8, <1>10, TopGoesOn DEF ListSubs

\* With no subfolder left a move returns, a deletion comes to its folder.
LEMMA LeaveProcs ==
  ASSUME FolderAssumption, Inductive, Grows, NEW p \in Procs, Leave(p)
  PROVE  ProcsOK'
<1>1. Depth(p) > 0 /\ Top(p).pc = "subs"
  BY DEF Leave, At
<1>2. CASE Moving(p)
  BY <1>1, <1>2, TopReturns DEF Leave
<1>3. CASE ~ Moving(p)
  <2>1. Top(p).folder # None /\ (p # Cleaner => Top(p).folder \in binned)
    BY <1>1, <1>3, TopOK DEF FrameOK, Moving
  <2>. QED BY <1>1, <1>3, <2>1, TopGoesTo DEF Leave
<1>. QED BY <1>2, <1>3

\* The loop over the folders begins the next one.
LEMMA NextFolderProcs ==
  ASSUME FolderAssumption, Inductive, Grows, NEW p \in Procs, NEW d \in Folders,
         NextFolder(p, d)
  PROVE  ProcsOK'
<1>1. PICK old : old = proc[p]
  OBVIOUS
<1>2. ProcOK(p, old) /\ ProcOK(p, old)'
  BY <1>1, ProcStays DEF Inductive, ProcsOK
<1>3. d \in old.todo /\ d # None
  BY <1>1 DEF NextFolder, FolderAssumption, Items
<1>4. PICK v : v = Enter(old.op, d)
  OBVIOUS
<1>5. /\ v \in Frames /\ v.folder = d /\ v.files = {} /\ v.subs = {} /\ v.file = None
      /\ v.pc = IF old.op \in {"trash", "restore"} THEN "self"
                ELSE IF old.op = "clean" THEN "read" ELSE "check"
  BY <1>4 DEF Enter, Frame, Frames
<1>6. FrameOK(p, old.op, v)'
  <2>1. old.op = "clean" => p = Cleaner
    BY <1>2 DEF ProcOK
  <2>2. Known(d)'
    BY <1>2, <1>3 DEF ProcOK
  <2>. QED BY <1>3, <1>5, <2>1, <2>2 DEF FrameOK, Frames
<1>7. PICK q : q = [op |-> old.op, todo |-> old.todo \ {d}, stack |-> <<v>>]
  OBVIOUS
<1>8. q.op = old.op /\ q.todo = old.todo \ {d} /\ q.stack = <<v>>
  BY <1>7
<1>9. ProcOK(p, q)'
  <2>1. q.stack \in Seq(Frames) /\ Len(q.stack) = 1 /\ q.stack[1] = v
    BY <1>5, <1>8
  <2>2. \A i \in 1..Len(q.stack) : FrameOK(p, q.op, q.stack[i])'
    BY <1>6, <1>8, <2>1
  <2>3. (q.stack \in Seq(Frames))'
    BY <2>1 DEF Frames
  <2>4. \A i \in 2..Len(q.stack) : FALSE
    BY <2>1
  <2>. QED BY <1>2, <1>7, <1>8, <2>2, <2>3, <2>4 DEF ProcOK
<1>10. proc' = [proc EXCEPT ![p] = q]
  BY <1>1, <1>4, <1>7 DEF NextFolder
<1>. QED BY <1>9, <1>10, OneMoves

\* A handler goes on with a folder that it saw in the trash, or returns.
LEMMA CheckProcs ==
  ASSUME FolderAssumption, Inductive, Grows, NEW p \in Procs, CheckFolder(p)
  PROVE  ProcsOK'
<1>1. Depth(p) > 0 /\ Top(p).pc = "check"
  BY DEF CheckFolder, At
<1>2. Top(p).folder \in Folders /\ Top(p).folder # None /\ ~ Moving(p)
  BY <1>1, TopOK DEF FrameOK, Moving, Frames
<1>3. CASE Deletable(p, Top(p).folder)
  <2>1. p # Cleaner => Top(p).folder \in binned
    BY <1>2, <1>3 DEF Deletable, Inductive, HistoryOK, Items
  <2>. QED BY <1>1, <1>2, <1>3, <2>1, TopGoesTo DEF CheckFolder
<1>4. CASE ~ Deletable(p, Top(p).folder)
  <2>1. \A d \in proc[p].todo : Known(d)'
    BY <1>1, TopOK DEF Grows, Items
  <2>. QED BY <1>1, <1>4, <2>1, TopOK, TopReturns DEF CheckFolder
<1>. QED BY <1>3, <1>4

\* The files listed are in the folder of the frame.
LEMMA ReadProcs ==
  ASSUME FolderAssumption, Inductive, Grows, NEW p \in Procs, ReadFiles(p)
  PROVE  ProcsOK'
<1>1. PICK op : op = proc[p].op
  OBVIOUS
<1>2. PICK u : u = Top(p)
  OBVIOUS
<1>3. Depth(p) > 0 /\ u.pc = "read"
  BY <1>2 DEF ReadFiles, At
<1>4. FrameOK(p, op, u) /\ FrameOK(p, op, u)' /\ u \in Frames
  BY <1>1, <1>2, <1>3, TopOK, FrameStays
<1>5. PICK files \in SUBSET {f \in Files : Exists(f) /\ parent[f] = u.folder} :
             GoOn(p, [Top(p) EXCEPT !.pc = "files", !.files = files])
  BY <1>2 DEF ReadFiles
<1>6. files \subseteq Files /\ \A f \in files : Known(f)' /\ parent'[f] = u.folder
  BY <1>5 DEF Exists, Known, InTrash, Grows, Items
<1>7. PICK t : t = [u EXCEPT !.pc = "files", !.files = files]
  OBVIOUS
<1>8. /\ t \in Frames /\ t.folder = u.folder /\ t.pc = "files" /\ t.files = files
      /\ t.subs = u.subs /\ t.file = u.file
  BY <1>4, <1>6, <1>7 DEF Frames
<1>9. FrameOK(p, op, t)'
  BY <1>3, <1>4, <1>6, <1>8 DEF FrameOK, Frames
<1>. QED BY <1>1, <1>2, <1>3, <1>5, <1>7, <1>8, <1>9, TopGoesOn DEF ReadFiles

\* A handler goes on to erase a file that it saw in the trash, or leaves it out.
LEMMA PickProcs ==
  ASSUME FolderAssumption, Inductive, Grows, NEW p \in Procs, NEW f \in Files, PickFile(p, f)
  PROVE  ProcsOK'
<1>1. PICK op : op = proc[p].op
  OBVIOUS
<1>2. PICK u : u = Top(p)
  OBVIOUS
<1>3. Depth(p) > 0 /\ u.pc = "files" /\ f \in u.files /\ ~ Moving(p)
  BY <1>2 DEF PickFile, At
<1>4. FrameOK(p, op, u) /\ FrameOK(p, op, u)' /\ u \in Frames
  BY <1>1, <1>2, <1>3, TopOK, FrameStays
<1>5. f # None
  BY DEF FolderAssumption, Items
<1>6. CASE Deletable(p, f)
  <2>1. PICK t : t = [u EXCEPT !.pc = "erase", !.files = @ \ {f}, !.file = f]
    OBVIOUS
  <2>2. /\ t \in Frames /\ t.folder = u.folder /\ t.pc = "erase" /\ t.files = u.files \ {f}
        /\ t.subs = u.subs /\ t.file = f
    BY <1>4, <2>1 DEF Frames
  <2>3. p # Cleaner => f \in binned'
    BY <1>6 DEF Deletable, Inductive, HistoryOK, Items, Grows
  <2>4. FrameOK(p, op, t)'
    BY <1>1, <1>3, <1>4, <1>5, <2>2, <2>3 DEF FrameOK, Frames, Moving
  <2>. QED BY <1>1, <1>2, <1>3, <1>6, <2>1, <2>2, <2>4, TopGoesOn DEF PickFile
<1>7. CASE ~ Deletable(p, f)
  <2>1. PICK t : t = [u EXCEPT !.files = @ \ {f}]
    OBVIOUS
  <2>2. /\ t \in Frames /\ t.folder = u.folder /\ t.pc = u.pc /\ t.files = u.files \ {f}
        /\ t.subs = u.subs /\ t.file = u.file
    BY <1>4, <2>1 DEF Frames
  <2>3. FrameOK(p, op, t)'
    BY <1>4, <2>2 DEF FrameOK, Frames
  <2>. QED BY <1>1, <1>2, <1>3, <1>7, <2>1, <2>2, <2>3, TopGoesOn DEF PickFile
<1>. QED BY <1>6, <1>7

\* After the file the recursion goes on with its list of files.
LEMMA EraseProcs ==
  ASSUME FolderAssumption, Inductive, Grows, NEW p \in Procs, NEW erased \in BOOLEAN,
         EraseFile(p, erased)
  PROVE  ProcsOK'
<1>1. PICK op : op = proc[p].op
  OBVIOUS
<1>2. PICK u : u = Top(p)
  OBVIOUS
<1>3. Depth(p) > 0 /\ u.pc = "erase"
  BY <1>2 DEF EraseFile, At
<1>4. FrameOK(p, op, u) /\ FrameOK(p, op, u)' /\ u \in Frames
  BY <1>1, <1>2, <1>3, TopOK, FrameStays
<1>5. PICK t : t = [u EXCEPT !.pc = "files", !.file = None]
  OBVIOUS
<1>6. /\ t \in Frames /\ t.folder = u.folder /\ t.pc = "files" /\ t.files = u.files
      /\ t.subs = u.subs /\ t.file = None
  BY <1>4, <1>5 DEF Frames
<1>7. FrameOK(p, op, t)'
  BY <1>3, <1>4, <1>6 DEF FrameOK, Frames
<1>. QED BY <1>1, <1>2, <1>3, <1>5, <1>6, <1>7, TopGoesOn DEF EraseFile

\* With no file left it lists the subfolders, or begins with the folders.
LEMMA FilesDoneProcs ==
  ASSUME FolderAssumption, Inductive, Grows, NEW p \in Procs, FilesDone(p)
  PROVE  ProcsOK'
<1>1. Depth(p) > 0 /\ Top(p).pc = "files" /\ ~ Moving(p)
  BY DEF FilesDone, At
<1>2. CASE Top(p).folder # None
  <2>1. p # Cleaner => Top(p).folder \in binned
    BY <1>1, <1>2, TopOK DEF FrameOK, Moving
  <2>. QED BY <1>1, <1>2, <2>1, TopGoesTo DEF FilesDone
<1>3. CASE Top(p).folder = None
  <2>1. PICK found \in SUBSET TopTrash(InTrash) :
               Return(p, IF proc[p].op = "empty" THEN found ELSE proc[p].todo)
    BY <1>3 DEF FilesDone
  <2>4. PICK todo : todo = IF proc[p].op = "empty" THEN found ELSE proc[p].todo
    OBVIOUS
  <2>2. todo \subseteq Folders /\ \A d \in todo : Known(d)
    BY <1>1, <2>1, <2>4, TopOK DEF TopTrash, InTrash, Known
  <2>3. \A d \in todo : Known(d)'
    BY <2>2 DEF Grows, Items
  <2>. QED BY <1>1, <1>3, <2>1, <2>4, <2>2, <2>3, TopReturns
<1>. QED BY <1>2, <1>3

\* The folder is deleted, or was not, and the call returns.
LEMMA DropProcs ==
  ASSUME FolderAssumption, Inductive, Grows, NEW p \in Procs, NEW erased \in BOOLEAN,
         DropFolder(p, erased)
  PROVE  ProcsOK'
<1>1. Depth(p) > 0
  BY DEF DropFolder, At
<1>2. \A d \in proc[p].todo : Known(d)'
  BY <1>1, TopOK DEF Grows, Items
<1>. QED BY <1>1, <1>2, TopOK, TopReturns DEF DropFolder

\* A failed move stops, a failed deletion returns.
LEMMA FailProcs ==
  ASSUME FolderAssumption, Inductive, Grows, NEW p \in Procs, Fail(p)
  PROVE  ProcsOK'
<1>1. Depth(p) > 0
  BY DEF Fail
<1>2. CASE Moving(p)
  <2>1. ProcOK(p, Idle)'
    BY DEF ProcOK, Idle
  <2>. QED BY <1>2, <2>1, OneMoves DEF Fail
<1>3. CASE ~ Moving(p)
  <2>1. \A d \in proc[p].todo : Known(d)'
    BY <1>1, TopOK DEF Grows, Items
  <2>. QED BY <1>1, <1>3, <2>1, TopOK, TopReturns DEF Fail
<1>. QED BY <1>2, <1>3

\* The cleanup lists the folders whose retention is over.
LEMMA ListExpiredProcs ==
  ASSUME FolderAssumption, Inductive, Grows, ListExpired
  PROVE  ProcsOK'
<1>1. Cleaner \in Procs
  BY DEF Procs
<1>2. PICK u : u = Top(Cleaner)
  OBVIOUS
<1>3. Depth(Cleaner) > 0 /\ u.pc = "expired"
  BY <1>2 DEF ListExpired, At
<1>4. PICK op : op = proc[Cleaner].op
  OBVIOUS
<1>5. FrameOK(Cleaner, op, u) /\ FrameOK(Cleaner, op, u)' /\ u \in Frames
  BY <1>1, <1>2, <1>3, <1>4, TopOK, FrameStays
<1>6. PICK t : t = [u EXCEPT !.pc = "files"]
  OBVIOUS
<1>7. /\ t \in Frames /\ t.folder = u.folder /\ t.pc = "files" /\ t.files = u.files
      /\ t.subs = u.subs /\ t.file = u.file
  BY <1>5, <1>6 DEF Frames
<1>8. FrameOK(Cleaner, "clean", t)'
  BY <1>3, <1>5, <1>7 DEF FrameOK, Frames
<1>9. PICK todo \in SUBSET TopTrash({"expired"}) :
             proc' = [proc EXCEPT ![Cleaner] =
               [op |-> "clean", todo |-> todo, stack |-> <<[Top(Cleaner) EXCEPT !.pc = "files"]>>]]
  BY DEF ListExpired
<1>10. todo \subseteq Folders /\ \A d \in todo : Known(d)'
  BY <1>9 DEF TopTrash, Known, Grows, Items
<1>. QED BY <1>1, <1>2, <1>6, <1>8, <1>9, <1>10, OneFrame DEF ListExpired

\* A request begins with a folder.
LEMMA BeginFolder ==
  ASSUME FolderAssumption, Inductive, Grows, NEW h \in Handlers, NEW d \in Folders,
         BeginTrash(h, d) \/ BeginRestore(h, d) \/ BeginPurge(h, d)
  PROVE  ProcsOK'
<1>1. PICK op \in {"trash", "restore", "purge"} :
        Begin(h, op, {}, <<Enter(op, d)>>) /\ Known(d)
  BY DEF BeginTrash, BeginRestore, BeginPurge, Known, InTrash, Exists
<1>2. d # None /\ h \in Procs /\ h # Cleaner
  BY DEF FolderAssumption, Items, Procs
<1>3. PICK v : v = Enter(op, d)
  OBVIOUS
<1>4. /\ v \in Frames /\ v.folder = d /\ v.files = {} /\ v.subs = {} /\ v.file = None
      /\ v.pc = IF op \in {"trash", "restore"} THEN "self" ELSE "check"
  BY <1>1, <1>3 DEF Enter, Frame, Frames
<1>5. Known(d)'
  BY <1>1 DEF Grows, Items
<1>6. FrameOK(h, op, v)'
  BY <1>1, <1>2, <1>4, <1>5 DEF FrameOK, Frames
<1>7. proc' = [proc EXCEPT ![h] = [op |-> op, todo |-> {}, stack |-> <<v>>]]
  BY <1>1, <1>3 DEF Begin
<1>. QED BY <1>1, <1>2, <1>6, <1>7, OneFrame

\* A request or the cleanup begins with a list of files.
LEMMA BeginFiles ==
  ASSUME FolderAssumption, Inductive, Grows, NEW p \in Procs,
         NEW op \in {"purge", "empty", "clean"}, op = "clean" => p = Cleaner,
         NEW pc \in {"files", "expired"}, NEW F \in SUBSET Files, \A f \in F : Known(f),
         Begin(p, op, {}, <<Frame(None, pc, F, {}, None)>>)
  PROVE  ProcsOK'
<1>1. PICK v : v = Frame(None, pc, F, {}, None)
  OBVIOUS
<1>2. /\ v \in Frames /\ v.folder = None /\ v.files = F /\ v.subs = {} /\ v.file = None
      /\ v.pc = pc
  BY <1>1 DEF Frame, Frames
<1>3. \A f \in F : Known(f)'
  BY DEF Grows, Items
<1>4. FrameOK(p, op, v)'
  BY <1>2, <1>3 DEF FrameOK, Frames
<1>5. proc' = [proc EXCEPT ![p] = [op |-> op, todo |-> {}, stack |-> <<v>>]]
  BY <1>1 DEF Begin
<1>. QED BY <1>4, <1>5, OneFrame

\* After a restart nobody does anything.
LEMMA RestartProcs ==
  ASSUME FolderAssumption, Restart
  PROVE  ProcsOK'
<1>1. \A p \in Procs : ProcOK(p, Idle)'
  BY DEF ProcOK, Idle
<1>2. proc' = [p \in Procs |-> Idle]
  BY DEF Restart
<1>. QED BY <1>1, <1>2 DEF ProcsOK, Procs, ProcOK

-----------------------------------------------------------------------------
(* The invariant. *)

\* Initially there is nothing, and nobody does anything.
LEMMA InductiveInit == Init => Inductive
<1>. SUFFICES ASSUME Init PROVE Inductive
  OBVIOUS
<1>1. \A p \in Procs : ProcOK(p, Idle)
  BY DEF ProcOK, Idle
<1>2. ProcsOK
  BY <1>1 DEF Init, ProcsOK, ProcOK
<1>. QED BY <1>2 DEF Init, Inductive, RowsOK, HistoryOK, InTrash

\* The steps of a request: it begins, or moves a folder or its files.
LEMMA RequestSteps ==
  ASSUME FolderAssumption, Inductive, Record, NEW h \in Handlers,
         BeginStep(h) \/ MoveStep(h)
  PROVE  Inductive'
<1>1. h \in Procs
  BY DEF Procs
<1>2. ASSUME NEW d \in Folders, BeginTrash(h, d) \/ BeginRestore(h, d) \/ BeginPurge(h, d)
      PROVE  Inductive'
  <2>1. Tame
    BY <1>2, TameRows DEF BeginTrash, BeginRestore, BeginPurge
  <2>. QED BY <1>2, <2>1, TameGrows, BeginFolder DEF Inductive
<1>3. ASSUME NEW F \in SUBSET Files, NEW op \in {"purge", "empty"}, BeginPurgeFiles(h, op, F)
      PROVE  Inductive'
  <2>1. Tame
    BY <1>3, TameRows DEF BeginPurgeFiles
  <2>2. \A f \in F : Known(f)
    BY <1>3 DEF BeginPurgeFiles, Known, InTrash
  <2>. QED BY <1>1, <1>3, <2>1, <2>2, TameGrows, BeginFiles DEF Inductive, BeginPurgeFiles
<1>4. CASE MoveFolder(h)
  <2>1. Depth(h) > 0 /\ Moving(h)
    BY <1>4 DEF MoveFolder, At
  <2>2. Top(h).folder \in Items
    BY <1>1, <2>1, TopOK DEF FrameOK, Frames, Moving, Items
  <2>3. Target(h) \in {"live", "trashed"}
    BY DEF Target
  <2>4. Tame
    BY <1>4, <2>2, <2>3, TameSet DEF MoveFolder
  <2>. QED BY <1>1, <1>4, <2>4, TameGrows, MoveProcs DEF Inductive
<1>5. CASE MoveFiles(h)
  BY <1>1, <1>5, TameMove, TameGrows, MoveProcs DEF Inductive
<1>. QED BY <1>2, <1>3, <1>4, <1>5 DEF BeginStep, MoveStep

\* The steps of the cleanup that begin its work.
LEMMA CleanSteps ==
  ASSUME FolderAssumption, Inductive, Record, BeginClean \/ ListExpired
  PROVE  Inductive'
<1>1. Tame
  BY TameRows DEF BeginClean, ListExpired
<1>2. CASE BeginClean
  <2>1. PICK F \in SUBSET {f \in Files : status[f] = "expired"} :
               Begin(Cleaner, "clean", {}, <<Frame(None, "expired", F, {}, None)>>)
    BY <1>2 DEF BeginClean
  <2>2. F \in SUBSET Files /\ \A f \in F : Known(f)
    BY <2>1 DEF Known
  <2>3. Begin(Cleaner, "clean", {}, <<Frame(None, "expired", F, {}, None)>>)
    BY <1>2, <2>1 DEF BeginClean
  <2>4. Cleaner \in Procs
    BY DEF Procs
  <2>. QED BY <1>1, <2>2, <2>3, <2>4, TameGrows, BeginFiles DEF Inductive
<1>3. CASE ListExpired
  BY <1>1, <1>3, TameGrows, ListExpiredProcs DEF Inductive
<1>. QED BY <1>2, <1>3

\* The steps of any recursion through the subfolders, and its failures.
LEMMA WalkSteps ==
  ASSUME FolderAssumption, Inductive, Record, NEW p \in Procs, WalkStep(p) \/ Fail(p)
  PROVE  Inductive'
<1>1. Tame
  BY TameRows DEF WalkStep, ListSubs, Descend, Leave, Fail
<1>2. Grows /\ RowsOK' /\ HistoryOK'
  BY <1>1, TameGrows
<1>3. ProcsOK'
  BY <1>2, ListProcs, LeaveProcs, TopDescends, FailProcs DEF WalkStep
<1>. QED BY <1>2, <1>3 DEF Inductive

\* The steps of a deletion.
LEMMA DeleteSteps ==
  ASSUME FolderAssumption, Inductive, Record, NEW p \in Procs, DeleteStep(p)
  PROVE  Inductive'
<1>1. CASE \/ \E d \in Folders : NextFolder(p, d)
           \/ CheckFolder(p) \/ ReadFiles(p) \/ FilesDone(p)
           \/ \E f \in Files : PickFile(p, f)
  <2>1. Tame
    BY <1>1, TameRows DEF NextFolder, CheckFolder, ReadFiles, FilesDone, PickFile
  <2>2. Grows /\ RowsOK' /\ HistoryOK'
    BY <2>1, TameGrows
  <2>3. ProcsOK'
    BY <1>1, <2>2, NextFolderProcs, CheckProcs, ReadProcs, FilesDoneProcs, PickProcs
  <2>. QED BY <2>2, <2>3 DEF Inductive
<1>2. ASSUME NEW erased \in BOOLEAN, EraseFile(p, erased) PROVE Inductive'
  <2>1. Depth(p) > 0 /\ Top(p).pc = "erase"
    BY <1>2 DEF EraseFile, At
  <2>2. Top(p).file \in Items
    BY <2>1, TopOK DEF FrameOK, Frames, Items
  <2>3. Tame
    BY <1>2, <2>2, TameErase DEF EraseFile
  <2>. QED BY <1>2, <2>3, TameGrows, EraseProcs DEF Inductive
<1>3. ASSUME NEW erased \in BOOLEAN, DropFolder(p, erased) PROVE Inductive'
  <2>1. Depth(p) > 0 /\ Top(p).pc = "drop"
    BY <1>3 DEF DropFolder, At
  <2>2. Top(p).folder \in Items
    BY <2>1, TopOK DEF FrameOK, Frames, Items
  <2>3. Tame
    BY <1>3, <2>2, TameErase DEF DropFolder
  <2>. QED BY <1>3, <2>3, TameGrows, DropProcs DEF Inductive
<1>. QED BY <1>1, <1>2, <1>3 DEF DeleteStep

\* The steps of other requests: single rows change and no recursion moves.
LEMMA RowSteps ==
  ASSUME FolderAssumption, Inductive, Record, RowStep
  PROVE  Inductive'
<1>1. UNCHANGED proc
  BY DEF RowStep, CreateFolder, Upload, Insert, TrashFile, RestoreFile, Age
<1>2. Tame
  <2>1. ASSUME NEW x \in Items, NEW d \in Folders \cup {None}, Insert(x, d) PROVE Tame
    BY <2>1, TameInsert
  <2>2. ASSUME NEW f \in Files, TrashFile(f) \/ RestoreFile(f) PROVE Tame
    BY <2>2, TameSet DEF TrashFile, RestoreFile, Items
  <2>3. ASSUME NEW x \in Items, Age(x) PROVE Tame
    BY <2>3, TameAge
  <2>. QED BY <2>1, <2>2, <2>3 DEF RowStep, CreateFolder, Upload
<1>. QED BY <1>1, <1>2, TameGrows, NoneMoves DEF Inductive

\* Every step keeps the invariant.
LEMMA InductiveStep ==
  ASSUME FolderAssumption, Inductive, [Next]_vars
  PROVE  Inductive'
<1>1. CASE UNCHANGED vars
  <2>1. Tame
    BY <1>1, TameRows DEF vars
  <2>2. Grows
    BY <1>1, <2>1 DEF Tame, Grows, vars
  <2>3. HistoryOK'
    BY <1>1 DEF Inductive, HistoryOK, vars, rows, Procs, Items, InTrash
  <2>4. ProcsOK'
    BY <1>1, <2>2, NoneMoves DEF vars
  <2>. QED BY <2>1, <2>3, <2>4 DEF Inductive, Tame
<1>2. CASE Restart /\ Record
  BY <1>2, TameRows, TameGrows, RestartProcs DEF Inductive, Restart
<1>3. CASE Step /\ Record
  BY <1>3, RequestSteps, CleanSteps, WalkSteps, DeleteSteps, RowSteps DEF Step
<1>. QED BY <1>1, <1>2, <1>3 DEF Next

\* The invariant implies that what the processes hold is typed and consistent
\* with the tree.
LEMMA InductivePath ==
  ASSUME FolderAssumption, Inductive
  PROVE  TypeOK /\ StackIsPath
<1>1. ASSUME NEW p \in Procs
      PROVE  /\ proc[p].op \in {"none", "trash", "restore", "purge", "empty", "clean"}
             /\ proc[p].todo \subseteq Folders
             /\ proc[p].stack \in Seq(Frames)
  BY DEF Inductive, ProcsOK, ProcOK
<1>2. TypeOK
  BY <1>1 DEF Inductive, RowsOK, HistoryOK, TypeOK
<1>3. ASSUME NEW p \in Procs, NEW i \in 1..Depth(p)
      PROVE  LET t == proc[p].stack[i]
             IN /\ i > 1 => parent[t.folder] = proc[p].stack[i-1].folder
                /\ \A c \in t.subs : parent[c] = t.folder
                /\ t.folder # None =>
                     \A f \in t.files \cup ({t.file} \ {None}) : parent[f] = t.folder
  <2>1. PICK q : q = proc[p]
    OBVIOUS
  <2>2. ProcOK(p, q) /\ i \in 1..Len(q.stack)
    BY <2>1 DEF Inductive, ProcsOK, Depth
  <2>3. FrameOK(p, q.op, q.stack[i])
    BY <2>2 DEF ProcOK
  <2>4. i > 1 => parent[q.stack[i].folder] = q.stack[i-1].folder
    BY <2>2 DEF ProcOK
  <2>. QED BY <2>1, <2>3, <2>4 DEF FrameOK
<1>4. StackIsPath
  BY <1>3 DEF StackIsPath
<1>. QED BY <1>2, <1>4

-----------------------------------------------------------------------------
(* The theorems. *)

\* The strengthened invariant holds in every reachable state.
LEMMA AlwaysInductive == Spec => []Inductive
<1>1. Init => Inductive
  BY InductiveInit
<1>2. Inductive /\ [Next]_vars => Inductive'
  BY InductiveStep, FolderAssumption
<1>. QED BY <1>1, <1>2, PTL DEF Spec

\* Rows are deleted by the process whose frame names them, and no other moves.
LEMMA Erasers ==
  ASSUME FolderAssumption, Inductive, Next, NEW x \in Items,
         status'[x] = "gone", status[x] # "gone"
  PROVE  \E p \in Procs :
           /\ Depth(p) > 0
           /\ \/ Top(p).pc = "erase" /\ x = Top(p).file
              \/ Top(p).pc = "drop" /\ x = Top(p).folder
           /\ \A r \in Procs \ {p} : proc'[r] = proc[r]
<1>1. status \in [Items -> {"none", "live", "gone"} \cup InTrash]
  BY DEF Inductive, RowsOK
<1>2. DOMAIN proc = Procs /\ Handlers \subseteq Procs
  BY DEF Inductive, ProcsOK, Procs
<1>3. status' # status
  OBVIOUS
<1>4. ~ Restart /\ ~ BeginClean /\ ~ ListExpired
  BY <1>3 DEF Restart, BeginClean, ListExpired, rows
<1>5. ASSUME NEW p \in Procs PROVE ~ BeginStep(p)
  BY <1>3 DEF BeginStep, BeginTrash, BeginRestore, BeginPurge, BeginPurgeFiles, rows
<1>6. ASSUME NEW p \in Procs PROVE ~ MoveStep(p)
  <2>1. Target(p) # "gone"
    BY DEF Target
  <2>2. ~ MoveFolder(p)
    BY <1>1, <2>1 DEF MoveFolder, Set
  <2>3. ~ MoveFiles(p)
    BY <2>1 DEF MoveFiles
  <2>. QED BY <2>2, <2>3 DEF MoveStep
<1>7. ASSUME NEW p \in Procs PROVE ~ WalkStep(p) /\ ~ Fail(p)
  BY <1>3 DEF WalkStep, ListSubs, Descend, Leave, Fail, rows
<1>8. ~ RowStep
  BY <1>1 DEF RowStep, CreateFolder, Upload, Insert, TrashFile, RestoreFile, Set, Age
<1>9. PICK p \in Procs : DeleteStep(p)
  BY <1>2, <1>4, <1>5, <1>6, <1>7, <1>8 DEF Next, Step
<1>10. PICK erased \in BOOLEAN : EraseFile(p, erased) \/ DropFolder(p, erased)
  BY <1>3, <1>9 DEF DeleteStep, NextFolder, CheckFolder, ReadFiles, PickFile, FilesDone, rows
<1>11. CASE EraseFile(p, erased)
  BY <1>1, <1>2, <1>11 DEF EraseFile, At, GoOn
<1>12. CASE DropFolder(p, erased)
  BY <1>1, <1>2, <1>12 DEF DropFolder, At, Return
<1>. QED BY <1>10, <1>11, <1>12

\* An owner's permanent deletion deletes nothing that was never in the trash.
THEOREM DeletionNeedsTrash == Spec => OwnersDeleteTrashOnly
<1>1. Inductive /\ [Next]_vars =>
        [\A h \in Handlers, x \in Items :
           proc'[h] # proc[h] /\ status'[x] = "gone" /\ status[x] # "gone" => x \in binned]_vars
  <2>. SUFFICES ASSUME Inductive, Next, NEW h \in Handlers, NEW x \in Items,
                       proc'[h] # proc[h], status'[x] = "gone", status[x] # "gone"
                PROVE  x \in binned
    OBVIOUS
  <2>1. h \in Procs /\ h # Cleaner
    BY FolderAssumption DEF FolderAssumption, Procs
  <2>2. /\ Depth(h) > 0
        /\ \/ Top(h).pc = "erase" /\ x = Top(h).file
           \/ Top(h).pc = "drop" /\ x = Top(h).folder
    BY <2>1, Erasers, FolderAssumption
  <2>3. FrameOK(h, proc[h].op, Top(h))
    BY <2>1, <2>2, TopOK, FolderAssumption
  <2>. QED BY <2>1, <2>2, <2>3 DEF FrameOK
<1>. QED BY <1>1, AlwaysInductive, PTL DEF Spec, OwnersDeleteTrashOnly

-----------------------------------------------------------------------------
(* What an operation writes lies in its subtree. *)

\* A set of numbers that is not empty has a least element.
LEMMA LeastNumber ==
  ASSUME NEW T \in SUBSET Nat, T # {}
  PROVE  \E m \in T : \A n \in T : m <= n
<1>1. \A m, n \in Nat : m < n => <<m, n>> \in OpToRel(<, Nat)
  BY DEF OpToRel
<1>2. PICK m \in T : \A n \in T : ~ (<<n, m>> \in OpToRel(<, Nat))
  BY NatLessThanWellFounded, WFMin
<1>3. \A n \in T : ~ (n < m)
  BY <1>1, <1>2, Zenon
<1>4. \A n \in T : m <= n
  BY <1>3
<1>. QED BY <1>4

\* The folders on a path lie in every closed set that its first one lies in.
LEMMA PathStaysInside ==
  ASSUME FolderAssumption, NEW p, NEW q, ProcOK(p, q), NEW S, Closed(S, Folders),
         q.stack[1].folder \in S \ {None}
  PROVE  \A i \in 1..Len(q.stack) : q.stack[i].folder \in S
<1>1. PICK n : n = Len(q.stack)
  OBVIOUS
<1>2. n \in Nat /\ \A i \in 1..n : q.stack[i] \in Frames /\ FrameOK(p, q.op, q.stack[i])
  BY <1>1 DEF ProcOK
<1>3. PICK T : T = {i \in 1..n : q.stack[i].folder \notin S}
  OBVIOUS
<1>4. SUFFICES ASSUME T # {} PROVE FALSE
  BY <1>1, <1>3
<1>5. PICK m \in T : \A i \in T : m <= i
  <2>1. T \in SUBSET Nat
    BY <1>2, <1>3
  <2>. QED BY <1>4, <2>1, LeastNumber
<1>6. m \in 1..n /\ m # 1 /\ m-1 \in 1..n /\ m-1 \notin T
  BY <1>2, <1>3, <1>5
<1>7. q.stack[m-1].folder \in S
  BY <1>3, <1>6
<1>8. /\ q.stack[m].folder \in Folders /\ q.stack[m-1].folder \in Folders
      /\ parent[q.stack[m].folder] = q.stack[m-1].folder
  <2>1. m \in 2..n
    BY <1>2, <1>6
  <2>2. /\ q.stack[m].folder # None /\ parent[q.stack[m].folder] = q.stack[m-1].folder
    BY <1>1, <2>1 DEF ProcOK
  <2>3. q.stack[m].folder \in Folders \cup {None} /\ q.stack[m-1].folder \in Folders \cup {None}
    BY <1>2, <1>6 DEF Frames
  <2>4. q.stack[m-1].folder # None
    <3>1. CASE m-1 = 1
      BY <3>1
    <3>2. CASE m-1 # 1
      <4>1. m-1 \in 2..Len(q.stack)
        BY <3>2, <1>1, <1>2, <1>6
      <4>. QED BY <4>1 DEF ProcOK
    <3>. QED BY <3>1, <3>2
  <2>. QED BY <2>2, <2>3, <2>4
<1>9. q.stack[m].folder \in S
  BY <1>7, <1>8 DEF Closed, Items
<1>. QED BY <1>3, <1>5, <1>9

\* A path that begins in a folder ends in one.
LEMMA LastFolder ==
  ASSUME NEW p, NEW q, ProcOK(p, q), Len(q.stack) > 0, q.stack[1].folder # None
  PROVE  Len(q.stack) \in 1..Len(q.stack) /\ q.stack[Len(q.stack)].folder \in Folders
<1>1. PICK n : n = Len(q.stack)
  OBVIOUS
<1>2. n \in Nat /\ n > 0
  BY <1>1 DEF ProcOK
<1>3. n \in 1..n /\ (n # 1 => n \in 2..n)
  BY <1>2
<1>4. q.stack[n] \in Frames /\ q.stack[n].folder # None
  BY <1>1, <1>3 DEF ProcOK
<1>. QED BY <1>1, <1>3, <1>4 DEF Frames

\* The folders on a path, and what is in them, lie in the subtree of its first.
LEMMA PathIsBelow ==
  ASSUME FolderAssumption, Inductive, NEW p \in Procs, Depth(p) > 0,
         proc[p].stack[1].folder # None
  PROVE  /\ Top(p).folder \in Below(proc[p].stack[1].folder, Folders)
         /\ \A x \in Items : parent[x] = Top(p).folder
              => x \in Below(proc[p].stack[1].folder, Folders)
<1>1. PICK q : q = proc[p]
  OBVIOUS
<1>2. ProcOK(p, q) /\ Len(q.stack) > 0 /\ q.stack[1].folder # None
  BY <1>1 DEF Inductive, ProcsOK, Depth
<1>3. PICK d : d = q.stack[1].folder
  OBVIOUS
<1>4. PICK e : e = q.stack[Len(q.stack)].folder
  OBVIOUS
<1>5. Len(q.stack) \in 1..Len(q.stack) /\ e \in Folders
  BY <1>2, <1>4, LastFolder
<1>6. ASSUME NEW S \in SUBSET Items, d \in S, Closed(S, Folders)
      PROVE  e \in S /\ \A x \in Items : parent[x] = e => x \in S
  <2>1. e \in S
    BY <1>2, <1>3, <1>4, <1>5, <1>6, PathStaysInside
  <2>. QED BY <1>5, <1>6, <2>1 DEF Closed
<1>7. e \in Below(d, Folders) /\ \A x \in Items : parent[x] = e => x \in Below(d, Folders)
  BY <1>5, <1>6 DEF Below, Items
<1>8. e = Top(p).folder /\ d = proc[p].stack[1].folder
  BY <1>1, <1>3, <1>4 DEF Top, Depth
<1>. QED BY <1>7, <1>8

\* What a step of p changes is the folder that p is in, or files in it.
LEMMA ChangesAreBelow ==
  ASSUME FolderAssumption, Inductive, Next, NEW p \in Procs, proc'[p] # proc[p],
         Depth(p) > 0, proc[p].stack[1].folder # None, NEW x \in ItemsChanged
  PROVE  x \in Below(proc[p].stack[1].folder, Folders)
<1>1. x \in Items /\ (status'[x] # status[x] \/ parent'[x] # parent[x])
  BY DEF ItemsChanged
<1>2. status \in [Items -> {"none", "live", "gone"} \cup InTrash]
  BY DEF Inductive, RowsOK
<1>3. DOMAIN proc = Procs /\ Handlers \subseteq Procs
  BY DEF Inductive, ProcsOK, Procs
<1>4. FrameOK(p, proc[p].op, Top(p))
  BY TopOK
<1>5. SUFFICES x = Top(p).folder \/ parent[x] = Top(p).folder
  BY <1>1, PathIsBelow
<1>6. ~ Restart /\ ~ BeginClean /\ ~ ListExpired /\ ~ RowStep
  BY <1>1 DEF Restart, BeginClean, ListExpired, rows, RowStep, CreateFolder, Upload, Insert,
              TrashFile, RestoreFile, Age
<1>7. ASSUME NEW r \in Procs PROVE ~ BeginStep(r) /\ ~ WalkStep(r) /\ ~ Fail(r)
  BY <1>1 DEF BeginStep, BeginTrash, BeginRestore, BeginPurge, BeginPurgeFiles, rows,
              WalkStep, ListSubs, Descend, Leave, Fail
<1>8. ASSUME NEW r \in Procs, MoveStep(r)
      PROVE  x = Top(p).folder \/ parent[x] = Top(p).folder
  <2>1. r = p
    BY <1>3, <1>8 DEF MoveStep, MoveFolder, MoveFiles, Goto, GoOn
  <2>2. CASE MoveFolder(p)
    BY <1>1, <1>2, <2>2 DEF MoveFolder, Set
  <2>3. CASE MoveFiles(p)
    BY <1>1, <2>3 DEF MoveFiles, FilesIn
  <2>. QED BY <1>8, <2>1, <2>2, <2>3 DEF MoveStep
<1>9. ASSUME NEW r \in Procs, NEW erased \in BOOLEAN,
             EraseFile(r, erased) \/ DropFolder(r, erased)
      PROVE  x = Top(p).folder \/ parent[x] = Top(p).folder
  <2>1. r = p
    BY <1>3, <1>9 DEF EraseFile, DropFolder, GoOn, Return
  <2>2. CASE EraseFile(p, erased)
    <3>1. x = Top(p).file /\ Top(p).pc = "erase"
      BY <1>1, <1>2, <2>2 DEF EraseFile, At
    <3>2. Top(p).file # None /\ (Top(p).folder # None => parent[x] = Top(p).folder)
      BY <1>4, <3>1 DEF FrameOK
    <3>3. Top(p).folder # None
      <4>1. PICK q : q = proc[p]
        OBVIOUS
      <4>2. ProcOK(p, q) /\ Len(q.stack) > 0 /\ q.stack[1].folder # None
        BY <4>1 DEF Inductive, ProcsOK, Depth
      <4>3. q.stack[Len(q.stack)].folder # None
        BY <4>2, LastFolder, FolderAssumption DEF Items
      <4>. QED BY <4>1, <4>3 DEF Top, Depth
    <3>. QED BY <3>2, <3>3
  <2>3. CASE DropFolder(p, erased)
    BY <1>1, <1>2, <2>3 DEF DropFolder
  <2>. QED BY <1>9, <2>1, <2>2, <2>3
<1>10. ASSUME NEW r \in Procs, DeleteStep(r)
       PROVE  \E erased \in BOOLEAN : EraseFile(r, erased) \/ DropFolder(r, erased)
  BY <1>1, <1>10 DEF DeleteStep, NextFolder, CheckFolder, ReadFiles, PickFile, FilesDone, rows
<1>. QED BY <1>3, <1>6, <1>7, <1>8, <1>9, <1>10 DEF Next, Step

\* However its recursion interleaves with changes to the tree, an operation on
\* a folder writes rows of that folder's subtree only (moveFolderToTrash,
\* restoreFolderFromTrash, permanentDeleteFolder).
THEOREM StaysInsideSubtree == Spec => StaysInside
<1>1. Inductive /\ [Next]_vars =>
        [\A p \in Procs :
           proc'[p] # proc[p] /\ Depth(p) > 0 /\ proc[p].stack[1].folder # None
             => ItemsChanged \subseteq Below(proc[p].stack[1].folder, Folders)]_vars
  BY ChangesAreBelow, FolderAssumption
<1>. QED BY <1>1, AlwaysInductive, PTL DEF Spec, StaysInside

-----------------------------------------------------------------------------
(* Parents are rows that were there. *)

\* No row is created, moved to another parent or back from its deletion.
Still ==
  /\ UNCHANGED parent
  /\ \A x \in Items : /\ status'[x] = "none" <=> status[x] = "none"
                      /\ status[x] = "gone" => status'[x] = "gone"

\* A row is created, or all of them stay where they are.
LEMMA InsertOrStill ==
  ASSUME FolderAssumption, Inductive, Next
  PROVE  Still \/ \E x \in Items, d \in Folders \cup {None} : Insert(x, d)
<1>1. status \in [Items -> {"none", "live", "gone"} \cup InTrash]
  BY DEF Inductive, RowsOK
<1>2. Handlers \subseteq Procs
  BY DEF Procs
<1>3. ASSUME UNCHANGED rows PROVE Still
  BY <1>3 DEF Still, rows
<1>4. CASE Restart \/ BeginClean \/ ListExpired
  BY <1>3, <1>4 DEF Restart, BeginClean, ListExpired
<1>5. ASSUME NEW p \in Procs, BeginStep(p) \/ WalkStep(p) \/ Fail(p) PROVE Still
  BY <1>3, <1>5 DEF BeginStep, BeginTrash, BeginRestore, BeginPurge, BeginPurgeFiles,
                    WalkStep, ListSubs, Descend, Leave, Fail
<1>6. ASSUME NEW x \in Items, NEW st \in {"live", "trashed"}, Set(x, st), UNCHANGED parent
      PROVE  Still
  BY <1>1, <1>6 DEF Set, Exists, Still, InTrash
<1>7. ASSUME NEW p \in Procs, MoveStep(p) PROVE Still
  <2>1. Target(p) \in {"live", "trashed"}
    BY DEF Target
  <2>2. CASE MoveFolder(p)
    <3>1. Top(p).folder \in Items
      <4>1. Depth(p) > 0 /\ Moving(p)
        BY <2>2 DEF MoveFolder, At
      <4>. QED BY <4>1, TopOK DEF FrameOK, Frames, Moving, Items
    <3>. QED BY <1>6, <2>1, <2>2, <3>1 DEF MoveFolder
  <2>3. CASE MoveFiles(p)
    BY <1>1, <2>1, <2>3 DEF MoveFiles, FilesIn, Exists, Still, InTrash
  <2>. QED BY <1>7, <2>2, <2>3 DEF MoveStep
<1>8. ASSUME NEW p \in Procs, DeleteStep(p) PROVE Still
  <2>1. ASSUME NEW x, status' = status \/ (Exists(x) /\ status' = [status EXCEPT ![x] = "gone"]),
               UNCHANGED parent
        PROVE  Still
    BY <1>1, <2>1 DEF Exists, Still, InTrash
  <2>2. ASSUME NEW erased \in BOOLEAN, EraseFile(p, erased) \/ DropFolder(p, erased)
        PROVE  Still
    BY <2>1, <2>2 DEF EraseFile, DropFolder
  <2>3. CASE UNCHANGED rows
    BY <1>3, <2>3
  <2>. QED BY <1>8, <2>2, <2>3
           DEF DeleteStep, NextFolder, CheckFolder, ReadFiles, PickFile, FilesDone
<1>9. ASSUME RowStep
      PROVE  Still \/ \E x \in Items, d \in Folders \cup {None} : Insert(x, d)
  <2>1. ASSUME NEW f \in Files, TrashFile(f) \/ RestoreFile(f) PROVE Still
    BY <1>6, <2>1 DEF TrashFile, RestoreFile, Items
  <2>2. ASSUME NEW x \in Items, Age(x) PROVE Still
    BY <1>1, <2>2 DEF Age, Still, InTrash
  <2>. QED BY <1>9, <2>1, <2>2 DEF RowStep, CreateFolder, Upload
<1>. QED BY <1>2, <1>4, <1>5, <1>7, <1>8, <1>9 DEF Next, Step

LEMMA ParentsInit ==
  ASSUME Init
  PROVE  ParentsKnown
BY DEF Init, ParentsKnown

\* A new row's parent was there, and a row that was there keeps its own.
LEMMA ParentsStep ==
  ASSUME FolderAssumption, Inductive, ParentsKnown, [Next]_vars
  PROVE  ParentsKnown'
<1>1. RowsOK
  BY DEF Inductive
<1>2. CASE UNCHANGED vars
  BY <1>2 DEF vars, rows, ParentsKnown, Items
<1>3. CASE Still
  <2>1. ASSUME NEW x \in Items
        PROVE  /\ status'[x] = "none" => parent'[x] = None
               /\ parent'[x] # None => status'[parent'[x]] # "none"
    <3>1. parent'[x] = parent[x] /\ parent[x] \in Folders \cup {None}
      BY <1>1, <1>3 DEF Still, RowsOK
    <3>. QED BY <1>3, <3>1 DEF Still, ParentsKnown, Items
  <2>. QED BY <2>1 DEF ParentsKnown, Items
<1>4. ASSUME NEW x \in Items, NEW d \in Folders \cup {None}, Insert(x, d)
      PROVE  ParentsKnown'
  <2>1. ASSUME NEW y \in Items
        PROVE  /\ status'[y] = "none" => parent'[y] = None
               /\ parent'[y] # None => status'[parent'[y]] # "none"
    <3>1. status'[x] = "live" /\ parent'[x] = d
          /\ \A z \in Items \ {x} : status'[z] = status[z] /\ parent'[z] = parent[z]
      BY <1>1, <1>4 DEF Insert, RowsOK
    <3>2. parent'[y] # None => parent'[y] \in Items /\ status[parent'[y]] # "none"
      <4>1. CASE y = x
        BY <1>4, <3>1, <4>1 DEF Insert, Items
      <4>2. CASE y # x
        BY <1>1, <3>1, <4>2 DEF ParentsKnown, RowsOK, Items
      <4>. QED BY <4>1, <4>2
    <3>3. \A z \in Items : status[z] # "none" => status'[z] # "none"
      BY <3>1
    <3>. QED BY <3>1, <3>2, <3>3 DEF ParentsKnown
  <2>. QED BY <2>1 DEF ParentsKnown, Items
<1>. QED BY <1>2, <1>3, <1>4, InsertOrStill

-----------------------------------------------------------------------------
(* A restore leaves nothing behind in the trash. *)

\* What a step must leave settled for restore h, W being its folders after it.
SettledKept(h, W) ==
  /\ missed[h] \subseteq missed'[h]
  /\ \A x \in Items :
       /\ Settled(h, x) => Settled(h, x)'
       /\ status[x] = "gone" => status'[x] = "gone"
       /\ \/ parent'[x] = parent[x]
          \/ (x \in Files => Settled(h, x)') /\ (x \in Folders => x \in W)

\* With that, the files and subfolders of a folder stay accounted for.
LEMMA InsideKept ==
  ASSUME NEW h, NEW W, SettledKept(h, W), NEW d
  PROVE  /\ FilesSettled(h, d) => FilesSettled(h, d)'
         /\ \A C : SubsIn(h, d, C) => SubsIn(h, d, C \cup W)'
BY DEF SettledKept, FilesSettled, SubsIn, Items

LEMMA FrameKept ==
  ASSUME FolderAssumption, NEW h, NEW V \in SUBSET Folders, NEW W \in SUBSET Folders,
         V \subseteq W, SettledKept(h, W), NEW t, FrameRestored(h, V, t)
  PROVE  FrameRestored(h, W, t)'
<1>1. t.folder \in W /\ t.folder \in Items
  BY DEF FrameRestored, Items
<1>2. t.pc # "self" => Settled(h, t.folder)'
  BY <1>1 DEF FrameRestored, SettledKept
<1>3. t.pc \in {"list", "subs"} => FilesSettled(h, t.folder)'
  BY InsideKept DEF FrameRestored
<1>4. t.pc = "subs" => SubsIn(h, t.folder, W \cup t.subs)'
  <2>1. SubsIn(h, t.folder, V \cup t.subs) => SubsIn(h, t.folder, (V \cup t.subs) \cup W)'
    BY InsideKept
  <2>2. (V \cup t.subs) \cup W = W \cup t.subs
    OBVIOUS
  <2>. QED BY <2>1, <2>2 DEF FrameRestored
<1>. QED BY <1>1, <1>2, <1>3, <1>4 DEF FrameRestored

LEMMA FolderKept ==
  ASSUME FolderAssumption, NEW h, NEW V \in SUBSET Folders, NEW W \in SUBSET Folders,
         V \subseteq W, SettledKept(h, W), NEW d \in Folders, FolderRestored(h, V, d)
  PROVE  FolderRestored(h, W, d)'
<1>1. V \cup W = W
  OBVIOUS
<1>2. SubsIn(h, d, V) => SubsIn(h, d, V \cup W)'
  BY InsideKept
<1>3. SubsIn(h, d, V) => SubsIn(h, d, W)'
  BY <1>1, <1>2
<1>. QED BY <1>3, InsideKept DEF FolderRestored, SettledKept, Items

\* What a step must show for restore h: about each frame that it pushes or
\* changes, and each folder that it enters, creates or returns from.
LEMMA RestoredKept ==
  ASSUME FolderAssumption, NEW h, NEW V \in SUBSET Folders, NEW W \in SUBSET Folders,
         V \subseteq W, Restored(h, V), SettledKept(h, W),
         \A t \in FramesOf(h)' : t \in FramesOf(h) \/ FrameRestored(h, W, t)',
         \A d \in W : \/ \E t \in FramesOf(h)' : t.folder = d
                      \/ FolderRestored(h, W, d)'
                      \/ d \in V /\ \A t \in FramesOf(h) : t.folder # d
  PROVE  Restored(h, W)'
<1>1. \A t \in FramesOf(h)' : FrameRestored(h, W, t)'
  BY FrameKept DEF Restored
<1>2. ASSUME NEW d \in V, \A t \in FramesOf(h) : t.folder # d
      PROVE  FolderRestored(h, W, d)'
  <2>1. FolderRestored(h, V, d)
    BY <1>2 DEF Restored
  <2>. QED BY <2>1, FolderKept
<1>3. \A d \in W : d \in {t.folder : t \in FramesOf(h)'} \/ FolderRestored(h, W, d)'
  BY <1>2
<1>. QED BY <1>1, <1>3 DEF Restored

\* While others move, the folders that they create join those of the restore.
LEMMA RestoreWaits ==
  ASSUME FolderAssumption, Inductive, ParentsKnown, ParentsKnown', Next,
         NEW h \in Handlers, proc'[h] = proc[h], proc[h].op = "restore",
         NEW V \in SUBSET Folders, Restored(h, V)
  PROVE  \E W \in SUBSET Folders : Restored(h, W)'
<1>1. PICK W : W = V \cup {c \in Folders : status[c] = "none" /\ status'[c] # "none"}
  OBVIOUS
<1>2. W \in SUBSET Folders /\ V \subseteq W /\ h \in Procs
  BY <1>1 DEF Procs
<1>3. RowsOK /\ RowsOK' /\ Grows
  <2>1. Record
    BY DEF Next
  <2>2. \A x \in Items : Known(x) => Known(x)' /\ parent'[x] = parent[x]
    <3>1. CASE Still
      BY <3>1 DEF Still, Known
    <3>2. ASSUME NEW x \in Items, NEW d \in Folders \cup {None}, Insert(x, d)
          PROVE  \A y \in Items : Known(y) => Known(y)' /\ parent'[y] = parent[y]
      BY <3>2, TameInsert DEF Tame
    <3>. QED BY <3>1, <3>2, InsertOrStill
  <2>3. binned \subseteq binned'
    BY <2>1 DEF Record
  <2>4. RowsOK'
    BY InductiveStep DEF Inductive
  <2>. QED BY <2>2, <2>3, <2>4 DEF Grows, Inductive
<1>4. meddled'[h] = meddled[h] \cup ItemsChanged
  BY <1>2 DEF Next, Record
<1>13. missed'[h] = missed[h]
  BY <1>2 DEF Next, Record
<1>5. \A x \in Items : parent'[x] # parent[x] \/ status'[x] # status[x] => Settled(h, x)'
  BY <1>4 DEF ItemsChanged, Settled
<1>6. \A x \in Items : Settled(h, x) => Settled(h, x)'
  BY <1>4, <1>5, <1>13 DEF Settled
<1>7. \A x \in Items : status[x] = "gone" => status'[x] = "gone"
  BY <1>3, InsertOrStill DEF Still, Insert, RowsOK
<1>8. \A x \in Items : parent'[x] # parent[x] => status[x] = "none" /\ status'[x] # "none"
  <2>1. ASSUME NEW x \in Items, parent'[x] # parent[x]
        PROVE  status[x] = "none" /\ status'[x] # "none"
    <3>1. status[x] = "none"
      BY <1>3, <2>1 DEF Grows, Known
    <3>2. parent'[x] # None
      BY <2>1, <3>1 DEF ParentsKnown
    <3>. QED BY <3>1, <3>2 DEF ParentsKnown, Items
  <2>. QED BY <2>1
<1>9. SettledKept(h, W)
  <2>1. ASSUME NEW x \in Items, x \in Folders, parent'[x] # parent[x] PROVE x \in W
    BY <1>1, <1>8, <2>1
  <2>2. ASSUME NEW x \in Items
        PROVE  /\ Settled(h, x) => Settled(h, x)'
               /\ status[x] = "gone" => status'[x] = "gone"
               /\ \/ parent'[x] = parent[x]
                  \/ (x \in Files => Settled(h, x)') /\ (x \in Folders => x \in W)
    BY <1>5, <1>6, <1>7, <2>1
  <2>. QED BY <1>13, <2>2 DEF SettledKept
<1>10. FramesOf(h)' = FramesOf(h)
  BY DEF FramesOf, Depth
<1>11. ASSUME NEW c \in W, c \notin V
       PROVE  FolderRestored(h, W, c)'
  <2>1. c \in Folders /\ status[c] = "none" /\ status'[c] # "none"
    BY <1>1, <1>11
  <2>2. Settled(h, c)'
    BY <1>5, <2>1 DEF Items
  <2>3. \A x \in Items : parent'[x] = c => parent'[x] # parent[x]
    <3>1. c # None
      BY <2>1 DEF FolderAssumption, Items
    <3>. QED BY <2>1, <3>1 DEF ParentsKnown
  <2>4. FilesSettled(h, c)'
    BY <1>5, <2>3 DEF FilesSettled, Items
  <2>5. SubsIn(h, c, W)'
    BY <1>1, <1>8, <2>3 DEF SubsIn, Items
  <2>. QED BY <2>2, <2>4, <2>5 DEF FolderRestored
<1>12. Restored(h, W)'
  BY <1>2, <1>9, <1>10, <1>11, RestoredKept
<1>. QED BY <1>2, <1>12

\* A restore that began, or goes on, in one frame.
LEMMA RestoreEnters ==
  ASSUME FolderAssumption, NEW h \in Handlers, NEW d \in Folders, NEW t,
         t.folder = d, t.pc = "self", proc'[h].stack = <<t>>
  PROVE  \E W \in SUBSET Folders : Restored(h, W)'
<1>1. FramesOf(h)' = {t}
  <2>1. \A i \in 1..1 : i = 1
    OBVIOUS
  <2>2. Len(<<t>>) = 1 /\ <<t>>[1] = t
    OBVIOUS
  <2>. QED BY <2>1, <2>2 DEF FramesOf, Depth
<1>2. PICK W : W = {d}
  OBVIOUS
<1>3. W \in SUBSET Folders
  BY <1>2
<1>4. FrameRestored(h, W, t)'
  BY <1>2 DEF FrameRestored
<1>5. Restored(h, W)'
  BY <1>1, <1>2, <1>4 DEF Restored
<1>. QED BY <1>3, <1>5

\* The frames of a process when its innermost call goes on in the same folder,
LEMMA FramesGoOn ==
  ASSUME Inductive, NEW p \in Procs, Depth(p) > 0, NEW t, t \in Frames,
         t.folder = Top(p).folder, GoOn(p, t)
  PROVE  /\ \A u \in FramesOf(p)' : u = t \/ u \in FramesOf(p)
         /\ \A u \in FramesOf(p) : \E v \in FramesOf(p)' : v.folder = u.folder
         /\ Top(p)' = t
<1>1. PICK s : s = proc[p].stack
  OBVIOUS
<1>2. s \in Seq(Frames) /\ Len(s) > 0 /\ Len(s) \in Nat
  BY <1>1 DEF Inductive, ProcsOK, ProcOK, Depth
<1>3. PICK r : r = [s EXCEPT ![Len(s)] = t]
  OBVIOUS
<1>4. /\ Len(r) = Len(s) /\ r[Len(s)] = t
      /\ \A i \in 1..Len(s) : i # Len(s) => r[i] = s[i]
  BY <1>2, <1>3
<1>5. proc'[p].stack = r
  <2>1. DOMAIN proc = Procs
    BY DEF Inductive, ProcsOK
  <2>2. proc[p] = [op |-> proc[p].op, todo |-> proc[p].todo, stack |-> s]
    BY <1>1 DEF Inductive, ProcsOK, ProcOK
  <2>3. proc'[p] = [proc[p] EXCEPT !.stack = r]
    BY <1>1, <1>3, <2>1 DEF GoOn, Depth
  <2>. QED BY <2>2, <2>3
<1>6. FramesOf(p)' = {r[i] : i \in 1..Len(s)} /\ FramesOf(p) = {s[i] : i \in 1..Len(s)}
  BY <1>1, <1>4, <1>5 DEF FramesOf, Depth
<1>7. \A i \in 1..Len(s) : r[i].folder = s[i].folder
  BY <1>1, <1>4 DEF Top, Depth
<1>8. Top(p)' = t
  BY <1>4, <1>5 DEF Top, Depth
<1>. QED BY <1>4, <1>6, <1>7, <1>8

\* when it returns to its caller,
LEMMA FramesReturn ==
  ASSUME Inductive, NEW p \in Procs, Depth(p) > 0, NEW todo, Return(p, todo),
         proc'[p] # Idle
  PROVE  /\ \A u \in FramesOf(p)' : u \in FramesOf(p)
         /\ \A u \in FramesOf(p) : u = Top(p) \/ u \in FramesOf(p)'
<1>1. PICK s : s = proc[p].stack
  OBVIOUS
<1>2. s \in Seq(Frames) /\ Len(s) > 0 /\ Len(s) \in Nat
  BY <1>1 DEF Inductive, ProcsOK, ProcOK, Depth
<1>3. PICK r : r = SubSeq(s, 1, Len(s)-1)
  OBVIOUS
<1>4. Len(r) = Len(s)-1 /\ \A i \in 1..(Len(s)-1) : r[i] = s[i]
  <2>1. PICK n : n = Len(s)
    OBVIOUS
  <2>2. n \in Nat /\ n > 0 /\ s \in Seq(Frames)
    BY <1>2, <2>1
  <2>. QED BY <1>3, <2>1, <2>2
<1>5. proc'[p].stack = r
  <2>1. DOMAIN proc = Procs
    BY DEF Inductive, ProcsOK
  <2>2. proc'[p] = [op |-> proc[p].op, todo |-> todo, stack |-> r]
    BY <1>1, <1>3, <2>1 DEF Return, Depth
  <2>. QED BY <2>2
<1>6. FramesOf(p)' = {r[i] : i \in 1..(Len(s)-1)} /\ FramesOf(p) = {s[i] : i \in 1..Len(s)}
  BY <1>1, <1>4, <1>5 DEF FramesOf, Depth
<1>7. Top(p) = s[Len(s)] /\ \A i \in 1..Len(s) : i = Len(s) \/ i \in 1..(Len(s)-1)
  BY <1>1, <1>2 DEF Top, Depth
<1>8. \A i \in 1..(Len(s)-1) : i \in 1..Len(s)
  BY <1>2
<1>. QED BY <1>4, <1>6, <1>7, <1>8

\* and when it calls itself for a subfolder.
LEMMA FramesDescend ==
  ASSUME Inductive, NEW p \in Procs, NEW c, Descend(p, c)
  PROVE  LET u == [Top(p) EXCEPT !.subs = @ \ {c}]
             v == Enter(proc[p].op, c)
         IN /\ \A w \in FramesOf(p)' : w = u \/ w = v \/ w \in FramesOf(p)
            /\ v \in FramesOf(p)'
            /\ \A w \in FramesOf(p) : \E x \in FramesOf(p)' : x.folder = w.folder
<1>1. PICK s : s = proc[p].stack
  OBVIOUS
<1>2. s \in Seq(Frames) /\ Len(s) > 0 /\ Len(s) \in Nat
  BY <1>1 DEF Inductive, ProcsOK, ProcOK, Depth, Descend, At
<1>3. PICK n : n = Len(s)
  OBVIOUS
<1>4. PICK u : u = [Top(p) EXCEPT !.subs = @ \ {c}]
  OBVIOUS
<1>5. PICK v : v = Enter(proc[p].op, c)
  OBVIOUS
<1>6. s[n] = Top(p) /\ s[n] \in Frames /\ n \in 1..n /\ n \in Nat
  BY <1>1, <1>2, <1>3 DEF Top, Depth
<1>7. u.folder = s[n].folder /\ u \in Frames
  BY <1>4, <1>6 DEF Frames
<1>8. PICK r : r = [s EXCEPT ![n] = u]
  OBVIOUS
<1>9. /\ r \in Seq(Frames) /\ Len(r) = n /\ r[n] = u /\ \A i \in 1..n : i # n => r[i] = s[i]
  BY <1>2, <1>3, <1>7, <1>8
<1>10. /\ Len(Append(r, v)) = n+1 /\ Append(r, v)[n+1] = v
       /\ \A i \in 1..n : Append(r, v)[i] = r[i]
  BY <1>9
<1>11. PICK a : a = Append(r, v)
  OBVIOUS
<1>12. proc'[p].stack = a
  <2>1. DOMAIN proc = Procs
    BY DEF Inductive, ProcsOK
  <2>2. proc[p] = [op |-> proc[p].op, todo |-> proc[p].todo, stack |-> s]
    BY <1>1 DEF Inductive, ProcsOK, ProcOK
  <2>3. proc'[p] = [proc[p] EXCEPT !.stack = a]
    BY <1>1, <1>3, <1>4, <1>5, <1>8, <1>11, <2>1 DEF Descend, Depth
  <2>. QED BY <2>2, <2>3
<1>13. FramesOf(p)' = {a[i] : i \in 1..(n+1)} /\ FramesOf(p) = {s[i] : i \in 1..n}
  BY <1>1, <1>3, <1>10, <1>11, <1>12 DEF FramesOf, Depth
<1>14. /\ \A i \in 1..(n+1) : i = n+1 \/ i \in 1..n
       /\ \A i \in 1..n : i \in 1..(n+1)
       /\ n+1 \in 1..(n+1)
  BY <1>6
<1>15. \A i \in 1..n : a[i].folder = s[i].folder /\ (a[i] = u \/ a[i] = s[i])
  BY <1>7, <1>9, <1>10, <1>11
<1>16. a[n+1] = v
  BY <1>10, <1>11
<1>17. /\ \A w \in FramesOf(p)' : w = u \/ w = v \/ w \in FramesOf(p)
       /\ v \in FramesOf(p)'
       /\ \A w \in FramesOf(p) : \E x \in FramesOf(p)' : x.folder = w.folder
  BY <1>13, <1>14, <1>15, <1>16
<1>. QED BY <1>4, <1>5, <1>17

\* How a process can come to be restoring, or go on with it.
LEMMA RestoreMoves ==
  ASSUME FolderAssumption, Inductive, Next, NEW h \in Handlers, proc'[h].op = "restore",
         proc'[h] # proc[h]
  PROVE  \/ \E d \in Folders : BeginRestore(h, d) \/ NextFolder(h, d)
         \/ /\ proc[h].op = "restore"
            /\ MoveFolder(h) \/ MoveFiles(h) \/ ListSubs(h) \/ Leave(h)
               \/ \E c \in Folders : Descend(h, c)
<1>1. DOMAIN proc = Procs /\ h \in Procs /\ h # Cleaner /\ Handlers \subseteq Procs
        /\ Cleaner \in Procs
  BY FolderAssumption DEF Inductive, ProcsOK, Procs
<1>2. PICK op : op = proc[h].op
  OBVIOUS
<1>3. proc[h] = [op |-> op, todo |-> proc[h].todo, stack |-> proc[h].stack]
  BY <1>1, <1>2 DEF Inductive, ProcsOK, ProcOK
<1>4. ASSUME NEW t, GoOn(h, t) PROVE op = "restore"
  <2>1. proc'[h] = [proc[h] EXCEPT !.stack[Depth(h)] = t]
    BY <1>1, <1>4 DEF GoOn
  <2>. QED BY <1>3, <2>1
<1>5. ASSUME NEW todo, Return(h, todo) PROVE op = "restore"
  <2>1. \/ proc'[h] = Idle
        \/ proc'[h] = [op |-> op, todo |-> todo, stack |-> SubSeq(proc[h].stack, 1, Depth(h)-1)]
    BY <1>1, <1>2, <1>5 DEF Return
  <2>. QED BY <2>1 DEF Idle
<1>6. op = "restore" /\ Depth(h) > 0 => Moving(h) /\ Top(h).pc \in {"self", "files", "list", "subs"}
  BY <1>1, <1>2, TopOK DEF FrameOK, Moving
<1>7. ~ Restart
  BY <1>1 DEF Restart, Idle
<1>8. ~ BeginClean /\ ~ ListExpired /\ ~ RowStep
  BY <1>1 DEF BeginClean, ListExpired, Begin, RowStep, CreateFolder, Upload, Insert,
              TrashFile, RestoreFile, Age
<1>9. ASSUME NEW r \in Procs,
             BeginStep(r) \/ MoveStep(r) \/ WalkStep(r) \/ DeleteStep(r) \/ Fail(r)
      PROVE  r = h
  <2>1. r # h => proc'[h] = proc[h]
    BY <1>1, <1>9 DEF BeginStep, BeginTrash, BeginRestore, BeginPurge, BeginPurgeFiles, Begin,
         MoveStep, MoveFolder, MoveFiles, Goto, GoOn, WalkStep, ListSubs, Descend, Leave, Return,
         DeleteStep, NextFolder, CheckFolder, ReadFiles, PickFile, FilesDone, EraseFile,
         DropFolder, Fail
  <2>. QED BY <2>1
<1>10. ASSUME BeginStep(h) PROVE \E d \in Folders : BeginRestore(h, d)
  <2>1. ASSUME NEW o, NEW todo, NEW stack, Begin(h, o, todo, stack) PROVE o = "restore"
    BY <1>1, <2>1 DEF Begin
  <2>. QED BY <1>10, <2>1 DEF BeginStep, BeginTrash, BeginPurge, BeginPurgeFiles
<1>11. ASSUME MoveStep(h) PROVE op = "restore" /\ (MoveFolder(h) \/ MoveFiles(h))
  BY <1>4, <1>11 DEF MoveStep, MoveFolder, MoveFiles, Goto
<1>12. ASSUME WalkStep(h)
       PROVE  /\ op = "restore"
              /\ ListSubs(h) \/ Leave(h) \/ \E c \in Folders : Descend(h, c)
  <2>1. ASSUME NEW c, Descend(h, c) PROVE op = "restore"
    <3>1. \E s : proc'[h] = [proc[h] EXCEPT !.stack = s]
      BY <1>1, <2>1 DEF Descend
    <3>. QED BY <1>3, <3>1
  <2>. QED BY <1>4, <1>5, <1>12, <2>1 DEF WalkStep, ListSubs, Leave, Goto
<1>13. ASSUME Fail(h) PROVE FALSE
  <2>1. proc'[h] # Idle
    BY DEF Idle
  <2>2. ~ Moving(h)
    BY <1>1, <1>13, <2>1 DEF Fail
  <2>. QED BY <1>5, <1>6, <1>13, <2>2 DEF Fail
<1>14. ASSUME DeleteStep(h) PROVE \E d \in Folders : NextFolder(h, d)
  <2>1. ~ CheckFolder(h)
    BY <1>4, <1>5, <1>6 DEF CheckFolder, Goto, At
  <2>2. ~ ReadFiles(h)
    BY <1>4, <1>6 DEF ReadFiles, At
  <2>3. \A f : ~ PickFile(h, f)
    BY <1>4, <1>6 DEF PickFile, At
  <2>4. ~ FilesDone(h)
    BY <1>4, <1>5, <1>6 DEF FilesDone, Goto, At
  <2>5. \A erased : ~ EraseFile(h, erased) /\ ~ DropFolder(h, erased)
    BY <1>4, <1>5, <1>6 DEF EraseFile, DropFolder, At
  <2>. QED BY <1>14, <2>1, <2>2, <2>3, <2>4, <2>5 DEF DeleteStep
<1>. QED BY <1>1, <1>2, <1>7, <1>8, <1>9, <1>10, <1>11, <1>12, <1>13, <1>14 DEF Next, Step

\* The innermost frame of a restore is one of its frames.
LEMMA TopRestored ==
  ASSUME FolderAssumption, Inductive, NEW h \in Handlers, Depth(h) > 0,
         NEW V \in SUBSET Folders, Restored(h, V)
  PROVE  /\ Top(h) \in FramesOf(h) /\ FrameRestored(h, V, Top(h))
         /\ Top(h) \in Frames /\ Top(h).folder \in Folders /\ Known(Top(h).folder)
<1>1. h \in Procs
  BY DEF Procs
<1>2. Depth(h) \in 1..Depth(h)
  BY <1>1 DEF Inductive, ProcsOK, ProcOK, Depth
<1>3. Top(h) \in FramesOf(h)
  BY <1>2 DEF Top, FramesOf
<1>4. FrameRestored(h, V, Top(h))
  BY <1>3 DEF Restored
<1>5. Top(h).folder \in Folders /\ Top(h).folder # None
  BY <1>4 DEF FrameRestored, FolderAssumption, Items
<1>. QED BY <1>1, <1>3, <1>4, <1>5, TopOK DEF FrameOK

\* A step of restore h itself counts nothing as meddled with, and forgets nothing.
Remembers(h) == meddled'[h] = meddled[h] /\ missed[h] \subseteq missed'[h]

\* The steps of a restore settle what they change.
LEMMA OwnKept ==
  ASSUME FolderAssumption, Inductive, NEW h \in Handlers, proc[h].op = "restore",
         Remembers(h),
         UNCHANGED rows \/ MoveFolder(h) \/ MoveFiles(h), NEW W
  PROVE  SettledKept(h, W)
<1>1. RowsOK
  BY DEF Inductive
<1>2. Target(h) = "live" /\ UNCHANGED parent
  BY DEF Target, MoveFolder, MoveFiles, rows
<1>3. \A x \in Items : \/ status'[x] = status[x]
                       \/ Exists(x) /\ status'[x] = "live"
  BY <1>1, <1>2 DEF RowsOK, rows, MoveFolder, Set, MoveFiles, FilesIn
<1>. QED BY <1>2, <1>3 DEF SettledKept, Settled, Exists, InTrash, Remembers

\* The innermost call of a restore goes on in its folder.
LEMMA RestoreGoesOn ==
  ASSUME FolderAssumption, Inductive, NEW h \in Handlers, Depth(h) > 0,
         NEW V \in SUBSET Folders, Restored(h, V), SettledKept(h, V),
         NEW t, t \in Frames, t.folder = Top(h).folder, GoOn(h, t), Settled(h, t.folder)',
         t.pc \in {"list", "subs"} => FilesSettled(h, t.folder)',
         t.pc = "subs" => SubsIn(h, t.folder, V \cup t.subs)'
  PROVE  Restored(h, V)'
<1>1. h \in Procs
  BY DEF Procs
<1>2. t.folder \in V
  BY TopRestored DEF FrameRestored
<1>3. FrameRestored(h, V, t)'
  BY <1>2 DEF FrameRestored
<1>4. /\ \A u \in FramesOf(h)' : u = t \/ u \in FramesOf(h)
      /\ \A u \in FramesOf(h) : \E v \in FramesOf(h)' : v.folder = u.folder
  BY <1>1, FramesGoOn
<1>5. \A u \in FramesOf(h)' : u \in FramesOf(h) \/ FrameRestored(h, V, u)'
  BY <1>3, <1>4
<1>6. \A d \in V : \/ \E u \in FramesOf(h)' : u.folder = d
                   \/ \A u \in FramesOf(h) : u.folder # d
  BY <1>4
<1>. QED BY <1>5, <1>6, RestoredKept

\* It restores its folder, if that is still there,
LEMMA RestoreMovesFolder ==
  ASSUME FolderAssumption, Inductive, NEW h \in Handlers, proc[h].op = "restore",
         Remembers(h), NEW V \in SUBSET Folders, Restored(h, V), MoveFolder(h)
  PROVE  Restored(h, V)'
<1>1. Depth(h) > 0 /\ SettledKept(h, V) /\ RowsOK
  BY OwnKept DEF MoveFolder, At, Inductive
<1>2. PICK u : u = Top(h)
  OBVIOUS
<1>3. u \in Frames /\ u.folder \in Folders /\ Known(u.folder)
  BY <1>1, <1>2, TopRestored
<1>4. PICK t : t = [u EXCEPT !.pc = "files"]
  OBVIOUS
<1>5. t \in Frames /\ t.folder = u.folder /\ t.pc = "files"
  BY <1>3, <1>4 DEF Frames
<1>6. GoOn(h, t)
  BY <1>2, <1>4 DEF MoveFolder, Goto
<1>7. Settled(h, t.folder)'
  <2>1. Set(u.folder, "live")
    BY <1>2 DEF MoveFolder, Target
  <2>2. status'[u.folder] \in {"live", "gone"}
    BY <1>1, <1>3, <2>1 DEF Set, Exists, Known, RowsOK, Items, InTrash
  <2>. QED BY <1>5, <2>2 DEF Settled
<1>. QED BY <1>1, <1>2, <1>5, <1>6, <1>7, RestoreGoesOn

\* its files,
LEMMA RestoreMovesFiles ==
  ASSUME FolderAssumption, Inductive, ParentsKnown, NEW h \in Handlers,
         proc[h].op = "restore", Remembers(h),
         NEW V \in SUBSET Folders, Restored(h, V), MoveFiles(h)
  PROVE  Restored(h, V)'
<1>1. Depth(h) > 0 /\ SettledKept(h, V) /\ RowsOK /\ Top(h).pc = "files"
  BY OwnKept DEF MoveFiles, At, Inductive
<1>2. PICK u : u = Top(h)
  OBVIOUS
<1>3. u \in Frames /\ u.folder \in Folders /\ Settled(h, u.folder)
  BY <1>1, <1>2, TopRestored DEF FrameRestored
<1>4. PICK t : t = [u EXCEPT !.pc = "list"]
  OBVIOUS
<1>5. t \in Frames /\ t.folder = u.folder /\ t.pc = "list"
  BY <1>3, <1>4 DEF Frames
<1>6. GoOn(h, t)
  BY <1>2, <1>4 DEF MoveFiles, Goto
<1>7. Settled(h, t.folder)'
  BY <1>1, <1>3, <1>5 DEF SettledKept, Items
<1>8. ASSUME NEW f \in Files, parent'[f] = u.folder PROVE Settled(h, f)'
  <2>1. parent[f] = u.folder /\ u.folder # None
    BY <1>3, <1>8 DEF MoveFiles, FolderAssumption, Items
  <2>2. status[f] # "none"
    BY <2>1 DEF ParentsKnown, Items
  <2>3. Exists(f) \/ status[f] = "gone"
    BY <1>1, <2>2 DEF RowsOK, Exists, Items, InTrash
  <2>4. status'[f] = IF f \in FilesIn(h) THEN "live" ELSE status[f]
    BY DEF MoveFiles, Target, Items
  <2>5. Exists(f) => f \in FilesIn(h)
    BY <1>2, <2>1 DEF FilesIn
  <2>. QED BY <2>3, <2>4, <2>5 DEF Settled, Exists, InTrash
<1>9. FilesSettled(h, t.folder)'
  BY <1>5, <1>8 DEF FilesSettled
<1>. QED BY <1>1, <1>2, <1>5, <1>6, <1>7, <1>9, RestoreGoesOn

\* and lists its subfolders, those that are live already included.
LEMMA RestoreLists ==
  ASSUME FolderAssumption, Inductive, ParentsKnown, NEW h \in Handlers,
         proc[h].op = "restore", Remembers(h), NEW V \in SUBSET Folders, Restored(h, V),
         ListSubs(h), Subs(h) \ Top(h)'.subs \subseteq missed'[h]
  PROVE  Restored(h, V)'
<1>1. Depth(h) > 0 /\ SettledKept(h, V) /\ RowsOK /\ Top(h).pc = "list"
  BY OwnKept DEF ListSubs, At, Inductive
<1>2. PICK u : u = Top(h)
  OBVIOUS
<1>3. /\ u \in Frames /\ u.folder \in Folders
      /\ Settled(h, u.folder) /\ FilesSettled(h, u.folder)
  BY <1>1, <1>2, TopRestored DEF FrameRestored
<1>4. PICK subs \in SUBSET Subs(h) : GoOn(h, [Top(h) EXCEPT !.pc = "subs", !.subs = subs])
  BY DEF ListSubs
<1>5. subs \subseteq Folders
  BY <1>4 DEF Subs
<1>6. PICK t : t = [u EXCEPT !.pc = "subs", !.subs = subs]
  OBVIOUS
<1>7. t \in Frames /\ t.folder = u.folder /\ t.pc = "subs" /\ t.subs = subs
  BY <1>3, <1>5, <1>6 DEF Frames
<1>8. GoOn(h, t) /\ UNCHANGED rows
  BY <1>2, <1>4, <1>6 DEF ListSubs
<1>9. Settled(h, t.folder)'
  BY <1>1, <1>3, <1>7 DEF SettledKept, Items
<1>10. FilesSettled(h, t.folder)'
  BY <1>1, <1>3, <1>7, InsideKept
<1>11. ASSUME NEW c \in Folders, parent'[c] = u.folder
       PROVE  c \in subs \cup missed'[h] \/ status'[c] = "gone"
  <2>1. parent[c] = u.folder /\ u.folder # None /\ status' = status
    BY <1>3, <1>8, <1>11 DEF rows, FolderAssumption, Items
  <2>2. status[c] # "none"
    BY <2>1 DEF ParentsKnown, Items
  <2>3. Exists(c) \/ status[c] = "gone"
    BY <1>1, <2>2 DEF RowsOK, Exists, Items, InTrash
  <2>4. Top(h)' = t
    <3>1. h \in Procs
      BY DEF Procs
    <3>. QED BY <1>1, <1>2, <1>7, <1>8, <3>1, FramesGoOn
  <2>. QED BY <1>2, <1>4, <1>7, <2>1, <2>3, <2>4 DEF Subs
<1>12. SubsIn(h, t.folder, V \cup t.subs)'
  BY <1>7, <1>11 DEF SubsIn
<1>. QED BY <1>1, <1>2, <1>7, <1>8, <1>9, <1>10, <1>12, RestoreGoesOn

\* It enters a subfolder.
LEMMA RestoreDescends ==
  ASSUME FolderAssumption, Inductive, NEW h \in Handlers, proc[h].op = "restore",
         Remembers(h), NEW V \in SUBSET Folders, Restored(h, V),
         NEW c \in Folders, Descend(h, c)
  PROVE  \E W \in SUBSET Folders : Restored(h, W)'
<1>1. Depth(h) > 0 /\ UNCHANGED rows /\ h \in Procs /\ Top(h).pc = "subs" /\ c \in Top(h).subs
  BY DEF Descend, At, Procs
<1>2. PICK W : W = V \cup {c}
  OBVIOUS
<1>3. W \in SUBSET Folders /\ V \subseteq W /\ SettledKept(h, W)
  BY <1>1, <1>2, OwnKept
<1>4. PICK t : t = Top(h)
  OBVIOUS
<1>5. t \in FramesOf(h) /\ t \in Frames /\ FrameRestored(h, V, t)
  BY <1>1, <1>4, TopRestored
<1>6. FrameRestored(h, W, t)'
  BY <1>3, <1>5, FrameKept
<1>7. PICK u : u = [t EXCEPT !.subs = @ \ {c}]
  OBVIOUS
<1>8. u.folder = t.folder /\ u.pc = t.pc /\ u.subs = t.subs \ {c}
  BY <1>5, <1>7 DEF Frames
<1>9. W \cup u.subs = W \cup t.subs
  BY <1>1, <1>2, <1>4, <1>8
<1>10. FrameRestored(h, W, u)'
  BY <1>6, <1>8, <1>9 DEF FrameRestored
<1>11. PICK v : v = Enter("restore", c)
  OBVIOUS
<1>12. v.folder = c /\ v.pc = "self"
  BY <1>11 DEF Enter, Frame
<1>13. FrameRestored(h, W, v)'
  BY <1>2, <1>12 DEF FrameRestored
<1>14. /\ \A w \in FramesOf(h)' : w = u \/ w = v \/ w \in FramesOf(h)
       /\ v \in FramesOf(h)'
       /\ \A w \in FramesOf(h) : \E x \in FramesOf(h)' : x.folder = w.folder
  BY <1>1, <1>4, <1>7, <1>11, FramesDescend
<1>15. \A w \in FramesOf(h)' : w \in FramesOf(h) \/ FrameRestored(h, W, w)'
  BY <1>10, <1>13, <1>14
<1>16. \A d \in W : \/ \E w \in FramesOf(h)' : w.folder = d
                    \/ d \in V /\ \A w \in FramesOf(h) : w.folder # d
  BY <1>2, <1>12, <1>14
<1>17. Restored(h, W)'
  BY <1>3, <1>15, <1>16, RestoredKept
<1>. QED BY <1>3, <1>17

\* The folder that it returns from is restored.
LEMMA RestoreLeaves ==
  ASSUME FolderAssumption, Inductive, NEW h \in Handlers, proc[h].op = "restore",
         Remembers(h), proc'[h].op = "restore",
         NEW V \in SUBSET Folders, Restored(h, V), Leave(h)
  PROVE  Restored(h, V)'
<1>1. /\ Depth(h) > 0 /\ UNCHANGED rows /\ h \in Procs /\ Top(h).pc = "subs"
      /\ Top(h).subs = {} /\ Return(h, {})
  BY DEF Leave, At, Procs, Moving
<1>2. SettledKept(h, V) /\ proc'[h] # Idle
  BY <1>1, OwnKept DEF Idle
<1>3. PICK t : t = Top(h)
  OBVIOUS
<1>4. t.folder \in Folders /\ FrameRestored(h, V, t)
  BY <1>1, <1>3, TopRestored
<1>5. FolderRestored(h, V, t.folder)
  <2>1. V \cup t.subs = V
    BY <1>1, <1>3
  <2>. QED BY <1>1, <1>3, <1>4, <2>1 DEF FrameRestored, FolderRestored
<1>6. FolderRestored(h, V, t.folder)'
  BY <1>2, <1>4, <1>5, FolderKept
<1>7. /\ \A u \in FramesOf(h)' : u \in FramesOf(h)
      /\ \A u \in FramesOf(h) : u = t \/ u \in FramesOf(h)'
  BY <1>1, <1>2, <1>3, FramesReturn
<1>8. \A d \in V : \/ \E u \in FramesOf(h)' : u.folder = d
                   \/ FolderRestored(h, V, d)'
                   \/ \A u \in FramesOf(h) : u.folder # d
  BY <1>6, <1>7
<1>. QED BY <1>2, <1>7, <1>8, RestoredKept

\* Every step keeps what the restores have left behind restored.
LEMMA RestoresStep ==
  ASSUME FolderAssumption, Inductive, ParentsKnown, ParentsKnown', RestoresOnTheWay, [Next]_vars
  PROVE  RestoresOnTheWay'
<1>1. CASE UNCHANGED vars
  <2>1. ASSUME NEW h, NEW V PROVE Restored(h, V)' <=> Restored(h, V)
    BY <1>1 DEF vars, rows, Restored, FramesOf, Depth, FrameRestored, FolderRestored,
                Settled, FilesSettled, SubsIn
  <2>. QED BY <1>1, <2>1 DEF RestoresOnTheWay, vars
<1>2. ASSUME Next, NEW h \in Handlers, proc'[h].op = "restore"
      PROVE  \E V \in SUBSET Folders : Restored(h, V)'
  <2>1. CASE proc'[h] = proc[h]
    <3>1. PICK V \in SUBSET Folders : Restored(h, V)
      BY <1>2, <2>1 DEF RestoresOnTheWay
    <3>. QED BY <1>2, <2>1, <3>1, RestoreWaits
  <2>2. ASSUME NEW d \in Folders, BeginRestore(h, d) \/ NextFolder(h, d), proc'[h] # proc[h]
        PROVE  \E V \in SUBSET Folders : Restored(h, V)'
    <3>1. h \in Procs /\ DOMAIN proc = Procs
      BY DEF Inductive, ProcsOK, Procs
    <3>2. proc'[h].stack = <<Enter("restore", d)>>
      <4>1. CASE BeginRestore(h, d)
        BY <3>1, <4>1 DEF BeginRestore, Begin
      <4>2. CASE NextFolder(h, d)
        <5>1. proc'[h] = [op |-> proc[h].op, todo |-> proc[h].todo \ {d},
                          stack |-> <<Enter(proc[h].op, d)>>]
          BY <3>1, <4>2 DEF NextFolder
        <5>. QED BY <1>2, <5>1
      <4>. QED BY <2>2, <4>1, <4>2
    <3>3. PICK t : t = Enter("restore", d)
      OBVIOUS
    <3>4. t.folder = d /\ t.pc = "self"
      BY <3>3 DEF Enter, Frame
    <3>. QED BY <3>2, <3>3, <3>4, RestoreEnters
  <2>3. CASE /\ proc[h].op = "restore" /\ proc'[h] # proc[h]
             /\ MoveFolder(h) \/ MoveFiles(h) \/ ListSubs(h) \/ Leave(h)
                \/ \E c \in Folders : Descend(h, c)
    <3>1. /\ Remembers(h)
          /\ ListSubs(h) => Subs(h) \ Top(h)'.subs \subseteq missed'[h]
      BY <1>2, <2>3 DEF Next, Record, Procs, Remembers, ListSubs
    <3>2. PICK V \in SUBSET Folders : Restored(h, V)
      BY <2>3 DEF RestoresOnTheWay
    <3>3. CASE MoveFolder(h) \/ MoveFiles(h) \/ ListSubs(h) \/ Leave(h)
      <4>1. Restored(h, V)'
        BY <1>2, <2>3, <3>1, <3>2, <3>3, RestoreMovesFolder, RestoreMovesFiles, RestoreLists,
           RestoreLeaves
      <4>. QED BY <4>1
    <3>4. CASE \E c \in Folders : Descend(h, c)
      BY <2>3, <3>1, <3>2, <3>4, RestoreDescends
    <3>. QED BY <2>3, <3>3, <3>4
  <2>. QED BY <1>2, <2>1, <2>2, <2>3, RestoreMoves
<1>3. ASSUME Next PROVE RestoresOnTheWay'
  BY <1>2, <1>3 DEF RestoresOnTheWay
<1>. QED BY <1>1, <1>3

\* A restore that returns from its first folder has settled what is below it.
LEMMA RestoredBelow ==
  ASSUME FolderAssumption, Inductive, NEW h \in Handlers, Depth(h) = 1, Leave(h),
         NEW V \in SUBSET Folders, Restored(h, V),
         NEW x \in Below(Top(h).folder, {d \in Folders : Exists(d)} \ missed[h])
  PROVE  Settled(h, x)
<1>1. PICK t : t = Top(h)
  OBVIOUS
<1>2. Depth(h) > 0 /\ t.pc = "subs" /\ t.subs = {}
  BY <1>1 DEF Leave, At
<1>3. FrameRestored(h, V, t) /\ t.folder \in V
  BY <1>1, <1>2, TopRestored DEF FrameRestored
<1>4. FolderRestored(h, V, t.folder)
  <2>1. V \cup t.subs = V
    BY <1>2
  <2>. QED BY <1>2, <1>3, <2>1 DEF FrameRestored, FolderRestored
<1>5. \A u \in FramesOf(h) : u = t
  <2>1. \A i \in 1..1 : i = 1
    OBVIOUS
  <2>. QED BY <1>1, <2>1 DEF FramesOf, Top
<1>6. \A d \in V : FolderRestored(h, V, d)
  BY <1>4, <1>5 DEF Restored
<1>7. PICK S : S = V \cup {y \in Items : Settled(h, y) /\ (y \in Folders => status[y] = "gone" \/ y \in missed[h])}
  OBVIOUS
<1>8. S \in SUBSET Items /\ t.folder \in S
  BY <1>3, <1>7 DEF Items
<1>9. ASSUME NEW y \in Items, parent[y] \in S, parent[y] \in Folders, Exists(parent[y]),
             parent[y] \notin missed[h]
      PROVE  y \in S
  <2>1. parent[y] \in V
    BY <1>7, <1>9 DEF Exists, InTrash
  <2>2. FilesSettled(h, parent[y]) /\ SubsIn(h, parent[y], V)
    BY <1>6, <2>1 DEF FolderRestored
  <2>3. CASE y \in Files
    BY <1>7, <2>2, <2>3 DEF FilesSettled, FolderAssumption
  <2>4. CASE y \in Folders
    <3>1. y \in V \/ status[y] = "gone" \/ y \in missed[h]
      BY <2>2, <2>4 DEF SubsIn
    <3>. QED BY <1>7, <3>1 DEF Settled
  <2>. QED BY <2>3, <2>4 DEF Items
<1>10. Closed(S, {d \in Folders : Exists(d)} \ missed[h])
  BY <1>9 DEF Closed
<1>11. x \in S
  BY <1>1, <1>8, <1>10 DEF Below
<1>. QED BY <1>6, <1>7, <1>11 DEF FolderRestored

LEMMA AlwaysParents == Spec => []ParentsKnown
<1>1. Init => ParentsKnown
  BY ParentsInit
<1>2. Inductive /\ ParentsKnown /\ [Next]_vars => ParentsKnown'
  BY ParentsStep, FolderAssumption
<1>. QED BY <1>1, <1>2, AlwaysInductive, PTL DEF Spec

LEMMA AlwaysOnTheWay == Spec => []RestoresOnTheWay
<1>1. Init => RestoresOnTheWay
  BY DEF Init, RestoresOnTheWay, Idle, Procs
<1>2. /\ Inductive /\ ParentsKnown /\ ParentsKnown' /\ RestoresOnTheWay /\ [Next]_vars
      => RestoresOnTheWay'
  BY RestoresStep, FolderAssumption
<1>. QED BY <1>1, <1>2, AlwaysInductive, AlwaysParents, PTL DEF Spec

\* Every recursion holds a path down the tree and rows of the folders on it,
\* and each folder that a restore entered is on its path or restored with its
\* files, its subfolders entered too, however creations, moves and deletions
\* of others interleave with it.
THEOREM Invariant == Spec => []IInv
<1>1. Inductive /\ ParentsKnown /\ RestoresOnTheWay => IInv
  BY InductivePath, FolderAssumption DEF IInv
<1>. QED BY <1>1, AlwaysInductive, AlwaysParents, AlwaysOnTheWay, PTL

\* When a restore is done, what is below its folder and nobody else touched
\* meanwhile is not in the trash (restoreFolderFromTrash), but for the
\* subfolders that a failing query left out, and what is below them.
THEOREM RestoresAreComplete == Spec => RestoreIsComplete
<1>1. Inductive /\ RestoresOnTheWay /\ [Next]_vars =>
        [\A h \in Handlers :
           proc[h].op = "restore" /\ Depth(h) = 1 /\ Leave(h)
             => \A x \in Below(Top(h).folder, {d \in Folders : Exists(d)} \ missed[h])
                       \ (meddled[h] \cup missed[h]) :
                  status[x] \in {"live", "gone"}]_vars
  <2>. SUFFICES ASSUME Inductive, RestoresOnTheWay, NEW h \in Handlers,
                       proc[h].op = "restore", Depth(h) = 1, Leave(h),
                       NEW x \in Below(Top(h).folder, {d \in Folders : Exists(d)} \ missed[h])
                                 \ (meddled[h] \cup missed[h])
                PROVE  status[x] \in {"live", "gone"}
    OBVIOUS
  <2>1. PICK V \in SUBSET Folders : Restored(h, V)
    BY DEF RestoresOnTheWay
  <2>2. Settled(h, x)
    BY <2>1, RestoredBelow, FolderAssumption
  <2>. QED BY <2>2 DEF Settled
<1>. QED BY <1>1, AlwaysInductive, AlwaysOnTheWay, PTL DEF Spec, RestoreIsComplete
=============================================================================
