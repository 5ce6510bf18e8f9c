------------------------ MODULE TrashLifecycleProofs ------------------------
(***************************************************************************)
(* Proofs about TrashLifecycle.  IInv is inductive: Init implies it, and   *)
(* each action preserves it.  A step can hurt the conjuncts about handlers *)
(* and the cleanup that are not moving only if something they rely on goes *)
(* back; Mono says what never goes back, and Undisturbed draws the         *)
(* consequences, so the lemma of an action proves TypeOK, Mono and the     *)
(* conjuncts whose variables the action changes.                           *)
(***************************************************************************)
EXTENDS TrashLifecycle, TLAPS

\* The inductive invariant holds when the controller first starts.
LEMMA InitIInv == Init => IInv
  BY TrashAssumption
  DEF Init, IInv, TypeOK, UploadInv, RowInv, BytesInv, QueueInv, WorkerInv, HandlerInv,
      CleanerInv, At, Idle, NoWorker, InTrash, HandlerPcs, BytesGone, Accounted

\* What no step takes back: a begun deletion, a givenUp file, the primary of
\* a condemned file, the absence of its bytes, a row of pending_deletions.
Mono ==
  /\ condemned \subseteq condemned'
  /\ givenUp \subseteq givenUp'
  /\ \A f \in condemned : primary'[f] = primary[f]
  /\ \A f \in condemned : BytesGone(f) => BytesGone(f)'
  /\ \A e \in Entries : pending[e] # "none" => pending'[e] # "none"

\* The bytes of a condemned file stay accounted for.
LEMMA AccountedMono ==
  ASSUME TypeOK, Mono, NEW f \in condemned, Accounted(f)
  PROVE  Accounted(f)'
  BY DEF TypeOK, Mono, Accounted, Entries

\* HandlerInv for one handler, in state r.
HandlerOK(r) ==
  /\ r.pc \in {"call", "forget", "check", "queue", "erase", "dcall", "dforget"}
       => r.file \in condemned
  /\ r.pc \in {"forget", "dforget"} => BytesGone(r.file)
  /\ r.pc = "erase" => Accounted(r.file)

\* When one handler moves, HandlerInv is about that handler only.
LEMMA HandlerMoves ==
  ASSUME IInv, Mono, NEW h \in Handlers, NEW r,
         handler' = [handler EXCEPT ![h] = r], HandlerOK(r)'
  PROVE  HandlerInv'
<1>. USE DEF IInv, TypeOK
<1>. SUFFICES ASSUME NEW g \in Handlers PROVE HandlerOK(handler[g])'
  BY DEF HandlerInv, HandlerOK
<1>1. CASE g = h
  BY <1>1 DEF HandlerOK
<1>2. CASE g # h
  <2>1. handler'[g] = handler[g] /\ HandlerOK(handler[g])
    BY <1>2 DEF HandlerInv, HandlerOK
  <2>. QED BY <2>1, AccountedMono DEF HandlerOK, Mono
<1>. QED BY <1>1, <1>2

\* SetHandler keeps the type of handler.
LEMMA SetHandlerType ==
  ASSUME TypeOK, NEW h \in Handlers, NEW pc \in HandlerPcs, NEW f \in Files \cup {None},
         NEW todo \in SUBSET (Files \cup Nodes), SetHandler(h, pc, f, todo)
  PROVE  handler' \in [Handlers -> [pc : HandlerPcs, file : Files \cup {None},
                                   todo : SUBSET (Files \cup Nodes)]]
  BY DEF TypeOK, SetHandler

\* Unlink keeps the type of copies.
LEMMA UnlinkType ==
  ASSUME TypeOK, NEW f, NEW n, NEW o, Unlink(f, n, o)
  PROVE  copies' \in [Files -> SUBSET Nodes]
  BY DEF TypeOK, Unlink

\* Enqueue makes one entry pending, or gives the file up.
LEMMA EnqueueEffect ==
  ASSUME TypeOK, NEW f \in Files, NEW d \in Deleters, Enqueue(f, d)
  PROVE  /\ pending' \in [Entries -> {"none", "pending", "completed"}]
         /\ \A e \in Entries : \/ pending'[e] = pending[e]
                               \/ e = <<f, d>> /\ pending'[e] = "pending"
         /\ givenUp' = givenUp \/ givenUp' = givenUp \cup {f}
         /\ pending'[<<f, d>>] = "pending" \/ f \in givenUp'
<1>1. <<f, d>> \in Entries
  BY DEF Entries
<1>. HIDE DEF Entries, Deleters
<1>2. CASE pending' = [pending EXCEPT ![<<f, d>>] = "pending"] /\ UNCHANGED givenUp
  BY <1>1, <1>2 DEF TypeOK
<1>3. CASE UNCHANGED pending /\ givenUp' = givenUp \cup {f}
  BY <1>3 DEF TypeOK
<1>. QED BY <1>2, <1>3 DEF Enqueue

\* A handler that is not uploading cannot break UploadInv by moving.
LEMMA UploadMoves ==
  ASSUME IInv, NEW h \in Handlers, NEW r, r.pc # "send",
         handler' = [handler EXCEPT ![h] = r],
         \A f \in Files : Uploading(f) => f \notin condemned' /\ rows'[f] = rows[f]
  PROVE  UploadInv'
  BY DEF IInv, TypeOK, UploadInv, Uploading, At

\* The conjuncts of IInv whose variables a step leaves alone.
LEMMA Undisturbed ==
  ASSUME IInv, Mono
  PROVE  /\ UNCHANGED <<handler, rows, condemned>> => UploadInv'
         /\ UNCHANGED <<rows, condemned, primary>> => RowInv'
         /\ UNCHANGED <<condemned, primary, copies>> => BytesInv'
         /\ UNCHANGED <<pending, givenUp>> => QueueInv'
         /\ UNCHANGED worker => WorkerInv'
         /\ UNCHANGED handler => HandlerInv'
         /\ UNCHANGED cleaner => CleanerInv'
<1>. USE DEF IInv, TypeOK
<1>1. UNCHANGED <<handler, rows, condemned>> => UploadInv'
  BY DEF UploadInv, At
<1>2. UNCHANGED <<rows, condemned, primary>> => RowInv'
  BY DEF RowInv
<1>3. UNCHANGED <<condemned, primary, copies>> => BytesInv'
  BY DEF BytesInv, BytesGone
<1>4. UNCHANGED <<pending, givenUp>> => QueueInv'
  BY DEF QueueInv, Mono
<1>5. UNCHANGED worker => WorkerInv'
  BY DEF WorkerInv, Mono
<1>6. UNCHANGED handler => HandlerInv'
  BY AccountedMono DEF HandlerInv, Mono
<1>7. UNCHANGED cleaner => CleanerInv'
  BY AccountedMono DEF CleanerInv, Mono
<1>. QED BY <1>1, <1>2, <1>3, <1>4, <1>5, <1>6, <1>7

-----------------------------------------------------------------------------
(* One lemma per action that disturbs a conjunct. *)

\* BeginUpload preserves the inductive invariant.
LEMMA BeginUploadStep ==
  ASSUME IInv, NEW h \in Handlers, NEW f \in Files, BeginUpload(h, f)
  PROVE  IInv' /\ Mono
<1>. USE TrashAssumption DEF IInv, dbVars, nodeVars, monVars, procVars, history
<1>1. TypeOK'
  BY DEF TypeOK, HandlerPcs, InTrash, BeginUpload, SetHandler, At, Uploading
<1>2. Mono
  BY DEF TypeOK, Mono, UploadInv, HandlerInv, WorkerInv, BytesGone, BeginUpload,
      SetHandler, At, Uploading
<1>3. UploadInv'
  BY DEF TypeOK, UploadInv, RowInv, InTrash, BeginUpload, SetHandler, At, Uploading
<1>4. HandlerInv'
  BY <1>2, AccountedMono DEF TypeOK, HandlerInv, Mono, BytesGone, BeginUpload, SetHandler,
      At, Uploading
<1>. QED BY <1>1, <1>2, <1>3, <1>4, Undisturbed DEF BeginUpload, SetHandler, At, Uploading

\* SendCopy preserves the inductive invariant.
LEMMA SendCopyStep ==
  ASSUME IInv, NEW h \in Handlers, NEW n \in Nodes, SendCopy(h, n)
  PROVE  IInv' /\ Mono
<1>. USE TrashAssumption DEF IInv, dbVars, nodeVars, monVars, procVars, history
<1>1. TypeOK'
  <2>1. PICK f \in Files, todo \in SUBSET (Files \cup Nodes) :
          f = handler[h].file /\ todo = handler[h].todo
    BY DEF SendCopy, At, UploadInv, TypeOK
  <2>2. SetHandler(h, "send", f, todo \ {n})
    BY <2>1 DEF SendCopy
  <2>3. handler' \in [Handlers -> [pc : HandlerPcs, file : Files \cup {None},
                                  todo : SUBSET (Files \cup Nodes)]]
    BY <2>2, SetHandlerType DEF HandlerPcs
  <2>4. PICK o \in Outcomes(n) :
          /\ copies' = IF CarriedOut(o) THEN [copies EXCEPT ![f] = @ \cup {n}] ELSE copies
          /\ primary' = IF Answered(o) /\ primary[f] = None
                        THEN [primary EXCEPT ![f] = n] ELSE primary
    BY <2>1 DEF SendCopy, Store
  <2>5. copies' \in [Files -> SUBSET Nodes]
    BY <2>4 DEF TypeOK
  <2>6. primary' \in [Files -> Nodes \cup {None}]
    BY <2>4 DEF TypeOK
  <2>. QED BY <2>3, <2>5, <2>6 DEF SendCopy, TypeOK
<1>2. Mono
  BY DEF TypeOK, Mono, UploadInv, HandlerInv, WorkerInv, BytesGone, SendCopy, Store, SetHandler,
      At, Outcomes, CarriedOut, Answered
<1>3. UploadInv'
  BY DEF TypeOK, UploadInv, RowInv, InTrash, SendCopy, SetHandler, At, Outcomes,
      CarriedOut, Answered
<1>4. RowInv'
  BY DEF TypeOK, RowInv, UploadInv, InTrash, SendCopy, Store, SetHandler, At, Outcomes,
      CarriedOut, Answered
<1>5. BytesInv'
  BY DEF TypeOK, BytesInv, HandlerInv, WorkerInv, BytesGone, SendCopy, Store, SetHandler, At,
      Outcomes, CarriedOut, Answered
<1>6. HandlerInv'
  BY <1>2, AccountedMono DEF TypeOK, HandlerInv, Mono, BytesGone, SendCopy, Store, SetHandler, At,
      Outcomes, CarriedOut, Answered
<1>. QED BY <1>1, <1>2, <1>3, <1>4, <1>5, <1>6, Undisturbed DEF SendCopy, Store, SetHandler, At,
      Outcomes, CarriedOut, Answered

\* FinishUpload preserves the inductive invariant.
LEMMA FinishUploadStep ==
  ASSUME IInv, NEW h \in Handlers, NEW stored \in BOOLEAN, FinishUpload(h, stored)
  PROVE  IInv' /\ Mono
<1>. USE TrashAssumption DEF IInv, dbVars, nodeVars, monVars, procVars, history
<1>1. TypeOK'
  BY DEF TypeOK, HandlerPcs, InTrash, FinishUpload, Done, At, Idle
<1>2. Mono
  BY DEF TypeOK, Mono, UploadInv, HandlerInv, WorkerInv, BytesGone, FinishUpload, Done, At,
      Idle
<1>3. UploadInv'
  BY DEF TypeOK, UploadInv, RowInv, InTrash, FinishUpload, Done, At, Idle
<1>4. RowInv'
  BY DEF TypeOK, RowInv, UploadInv, InTrash, FinishUpload, Done, At, Idle
<1>5. HandlerInv'
  BY <1>2, AccountedMono DEF TypeOK, HandlerInv, Mono, BytesGone, FinishUpload, Done, At,
      Idle
<1>. QED BY <1>1, <1>2, <1>3, <1>4, <1>5, Undisturbed DEF FinishUpload, Done, At, Idle

\* BeginTrash preserves the inductive invariant.
LEMMA BeginTrashStep ==
  ASSUME IInv, NEW h \in Handlers, NEW f \in Files, BeginTrash(h, f)
  PROVE  IInv' /\ Mono
<1>. USE TrashAssumption DEF IInv, dbVars, nodeVars, monVars, procVars, history
<1>1. TypeOK'
  BY DEF TypeOK, HandlerPcs, InTrash, BeginTrash, SetHandler, At
<1>2. Mono
  BY DEF TypeOK, Mono, UploadInv, HandlerInv, WorkerInv, BytesGone, BeginTrash, SetHandler,
      At
<1>3. UploadInv'
  BY DEF TypeOK, UploadInv, RowInv, InTrash, BeginTrash, SetHandler, At
<1>4. HandlerInv'
  BY <1>2, AccountedMono DEF TypeOK, HandlerInv, Mono, BytesGone, BeginTrash, SetHandler,
      At
<1>. QED BY <1>1, <1>2, <1>3, <1>4, Undisturbed DEF BeginTrash, SetHandler, At

\* BeginRestore preserves the inductive invariant.
LEMMA BeginRestoreStep ==
  ASSUME IInv, NEW h \in Handlers, NEW f \in Files, BeginRestore(h, f)
  PROVE  IInv' /\ Mono
<1>. USE TrashAssumption DEF IInv, dbVars, nodeVars, monVars, procVars, history
<1>1. TypeOK'
  BY DEF TypeOK, HandlerPcs, InTrash, BeginRestore, SetHandler, At
<1>2. Mono
  BY DEF TypeOK, Mono, UploadInv, HandlerInv, WorkerInv, BytesGone, BeginRestore,
      SetHandler, At
<1>3. UploadInv'
  BY DEF TypeOK, UploadInv, RowInv, InTrash, BeginRestore, SetHandler, At
<1>4. HandlerInv'
  BY <1>2, AccountedMono DEF TypeOK, HandlerInv, Mono, BytesGone, BeginRestore, SetHandler,
      At
<1>. QED BY <1>1, <1>2, <1>3, <1>4, Undisturbed DEF BeginRestore, SetHandler, At

\* CommitTrash preserves the inductive invariant.
LEMMA CommitTrashStep ==
  ASSUME IInv, NEW h \in Handlers, CommitTrash(h)
  PROVE  IInv' /\ Mono
<1>. USE TrashAssumption DEF IInv, dbVars, nodeVars, monVars, procVars, history
<1>1. TypeOK'
  BY DEF TypeOK, HandlerPcs, InTrash, CommitTrash, SetRow, Done, At, Idle
<1>2. Mono
  BY DEF TypeOK, Mono, UploadInv, HandlerInv, WorkerInv, BytesGone, CommitTrash, SetRow,
      Done, At, Idle
<1>3. UploadInv'
  BY DEF TypeOK, UploadInv, RowInv, InTrash, CommitTrash, SetRow, Done, At, Idle
<1>4. RowInv'
  BY DEF TypeOK, RowInv, UploadInv, InTrash, CommitTrash, SetRow, Done, At, Idle
<1>5. HandlerInv'
  BY <1>2, AccountedMono DEF TypeOK, HandlerInv, Mono, BytesGone, CommitTrash, SetRow,
      Done, At, Idle
<1>. QED BY <1>1, <1>2, <1>3, <1>4, <1>5, Undisturbed DEF CommitTrash, SetRow, Done, At,
      Idle

\* CommitRestore preserves the inductive invariant.
LEMMA CommitRestoreStep ==
  ASSUME IInv, NEW h \in Handlers, CommitRestore(h)
  PROVE  IInv' /\ Mono
<1>. USE TrashAssumption DEF IInv, dbVars, nodeVars, monVars, procVars, history
<1>1. TypeOK'
  BY DEF TypeOK, HandlerPcs, InTrash, CommitRestore, SetRow, Done, At, Idle
<1>2. Mono
  BY DEF TypeOK, Mono, UploadInv, HandlerInv, WorkerInv, BytesGone, CommitRestore, SetRow,
      Done, At, Idle
<1>3. UploadInv'
  BY DEF TypeOK, UploadInv, RowInv, InTrash, CommitRestore, SetRow, Done, At, Idle
<1>4. RowInv'
  BY DEF TypeOK, RowInv, UploadInv, InTrash, CommitRestore, SetRow, Done, At, Idle
<1>5. HandlerInv'
  BY <1>2, AccountedMono DEF TypeOK, HandlerInv, Mono, BytesGone, CommitRestore, SetRow,
      Done, At, Idle
<1>. QED BY <1>1, <1>2, <1>3, <1>4, <1>5, Undisturbed DEF CommitRestore, SetRow, Done, At,
      Idle

\* BeginPurge preserves the inductive invariant.
LEMMA BeginPurgeStep ==
  ASSUME IInv, NEW h \in Handlers, NEW F \in SUBSET Files, BeginPurge(h, F)
  PROVE  IInv' /\ Mono
<1>. USE TrashAssumption DEF IInv, dbVars, nodeVars, monVars, procVars, history
<1>1. TypeOK'
  BY DEF TypeOK, HandlerPcs, InTrash, BeginPurge, SetHandler, At
<1>2. Mono
  BY DEF TypeOK, Mono, UploadInv, HandlerInv, WorkerInv, BytesGone, BeginPurge, SetHandler,
      At
<1>3. UploadInv'
  BY DEF TypeOK, UploadInv, RowInv, InTrash, BeginPurge, SetHandler, At
<1>4. HandlerInv'
  BY <1>2, AccountedMono DEF TypeOK, HandlerInv, Mono, BytesGone, BeginPurge, SetHandler,
      At
<1>. QED BY <1>1, <1>2, <1>3, <1>4, Undisturbed DEF BeginPurge, SetHandler, At

\* SelectFile preserves the inductive invariant.
LEMMA SelectFileStep ==
  ASSUME IInv, NEW h \in Handlers, NEW f \in Files, SelectFile(h, f)
  PROVE  IInv' /\ Mono
<1>. USE TrashAssumption DEF IInv, dbVars, nodeVars, monVars, procVars, history
<1>1. TypeOK'
  <2>1. PICK r \in [pc : HandlerPcs, file : Files \cup {None}, todo : SUBSET (Files \cup Nodes)] :
          handler' = [handler EXCEPT ![h] = r]
    BY DEF TypeOK, HandlerPcs, SelectFile, SetHandler, NextFile, Idle
  <2>2. handler' \in [Handlers -> [pc : HandlerPcs, file : Files \cup {None},
                                  todo : SUBSET (Files \cup Nodes)]]
    BY <2>1 DEF TypeOK
  <2>. QED BY <2>2 DEF TypeOK, SelectFile
<1>2. Mono
  BY DEF TypeOK, Mono, UploadInv, HandlerInv, WorkerInv, BytesGone, SelectFile, SetHandler,
      NextFile, At, Idle
<1>3. UploadInv'
  <2>1. \A g \in Files : Uploading(g) => g \notin condemned' /\ rows'[g] = rows[g]
    BY DEF TypeOK, UploadInv, InTrash, SelectFile, Uploading, At
  <2>2. PICK r : r.pc # "send" /\ handler' = [handler EXCEPT ![h] = r]
    BY DEF SelectFile, SetHandler, NextFile, Idle
  <2>. QED BY <2>1, <2>2, UploadMoves
<1>4. RowInv'
  BY DEF TypeOK, RowInv, UploadInv, InTrash, SelectFile, SetHandler, NextFile, At, Idle
<1>5. BytesInv'
  BY DEF TypeOK, BytesInv, HandlerInv, WorkerInv, BytesGone, SelectFile, SetHandler,
      NextFile, At, Idle
<1>6. HandlerInv'
  BY <1>2, AccountedMono DEF TypeOK, HandlerInv, Mono, BytesGone, SelectFile, SetHandler,
      NextFile, At, Idle
<1>. QED BY <1>1, <1>2, <1>3, <1>4, <1>5, <1>6, Undisturbed DEF SelectFile, SetHandler,
      NextFile, At, Idle

\* CallNode preserves the inductive invariant.
LEMMA CallNodeStep ==
  ASSUME IInv, NEW h \in Handlers, CallNode(h)
  PROVE  IInv' /\ Mono
<1>. USE TrashAssumption DEF IInv, dbVars, nodeVars, monVars, procVars, history
<1>1. TypeOK'
  <2>1. PICK file \in Files \cup {None}, todo \in SUBSET (Files \cup Nodes) :
          file = handler[h].file /\ todo = handler[h].todo
    BY DEF TypeOK
  <2>2. PICK o : /\ Unlink(file, primary[file], o)
                 /\ SetHandler(h, IF Answered(o) THEN "forget" ELSE "check", file, todo)
    BY <2>1 DEF CallNode, Goto
  <2>3. (IF Answered(o) THEN "forget" ELSE "check") \in HandlerPcs
    BY DEF HandlerPcs
  <2>4. handler' \in [Handlers -> [pc : HandlerPcs, file : Files \cup {None},
                                  todo : SUBSET (Files \cup Nodes)]]
    BY <2>2, <2>3, SetHandlerType
  <2>5. copies' \in [Files -> SUBSET Nodes]
    BY <2>2, UnlinkType
  <2>. QED BY <2>4, <2>5 DEF CallNode, TypeOK
<1>2. Mono
  BY DEF TypeOK, Mono, UploadInv, HandlerInv, WorkerInv, BytesGone, CallNode, SetHandler,
      Goto, At, DeleteOutcomes, Outcomes, Unlink, CarriedOut, Answered
<1>3. UploadInv'
  BY DEF TypeOK, UploadInv, RowInv, InTrash, CallNode, SetHandler, Goto, At,
      DeleteOutcomes, Outcomes, Unlink, CarriedOut, Answered
<1>4. BytesInv'
  BY DEF TypeOK, BytesInv, HandlerInv, WorkerInv, BytesGone, CallNode, SetHandler, Goto,
      At, DeleteOutcomes, Outcomes, Unlink, CarriedOut, Answered
<1>5. HandlerInv'
  BY <1>2, AccountedMono DEF TypeOK, HandlerInv, Mono, BytesGone, CallNode, SetHandler,
      Goto, At, DeleteOutcomes, Outcomes, Unlink, CarriedOut, Answered
<1>. QED BY <1>1, <1>2, <1>3, <1>4, <1>5, Undisturbed DEF CallNode, SetHandler, Goto, At,
      DeleteOutcomes, Outcomes, Unlink, CarriedOut, Answered

\* Forget preserves the inductive invariant.
LEMMA ForgetStep ==
  ASSUME IInv, NEW h \in Handlers, NEW erased \in BOOLEAN, Forget(h, erased)
  PROVE  IInv' /\ Mono
<1>. USE TrashAssumption DEF IInv, dbVars, nodeVars, monVars, procVars, history
<1>1. TypeOK'
  BY DEF TypeOK, HandlerPcs, InTrash, Forget, DeleteRow, SetHandler, Goto, At
<1>2. Mono
  BY DEF TypeOK, Mono, UploadInv, HandlerInv, WorkerInv, BytesGone, Forget, DeleteRow,
      SetHandler, Goto, At
<1>3. UploadInv'
  BY DEF TypeOK, UploadInv, RowInv, InTrash, Forget, DeleteRow, SetHandler, Goto, At
<1>4. RowInv'
  BY DEF TypeOK, RowInv, UploadInv, InTrash, Forget, DeleteRow, SetHandler, Goto, At
<1>5. HandlerInv'
  <2>0. PICK f \in condemned : f = handler[h].file /\ BytesGone(f)
    BY DEF HandlerInv, Forget, At
  <2>1. PICK r : r = [pc |-> IF erased THEN "erase" ELSE "check",
                      file |-> f, todo |-> handler[h].todo]
    OBVIOUS
  <2>2. HandlerOK(r)'
    BY <1>2, <2>0, <2>1 DEF HandlerOK, Accounted, Mono
  <2>. QED BY <1>2, <2>0, <2>1, <2>2, HandlerMoves DEF Forget, Goto, SetHandler
<1>. QED BY <1>1, <1>2, <1>3, <1>4, <1>5, Undisturbed DEF Forget, DeleteRow, SetHandler,
      Goto, At

\* CheckNode preserves the inductive invariant.
LEMMA CheckNodeStep ==
  ASSUME IInv, NEW h \in Handlers, CheckNode(h)
  PROVE  IInv' /\ Mono
<1>. USE TrashAssumption DEF IInv, dbVars, nodeVars, monVars, procVars, history
<1>1. TypeOK'
  <2>1. PICK file \in Files \cup {None}, todo \in SUBSET (Files \cup Nodes),
               pc \in HandlerPcs : SetHandler(h, pc, file, todo)
    BY DEF CheckNode, Goto, TypeOK, HandlerPcs
  <2>2. handler' \in [Handlers -> [pc : HandlerPcs, file : Files \cup {None},
                                  todo : SUBSET (Files \cup Nodes)]]
    BY <2>1, SetHandlerType
  <2>3. givenUp' \subseteq Files
    BY DEF CheckNode, Spare, At, HandlerInv, TypeOK
  <2>. QED BY <2>2, <2>3 DEF CheckNode, TypeOK
<1>2. Mono
  BY DEF TypeOK, Mono, UploadInv, HandlerInv, WorkerInv, BytesGone, CheckNode, SetHandler,
      Goto, At, Spare, Online
<1>3. UploadInv'
  BY DEF TypeOK, UploadInv, RowInv, InTrash, CheckNode, SetHandler, Goto, At, Spare, Online
<1>4. HandlerInv'
  <2>0. PICK f \in condemned : f = handler[h].file
    BY DEF HandlerInv, CheckNode, At
  <2>1. PICK r : r = [pc |-> IF Online(f) THEN "erase" ELSE "queue",
                      file |-> f, todo |-> handler[h].todo]
    OBVIOUS
  <2>2. Online(f) => Accounted(f)'
    BY <2>0 DEF CheckNode, Spare, Accounted
  <2>3. HandlerOK(r)'
    BY <1>2, <2>0, <2>1, <2>2 DEF HandlerOK, Mono
  <2>. QED BY <1>2, <2>0, <2>1, <2>3, HandlerMoves DEF CheckNode, Goto, SetHandler
<1>5. QueueInv'
  <2>1. givenUp' \subseteq condemned'
    BY DEF QueueInv, HandlerInv, CheckNode, Spare, At
  <2>. QED BY <1>2, <2>1 DEF QueueInv, CheckNode, Mono
<1>. QED BY <1>1, <1>2, <1>3, <1>4, <1>5, Undisturbed DEF CheckNode, SetHandler, Goto, At, Spare,
      Online

\* QueueDeletion preserves the inductive invariant.
LEMMA QueueDeletionStep ==
  ASSUME IInv, NEW h \in Handlers, QueueDeletion(h)
  PROVE  IInv' /\ Mono
<1>. USE TrashAssumption DEF IInv, dbVars, nodeVars, monVars, procVars, history
<1>0. PICK f \in condemned : /\ f \in Files
                            /\ f = handler[h].file
                            /\ Enqueue(f, "owner")
  BY DEF QueueDeletion, HandlerInv, At, TypeOK
<1>a. /\ pending' \in [Entries -> {"none", "pending", "completed"}]
      /\ \A e \in Entries : \/ pending'[e] = pending[e]
                            \/ e = <<f, "owner">> /\ pending'[e] = "pending"
      /\ givenUp' = givenUp \/ givenUp' = givenUp \cup {f}
      /\ pending'[<<f, "owner">>] = "pending" \/ f \in givenUp'
  BY <1>0, EnqueueEffect DEF Deleters
<1>1. TypeOK'
  <2>1. PICK todo \in SUBSET (Files \cup Nodes) : SetHandler(h, "erase", f, todo)
    BY <1>0 DEF QueueDeletion, Goto, TypeOK
  <2>2. handler' \in [Handlers -> [pc : HandlerPcs, file : Files \cup {None},
                                  todo : SUBSET (Files \cup Nodes)]]
    BY <1>0, <2>1, SetHandlerType DEF HandlerPcs
  <2>. QED BY <1>0, <1>a, <2>2 DEF QueueDeletion, TypeOK
<1>2. Mono
  BY <1>a DEF Mono, BytesGone, QueueDeletion
<1>3. UploadInv'
  BY DEF TypeOK, UploadInv, RowInv, InTrash, QueueDeletion, Enqueue, SetHandler, Goto, At,
      Entries, Deleters
<1>4. QueueInv'
  BY <1>0, <1>a DEF QueueInv, BytesGone, QueueDeletion
<1>5. HandlerInv'
  <2>1. PICK r : r = [pc |-> "erase", file |-> f, todo |-> handler[h].todo]
    OBVIOUS
  <2>2. Accounted(f)'
    BY <1>a DEF Accounted, Deleters, QueueDeletion
  <2>3. HandlerOK(r)'
    BY <1>2, <2>1, <2>2 DEF HandlerOK, Mono
  <2>. QED BY <1>0, <1>2, <2>1, <2>3, HandlerMoves DEF QueueDeletion, Goto, SetHandler
<1>. QED BY <1>1, <1>2, <1>3, <1>4, <1>5, Undisturbed DEF QueueDeletion, Enqueue,
      SetHandler, Goto, At, Entries, Deleters

\* Erase preserves the inductive invariant.
LEMMA EraseStep ==
  ASSUME IInv, NEW h \in Handlers, NEW erased \in BOOLEAN, Erase(h, erased)
  PROVE  IInv' /\ Mono
<1>. USE TrashAssumption DEF IInv, dbVars, nodeVars, monVars, procVars, history
<1>1. TypeOK'
  BY DEF TypeOK, HandlerPcs, InTrash, Erase, DeleteRow, NextFile, At, Idle
<1>2. Mono
  BY DEF TypeOK, Mono, UploadInv, HandlerInv, WorkerInv, BytesGone, Erase, DeleteRow,
      NextFile, At, Idle
<1>3. UploadInv'
  BY DEF TypeOK, UploadInv, RowInv, InTrash, Erase, DeleteRow, NextFile, At, Idle
<1>4. RowInv'
  BY DEF TypeOK, RowInv, UploadInv, InTrash, Erase, DeleteRow, NextFile, At, Idle
<1>5. HandlerInv'
  BY <1>2, AccountedMono DEF TypeOK, HandlerInv, Mono, BytesGone, Erase, DeleteRow,
      NextFile, At, Idle
<1>. QED BY <1>1, <1>2, <1>3, <1>4, <1>5, Undisturbed DEF Erase, DeleteRow, NextFile, At,
      Idle

\* BeginDirect preserves the inductive invariant.
LEMMA BeginDirectStep ==
  ASSUME IInv, NEW h \in Handlers, NEW f \in Files, BeginDirect(h, f)
  PROVE  IInv' /\ Mono
<1>. USE TrashAssumption DEF IInv, dbVars, nodeVars, monVars, procVars, history
<1>1. TypeOK'
  BY DEF TypeOK, HandlerPcs, InTrash, BeginDirect, SetHandler, At, Uploading
<1>2. Mono
  BY DEF TypeOK, Mono, UploadInv, HandlerInv, WorkerInv, BytesGone, BeginDirect,
      SetHandler, At, Uploading
<1>3. UploadInv'
  BY DEF TypeOK, UploadInv, RowInv, InTrash, BeginDirect, SetHandler, At, Uploading
<1>4. RowInv'
  BY DEF TypeOK, RowInv, UploadInv, InTrash, BeginDirect, SetHandler, At, Uploading
<1>5. BytesInv'
  BY DEF TypeOK, BytesInv, HandlerInv, WorkerInv, BytesGone, BeginDirect, SetHandler, At,
      Uploading
<1>6. HandlerInv'
  BY <1>2, AccountedMono DEF TypeOK, HandlerInv, Mono, BytesGone, BeginDirect, SetHandler,
      At, Uploading
<1>. QED BY <1>1, <1>2, <1>3, <1>4, <1>5, <1>6, Undisturbed DEF BeginDirect, SetHandler,
      At, Uploading

\* DirectCall preserves the inductive invariant.
LEMMA DirectCallStep ==
  ASSUME IInv, NEW h \in Handlers, DirectCall(h)
  PROVE  IInv' /\ Mono
<1>. USE TrashAssumption DEF IInv, dbVars, nodeVars, monVars, procVars, history
<1>1. TypeOK'
  <2>1. PICK file \in Files \cup {None}, todo \in SUBSET (Files \cup Nodes) :
          file = handler[h].file /\ todo = handler[h].todo
    BY DEF TypeOK
  <2>2. PICK o : /\ Unlink(file, primary[file], o)
                 /\ \/ SetHandler(h, "dforget", file, todo)
                    \/ SetHandler(h, "idle", None, {})
    BY <2>1 DEF DirectCall, Goto, Done, Idle, SetHandler
  <2>3. "dforget" \in HandlerPcs /\ "idle" \in HandlerPcs
    BY DEF HandlerPcs
  <2>4. handler' \in [Handlers -> [pc : HandlerPcs, file : Files \cup {None},
                                  todo : SUBSET (Files \cup Nodes)]]
    BY <2>2, <2>3, SetHandlerType
  <2>5. copies' \in [Files -> SUBSET Nodes]
    BY <2>2, UnlinkType
  <2>. QED BY <2>4, <2>5 DEF DirectCall, TypeOK
<1>2. Mono
  BY DEF TypeOK, Mono, UploadInv, HandlerInv, WorkerInv, BytesGone, DirectCall, SetHandler,
      Goto, Done, Idle, At, DeleteOutcomes, Outcomes, Unlink, CarriedOut, Answered
<1>3. UploadInv'
  <2>1. PICK r : r.pc # "send" /\ handler' = [handler EXCEPT ![h] = r]
    BY DEF DirectCall, SetHandler, Goto, Done, Idle
  <2>2. \A g \in Files : Uploading(g) => g \notin condemned' /\ rows'[g] = rows[g]
    BY DEF UploadInv, DirectCall, Uploading
  <2>. QED BY <2>1, <2>2, UploadMoves
<1>4. BytesInv'
  BY DEF TypeOK, BytesInv, HandlerInv, WorkerInv, BytesGone, DirectCall, SetHandler, Goto,
      Done, Idle, At, DeleteOutcomes, Outcomes, Unlink, CarriedOut, Answered
<1>5. HandlerInv'
  <2>1. CASE handler' = [handler EXCEPT ![h] = Idle]
    <3>1. HandlerOK(Idle)'
      BY DEF HandlerOK, Idle
    <3>. QED BY <1>2, <2>1, <3>1, HandlerMoves
  <2>2. CASE handler' # [handler EXCEPT ![h] = Idle]
    <3>1. PICK f \in condemned : f = handler[h].file
      BY DEF DirectCall, HandlerInv, At
    <3>2. PICK r : r = [pc |-> "dforget", file |-> f, todo |-> handler[h].todo]
      OBVIOUS
    <3>3. handler' = [handler EXCEPT ![h] = r] /\ \E o \in DeleteOutcomes(f) :
            Answered(o) /\ Unlink(f, primary[f], o)
      BY <2>2, <3>1, <3>2 DEF DirectCall, Goto, Done, SetHandler
    <3>4. f \in Files /\ UNCHANGED primary /\ copies \in [Files -> SUBSET Nodes]
      BY <3>1 DEF DirectCall, TypeOK
    <3>5. BytesGone(f)'
      BY <3>3, <3>4 DEF BytesGone, Unlink, CarriedOut, Answered
    <3>6. HandlerOK(r)'
      BY <1>2, <3>1, <3>2, <3>5 DEF HandlerOK, Mono
    <3>. QED BY <1>2, <3>3, <3>6, HandlerMoves
  <2>. QED BY <2>1, <2>2
<1>. QED BY <1>1, <1>2, <1>3, <1>4, <1>5, Undisturbed DEF DirectCall, SetHandler, Goto,
      Done, Idle, At, DeleteOutcomes, Outcomes, Unlink, CarriedOut, Answered

\* DirectForget preserves the inductive invariant.
LEMMA DirectForgetStep ==
  ASSUME IInv, NEW h \in Handlers, NEW erased \in BOOLEAN, DirectForget(h, erased)
  PROVE  IInv' /\ Mono
<1>. USE TrashAssumption DEF IInv, dbVars, nodeVars, monVars, procVars, history
<1>1. TypeOK'
  BY DEF TypeOK, HandlerPcs, InTrash, DirectForget, DeleteRow, Done, Idle, At
<1>2. Mono
  BY DEF TypeOK, Mono, UploadInv, HandlerInv, WorkerInv, BytesGone, DirectForget,
      DeleteRow, Done, Idle, At
<1>3. UploadInv'
  BY DEF TypeOK, UploadInv, RowInv, InTrash, DirectForget, DeleteRow, Done, Idle, At
<1>4. RowInv'
  BY DEF TypeOK, RowInv, UploadInv, InTrash, DirectForget, DeleteRow, Done, Idle, At
<1>5. HandlerInv'
  BY <1>2, AccountedMono DEF TypeOK, HandlerInv, Mono, BytesGone, DirectForget, DeleteRow,
      Done, Idle, At
<1>. QED BY <1>1, <1>2, <1>3, <1>4, <1>5, Undisturbed DEF DirectForget, DeleteRow, Done,
      Idle, At

\* CleanSelect preserves the inductive invariant.
LEMMA CleanSelectStep ==
  ASSUME IInv, CleanSelect
  PROVE  IInv' /\ Mono
<1>. USE TrashAssumption DEF IInv, dbVars, nodeVars, monVars, procVars, history
<1>1. TypeOK'
  BY DEF TypeOK, HandlerPcs, InTrash, CleanSelect, Expired
<1>2. Mono
  BY DEF TypeOK, Mono, UploadInv, HandlerInv, WorkerInv, BytesGone, CleanSelect, Expired
<1>3. UploadInv'
  BY DEF TypeOK, UploadInv, RowInv, InTrash, CleanSelect, Expired, At
<1>4. RowInv'
  BY DEF TypeOK, RowInv, UploadInv, InTrash, CleanSelect, Expired, At
<1>5. BytesInv'
  BY DEF TypeOK, BytesInv, HandlerInv, WorkerInv, BytesGone, CleanSelect, Expired
<1>6. CleanerInv'
  BY <1>2, AccountedMono DEF TypeOK, CleanerInv, Mono, BytesGone, CleanSelect, Expired
<1>. QED BY <1>1, <1>2, <1>3, <1>4, <1>5, <1>6, Undisturbed DEF CleanSelect, Expired

\* CleanFolder preserves the inductive invariant.
LEMMA CleanFolderStep ==
  ASSUME IInv, NEW F \in SUBSET Foldered, CleanFolder(F)
  PROVE  IInv' /\ Mono
<1>. USE TrashAssumption DEF IInv, dbVars, nodeVars, monVars, procVars, history
<1>1. TypeOK'
  BY DEF TypeOK, CleanFolder
<1>2. Mono
  BY DEF TypeOK, Mono, BytesGone, CleanFolder
<1>3. UploadInv'
  BY DEF TypeOK, UploadInv, CleanFolder, At
<1>4. RowInv'
  BY DEF TypeOK, RowInv, CleanFolder
<1>5. BytesInv'
  BY DEF TypeOK, BytesInv, BytesGone, CleanFolder
<1>6. CleanerInv'
  BY <1>2, AccountedMono DEF TypeOK, CleanerInv, Mono, CleanFolder
<1>. QED BY <1>1, <1>2, <1>3, <1>4, <1>5, <1>6, Undisturbed DEF CleanFolder

\* CleanPick preserves the inductive invariant.
LEMMA CleanPickStep ==
  ASSUME IInv, NEW f \in Files, CleanPick(f)
  PROVE  IInv' /\ Mono
<1>. USE TrashAssumption DEF IInv, dbVars, nodeVars, monVars, procVars, history
<1>1. TypeOK'
  BY DEF TypeOK, HandlerPcs, InTrash, CleanPick, Spare, Online
<1>2. Mono
  BY DEF TypeOK, Mono, UploadInv, HandlerInv, WorkerInv, BytesGone, CleanPick, Spare,
      Online
<1>3. CleanerInv'
  <2>1. f \in condemned
    BY DEF CleanerInv, CleanPick
  <2>2. Online(f) => f \in givenUp'
    BY DEF CleanPick, Spare
  <2>3. Online(f) => Accounted(f)'
    BY <2>2 DEF Accounted
  <2>. QED BY <1>2, <2>1, <2>3 DEF CleanerInv, CleanPick, Mono, TypeOK
<1>4. QueueInv'
  <2>1. givenUp' \subseteq condemned'
    BY DEF QueueInv, CleanerInv, CleanPick, Spare
  <2>. QED BY <1>2, <2>1 DEF QueueInv, CleanPick, Mono
<1>. QED BY <1>1, <1>2, <1>3, <1>4, Undisturbed DEF CleanPick, Spare, Online

\* CleanQueue preserves the inductive invariant.
LEMMA CleanQueueStep ==
  ASSUME IInv, CleanQueue
  PROVE  IInv' /\ Mono
<1>. USE TrashAssumption DEF IInv, dbVars, nodeVars, monVars, procVars, history
<1>0. PICK f \in condemned : /\ f \in Files
                            /\ f = cleaner.file
                            /\ Enqueue(f, "cleanup")
  BY DEF CleanQueue, CleanerInv, TypeOK
<1>a. /\ pending' \in [Entries -> {"none", "pending", "completed"}]
      /\ \A e \in Entries : \/ pending'[e] = pending[e]
                            \/ e = <<f, "cleanup">> /\ pending'[e] = "pending"
      /\ givenUp' = givenUp \/ givenUp' = givenUp \cup {f}
      /\ pending'[<<f, "cleanup">>] = "pending" \/ f \in givenUp'
  BY <1>0, EnqueueEffect DEF Deleters
<1>1. TypeOK'
  BY <1>0, <1>a DEF TypeOK, CleanQueue
<1>2. Mono
  BY <1>a DEF Mono, BytesGone, CleanQueue
<1>3. QueueInv'
  BY <1>0, <1>a DEF QueueInv, BytesGone, CleanQueue
<1>4. CleanerInv'
  <2>1. Accounted(f)'
    BY <1>a DEF Accounted, Deleters, CleanQueue
  <2>. QED BY <1>0, <1>2, <2>1 DEF CleanerInv, CleanQueue, Mono, TypeOK
<1>. QED BY <1>1, <1>2, <1>3, <1>4, Undisturbed DEF CleanQueue, Enqueue, Entries, Deleters

\* CleanErase preserves the inductive invariant.
LEMMA CleanEraseStep ==
  ASSUME IInv, NEW erased \in BOOLEAN, CleanErase(erased)
  PROVE  IInv' /\ Mono
<1>. USE TrashAssumption DEF IInv, dbVars, nodeVars, monVars, procVars, history
<1>1. TypeOK'
  BY DEF TypeOK, HandlerPcs, InTrash, CleanErase, DeleteRow, Idle
<1>2. Mono
  BY DEF TypeOK, Mono, UploadInv, HandlerInv, WorkerInv, BytesGone, CleanErase, DeleteRow,
      Idle
<1>3. UploadInv'
  BY DEF TypeOK, UploadInv, RowInv, InTrash, CleanErase, DeleteRow, Idle, At
<1>4. RowInv'
  BY DEF TypeOK, RowInv, UploadInv, InTrash, CleanErase, DeleteRow, Idle, At
<1>5. CleanerInv'
  BY <1>2, AccountedMono DEF TypeOK, CleanerInv, Mono, BytesGone, CleanErase, DeleteRow,
      Idle
<1>. QED BY <1>1, <1>2, <1>3, <1>4, <1>5, Undisturbed DEF CleanErase, DeleteRow, Idle

\* MonitorCheck preserves the inductive invariant.
LEMMA MonitorCheckStep ==
  ASSUME IInv, NEW n \in Nodes, NEW healthy \in BOOLEAN, MonitorCheck(n, healthy)
  PROVE  IInv' /\ Mono
<1>. USE TrashAssumption DEF IInv, dbVars, nodeVars, monVars, procVars, history
<1>1. TypeOK'
  <2>1. CASE healthy /\ WasOffline(n)
    <3>1. PICK todo \in SUBSET Entries, deleted \in Entries \cup {None} :
            SetWorker(n, TRUE, todo, deleted)
      BY <2>1 DEF MonitorCheck, TypeOK
    <3>2. worker' \in [Nodes -> [started : BOOLEAN, todo : SUBSET Entries,
                                deleted : Entries \cup {None}]]
      BY <3>1 DEF SetWorker, TypeOK
    <3>. QED BY <3>2 DEF MonitorCheck, TypeOK
  <2>2. CASE ~ (healthy /\ WasOffline(n))
    BY <2>2 DEF MonitorCheck, TypeOK
  <2>. QED BY <2>1, <2>2
<1>2. Mono
  BY DEF TypeOK, Mono, UploadInv, HandlerInv, WorkerInv, BytesGone, MonitorCheck,
      WasOffline, SetWorker
<1>3. WorkerInv'
  BY <1>2 DEF TypeOK, WorkerInv, QueueInv, Mono, BytesGone, MonitorCheck, WasOffline,
      SetWorker
<1>. QED BY <1>1, <1>2, <1>3, Undisturbed DEF MonitorCheck, WasOffline, SetWorker

\* WorkerSelect preserves the inductive invariant.
LEMMA WorkerSelectStep ==
  ASSUME IInv, NEW n \in Nodes, WorkerSelect(n)
  PROVE  IInv' /\ Mono
<1>. USE TrashAssumption DEF IInv, dbVars, nodeVars, monVars, procVars, history
<1>1. TypeOK'
  BY DEF TypeOK, HandlerPcs, InTrash, WorkerSelect, SetWorker
<1>2. Mono
  BY DEF TypeOK, Mono, UploadInv, HandlerInv, WorkerInv, BytesGone, WorkerSelect, SetWorker
<1>3. WorkerInv'
  BY <1>2 DEF TypeOK, WorkerInv, QueueInv, Mono, BytesGone, WorkerSelect, SetWorker
<1>. QED BY <1>1, <1>2, <1>3, Undisturbed DEF WorkerSelect, SetWorker

\* WorkerDelete preserves the inductive invariant.
LEMMA WorkerDeleteStep ==
  ASSUME IInv, NEW n \in Nodes, NEW e \in Entries, WorkerDelete(n, e)
  PROVE  IInv' /\ Mono
<1>. USE TrashAssumption DEF IInv, dbVars, nodeVars, monVars, procVars, history
<1>1. TypeOK'
  BY DEF TypeOK, HandlerPcs, InTrash, WorkerDelete, SetWorker, Outcomes, Unlink,
      CarriedOut, Answered, Entries
<1>2. Mono
  BY DEF TypeOK, Mono, UploadInv, HandlerInv, WorkerInv, BytesGone, WorkerDelete,
      SetWorker, Outcomes, Unlink, CarriedOut, Answered, Entries
<1>3. BytesInv'
  BY DEF TypeOK, BytesInv, HandlerInv, WorkerInv, BytesGone, WorkerDelete, SetWorker,
      Outcomes, Unlink, CarriedOut, Answered, Entries
<1>4. WorkerInv'
  BY <1>2 DEF TypeOK, WorkerInv, QueueInv, Mono, BytesGone, WorkerDelete, SetWorker,
      Outcomes, Unlink, CarriedOut, Answered, Entries
<1>. QED BY <1>1, <1>2, <1>3, <1>4, Undisturbed DEF WorkerDelete, SetWorker, Outcomes,
      Unlink, CarriedOut, Answered, Entries

\* WorkerComplete preserves the inductive invariant.
LEMMA WorkerCompleteStep ==
  ASSUME IInv, NEW n \in Nodes, NEW updated \in BOOLEAN,
         WorkerComplete(n, updated)
  PROVE  IInv' /\ Mono
<1>. USE TrashAssumption DEF IInv, dbVars, nodeVars, monVars, procVars, history
<1>1. TypeOK'
  BY DEF TypeOK, HandlerPcs, InTrash, WorkerComplete, SetWorker
<1>2. Mono
  BY DEF TypeOK, Mono, UploadInv, HandlerInv, WorkerInv, BytesGone, WorkerComplete,
      SetWorker
<1>3. QueueInv'
  BY <1>2 DEF TypeOK, QueueInv, Mono, HandlerInv, CleanerInv, WorkerInv, WorkerComplete,
      SetWorker
<1>4. WorkerInv'
  BY <1>2 DEF TypeOK, WorkerInv, QueueInv, Mono, BytesGone, WorkerComplete, SetWorker
<1>. QED BY <1>1, <1>2, <1>3, <1>4, Undisturbed DEF WorkerComplete, SetWorker

\* Age preserves the inductive invariant.
LEMMA AgeStep ==
  ASSUME IInv, NEW f \in Files, Age(f)
  PROVE  IInv' /\ Mono
<1>. USE TrashAssumption DEF IInv, dbVars, nodeVars, monVars, procVars, history
<1>1. TypeOK'
  BY DEF TypeOK, HandlerPcs, InTrash, Age, InTrash
<1>2. Mono
  BY DEF TypeOK, Mono, UploadInv, HandlerInv, WorkerInv, BytesGone, Age, InTrash
<1>3. UploadInv'
  BY DEF TypeOK, UploadInv, RowInv, InTrash, Age, InTrash, At
<1>4. RowInv'
  BY DEF TypeOK, RowInv, UploadInv, InTrash, Age, InTrash, At
<1>. QED BY <1>1, <1>2, <1>3, <1>4, Undisturbed DEF Age, InTrash

\* Restart preserves the inductive invariant.
LEMMA RestartStep ==
  ASSUME IInv, Restart
  PROVE  IInv' /\ Mono
<1>. USE TrashAssumption DEF IInv, dbVars, nodeVars, monVars, procVars, history
<1>1. TypeOK'
  BY DEF TypeOK, HandlerPcs, InTrash, Restart, Disrupt, Uploading, At, Idle, NoWorker
<1>2. Mono
  BY DEF TypeOK, Mono, UploadInv, HandlerInv, WorkerInv, BytesGone, Restart, Disrupt,
      Uploading, At, Idle, NoWorker
<1>3. UploadInv'
  BY DEF TypeOK, UploadInv, RowInv, InTrash, Restart, Disrupt, Uploading, At, Idle,
      NoWorker
<1>4. RowInv'
  BY DEF TypeOK, RowInv, UploadInv, InTrash, Restart, Disrupt, Uploading, At, Idle,
      NoWorker
<1>5. BytesInv'
  BY DEF TypeOK, BytesInv, HandlerInv, WorkerInv, BytesGone, Restart, Disrupt, Uploading,
      At, Idle, NoWorker
<1>6. WorkerInv'
  BY <1>2 DEF TypeOK, WorkerInv, QueueInv, Mono, BytesGone, Restart, Disrupt, Uploading,
      At, Idle, NoWorker
<1>7. HandlerInv'
  BY <1>2, AccountedMono DEF TypeOK, HandlerInv, Mono, BytesGone, Restart, Disrupt,
      Uploading, At, Idle, NoWorker
<1>8. CleanerInv'
  BY <1>2, AccountedMono DEF TypeOK, CleanerInv, Mono, BytesGone, Restart, Disrupt,
      Uploading, At, Idle, NoWorker
<1>. QED BY <1>1, <1>2, <1>3, <1>4, <1>5, <1>6, <1>7, <1>8, Undisturbed DEF Restart,
      Disrupt, Uploading, At, Idle, NoWorker

\* The steps that change no variable IInv relates to another: is_active, the
\* favorites, the nodes that run, the endpoints; and stuttering.
LEMMA EnvironmentStep ==
  ASSUME IInv,
         \/ MonitorUpdate
         \/ \E f \in Files : AddFavorite(f) \/ RemoveFavorite(f)
         \/ \E n \in Nodes : NodeDown(n) \/ NodeUp(n)
         \/ \E n \in Nodes, isActive \in BOOLEAN : SetActive(n, isActive)
         \/ UNCHANGED vars
  PROVE  IInv' /\ Mono
<1>. USE TrashAssumption
     DEF IInv, vars, dbVars, nodeVars, monVars, procVars, history
<1>1. TypeOK'
  <2>1. CASE MonitorUpdate
    BY <2>1 DEF TypeOK, MonitorUpdate
  <2>2. CASE \E f \in Files : AddFavorite(f) \/ RemoveFavorite(f)
    BY <2>2 DEF TypeOK, AddFavorite, RemoveFavorite
  <2>3. CASE \E n \in Nodes : NodeDown(n) \/ NodeUp(n)
    BY <2>3 DEF TypeOK, NodeDown, NodeUp, Disrupt
  <2>4. CASE \E n \in Nodes, isActive \in BOOLEAN : SetActive(n, isActive)
    BY <2>4 DEF TypeOK, SetActive, Disrupt
  <2>5. CASE UNCHANGED vars
    BY <2>5 DEF TypeOK
  <2>. QED BY <2>1, <2>2, <2>3, <2>4, <2>5
<1>2. UNCHANGED <<rows, primary, pending, copies, worker, procVars, history>>
  BY DEF MonitorUpdate, AddFavorite, RemoveFavorite, NodeDown, NodeUp, SetActive
<1>3. Mono
  BY <1>2 DEF Mono, BytesGone
<1>. QED BY <1>1, <1>2, <1>3, Undisturbed

-----------------------------------------------------------------------------
(* The theorems. *)

\* Every step keeps the invariant, and takes nothing back.
LEMMA StepKeeps ==
  ASSUME IInv, [Next]_vars PROVE IInv' /\ Mono
<1>1. CASE \E h \in Handlers : UploadStep(h)
  BY <1>1, BeginUploadStep, SendCopyStep, FinishUploadStep DEF UploadStep
<1>2. CASE \E h \in Handlers : TrashStep(h)
  BY <1>2, BeginTrashStep, BeginRestoreStep, CommitTrashStep, CommitRestoreStep
  DEF TrashStep
<1>3. CASE \E h \in Handlers : PurgeStep(h)
  BY <1>3, BeginPurgeStep, SelectFileStep, CallNodeStep, CheckNodeStep,
     QueueDeletionStep, ForgetStep, EraseStep DEF PurgeStep
<1>4. CASE \E h \in Handlers : DirectStep(h)
  BY <1>4, BeginDirectStep, DirectCallStep, DirectForgetStep DEF DirectStep
<1>5. CASE CleanStep
  BY <1>5, CleanSelectStep, CleanFolderStep, CleanPickStep, CleanQueueStep, CleanEraseStep DEF CleanStep
<1>6. CASE \E n \in Nodes : MonitorStep(n) \/ WorkerStep(n)
  BY <1>6, MonitorCheckStep, WorkerSelectStep, WorkerDeleteStep, WorkerCompleteStep
  DEF MonitorStep, WorkerStep
<1>7. CASE \E f \in Files : Age(f)
  BY <1>7, AgeStep
<1>8. CASE Restart
  BY <1>8, RestartStep
<1>. QED BY <1>1, <1>2, <1>3, <1>4, <1>5, <1>6, <1>7, <1>8, EnvironmentStep DEF Next

\* The inductive invariant: who may be at a file, and where its bytes are
\* accounted for, in every state the controller reaches.
THEOREM Invariant == Spec => []IInv
<1>1. IInv /\ [Next]_vars => IInv'
  BY StepKeeps
<1>. QED BY InitIInv, <1>1, PTL DEF Spec

\* Every variable keeps its type.
THEOREM TypeCorrect == Spec => []TypeOK
<1>1. IInv => TypeOK
  BY DEF IInv
<1>. QED BY <1>1, Invariant, PTL

\* The bytes of a file with a row are missing from its node only after a
\* permanent deletion of that file was begun.
THEOREM DataLossNeedsDeletion == Spec => []OnlyCondemnedLoseData
<1>1. IInv => OnlyCondemnedLoseData
  BY DEF IInv, RowInv, BytesInv, OnlyCondemnedLoseData
<1>. QED BY <1>1, Invariant, PTL

\* A row of pending_deletions is completed only when the bytes are gone.
THEOREM QueueTellsTheTruth == Spec => []CompletedMeansGone
<1>1. IInv => CompletedMeansGone
  BY DEF IInv, QueueInv, CompletedMeansGone
<1>. QED BY <1>1, Invariant, PTL

\* The steps that write the files table.
RowStep ==
  \/ \E h \in Handlers, stored \in BOOLEAN : FinishUpload(h, stored)
  \/ \E h \in Handlers : CommitTrash(h) \/ CommitRestore(h)
  \/ \E h \in Handlers, erased \in BOOLEAN :
       Forget(h, erased) \/ Erase(h, erased) \/ DirectForget(h, erased)
  \/ \E erased \in BOOLEAN : CleanErase(erased)
  \/ \E f \in Files : Age(f)

\* No other step writes the files table.
LEMMA OnlyRowSteps ==
  ASSUME [Next]_vars PROVE RowStep \/ UNCHANGED rows
<1>. USE DEF vars, dbVars, nodeVars, monVars, procVars, history
<1>1. CASE \E h \in Handlers : UploadStep(h)
  BY <1>1 DEF RowStep, UploadStep, BeginUpload, SendCopy
<1>2. CASE \E h \in Handlers : TrashStep(h)
  BY <1>2 DEF RowStep, TrashStep, BeginTrash, BeginRestore
<1>3. CASE \E h \in Handlers : PurgeStep(h)
  BY <1>3 DEF RowStep, PurgeStep, BeginPurge, SelectFile, CallNode, CheckNode, QueueDeletion
<1>4. CASE \E h \in Handlers : DirectStep(h)
  BY <1>4 DEF RowStep, DirectStep, BeginDirect, DirectCall
<1>5. CASE CleanStep
  BY <1>5 DEF RowStep, CleanStep, CleanSelect, CleanFolder, CleanPick, CleanQueue
<1>6. CASE \E n \in Nodes : MonitorStep(n) \/ WorkerStep(n)
  BY <1>6 DEF MonitorStep, WorkerStep, MonitorCheck, WorkerSelect, WorkerDelete, WorkerComplete
<1>7. CASE \E f \in Files : AddFavorite(f) \/ RemoveFavorite(f) \/ Age(f)
  BY <1>7 DEF RowStep, AddFavorite, RemoveFavorite
<1>8. CASE \/ MonitorUpdate \/ Restart
           \/ \E n \in Nodes : NodeDown(n) \/ NodeUp(n)
           \/ \E n \in Nodes, isActive \in BOOLEAN : SetActive(n, isActive)
  BY <1>8 DEF MonitorUpdate, Restart, NodeDown, NodeUp, SetActive
<1>9. CASE UNCHANGED vars
  BY <1>9
<1>. QED BY <1>1, <1>2, <1>3, <1>4, <1>5, <1>6, <1>7, <1>8, <1>9 DEF Next

\* What every change of rows does.
RowsKept ==
  /\ \A f \in Files : rows[f] # "none" /\ rows'[f] = "none" => Accounted(f)
  /\ \A f \in condemned : rows[f] = "none" => rows'[f] = "none"

\* A step that writes the files table keeps both action properties.
LEMMA RowStepKeeps ==
  ASSUME IInv, RowStep PROVE RowsKept
<1>. USE DEF IInv, TypeOK, RowsKept
<1>1. ASSUME NEW h \in Handlers, NEW stored \in BOOLEAN, FinishUpload(h, stored)
      PROVE  RowsKept
  BY <1>1 DEF FinishUpload, UploadInv, At
<1>2. ASSUME NEW h \in Handlers, CommitTrash(h) \/ CommitRestore(h)
      PROVE  RowsKept
  BY <1>2 DEF CommitTrash, CommitRestore, SetRow
<1>3. ASSUME NEW h \in Handlers, NEW erased \in BOOLEAN,
             Forget(h, erased) \/ Erase(h, erased) \/ DirectForget(h, erased)
      PROVE  RowsKept
  BY <1>3 DEF Forget, Erase, DirectForget, DeleteRow, HandlerInv, At, Accounted
<1>4. ASSUME NEW erased \in BOOLEAN, CleanErase(erased)
      PROVE  RowsKept
  BY <1>4 DEF CleanErase, DeleteRow, CleanerInv
<1>5. ASSUME NEW f \in Files, Age(f)
      PROVE  RowsKept
  BY <1>5 DEF Age
<1>. QED BY <1>1, <1>2, <1>3, <1>4, <1>5 DEF RowStep

\* Every step does.
LEMMA StepKeepsRows ==
  ASSUME IInv, [Next]_vars PROVE RowsKept
<1>1. CASE RowStep
  BY <1>1, RowStepKeeps
<1>2. CASE UNCHANGED rows
  BY <1>2 DEF RowsKept
<1>. QED BY <1>1, <1>2, OnlyRowSteps

\* No row of files is deleted while its bytes are unaccounted for.
THEOREM ForgettingIsAccounted == Spec => NoSilentForget
<1>1. IInv /\ [Next]_vars
        => [\A f \in Files : rows[f] # "none" /\ rows'[f] = "none" => Accounted(f)]_vars
  BY StepKeepsRows DEF RowsKept
<1>. QED BY <1>1, Invariant, PTL DEF Spec, NoSilentForget

\* A row that a permanent deletion removed never comes back.
THEOREM DeletionIsFinal == Spec => NoResurrection
<1>1. IInv /\ [Next]_vars
        => [\A f \in condemned : rows[f] = "none" => rows'[f] = "none"]_vars
  BY StepKeepsRows DEF RowsKept
<1>. QED BY <1>1, Invariant, PTL DEF Spec, NoResurrection

\* An untouched file stays in the table, where only the trash is open to it.
LEMMA UntouchedRow ==
  ASSUME IInv, [Next]_vars, NEW f \in Files, Untouched(f)
  PROVE  rows'[f] = "live" \/ rows'[f] \in InTrash
<1>. USE DEF IInv, TypeOK, InTrash, Untouched, Deletion
<1>1. ASSUME NEW h \in Handlers, NEW stored \in BOOLEAN, FinishUpload(h, stored)
      PROVE  rows'[f] = "live"
  BY <1>1 DEF FinishUpload
<1>2. ASSUME NEW h \in Handlers, CommitTrash(h) \/ CommitRestore(h)
      PROVE  rows'[f] \in {"live", "trashed"}
  BY <1>2 DEF CommitTrash, CommitRestore, SetRow
<1>3. ASSUME NEW h \in Handlers, NEW erased \in BOOLEAN,
             Forget(h, erased) \/ Erase(h, erased) \/ DirectForget(h, erased)
      PROVE  rows'[f] = "live"
  BY <1>3 DEF Forget, Erase, DirectForget, DeleteRow, At
<1>4. ASSUME NEW erased \in BOOLEAN, CleanErase(erased)
      PROVE  rows'[f] = "live"
  BY <1>4 DEF CleanErase, DeleteRow
<1>5. ASSUME NEW g \in Files, Age(g)
      PROVE  rows'[f] = "live"
  BY <1>5 DEF Age
<1>. QED BY <1>1, <1>2, <1>3, <1>4, <1>5, OnlyRowSteps DEF RowStep

\* The steps that may change where the bytes are, or what names their place.
BytesStep ==
  \/ \E h \in Handlers, n \in Nodes : SendCopy(h, n)
  \/ \E h \in Handlers : CallNode(h) \/ DirectCall(h)
  \/ \E n \in Nodes, e \in Entries : WorkerDelete(n, e)
  \/ Restart

\* No other step does.
LEMMA OnlyBytesSteps ==
  ASSUME [Next]_vars PROVE BytesStep \/ UNCHANGED <<primary, copies>>
<1>. USE DEF vars, dbVars, nodeVars, monVars, procVars, history
<1>1. CASE \E h \in Handlers : UploadStep(h)
  BY <1>1 DEF BytesStep, UploadStep, BeginUpload, FinishUpload
<1>2. CASE \E h \in Handlers : TrashStep(h)
  BY <1>2 DEF TrashStep, BeginTrash, BeginRestore, CommitTrash, CommitRestore
<1>3. CASE \E h \in Handlers : PurgeStep(h)
  BY <1>3 DEF BytesStep, PurgeStep, BeginPurge, SelectFile, CheckNode, QueueDeletion, Forget,
      Erase
<1>4. CASE \E h \in Handlers : DirectStep(h)
  BY <1>4 DEF BytesStep, DirectStep, BeginDirect, DirectForget
<1>5. CASE CleanStep
  BY <1>5 DEF CleanStep, CleanSelect, CleanFolder, CleanPick, CleanQueue, CleanErase
<1>6. CASE \E n \in Nodes : MonitorStep(n) \/ WorkerStep(n)
  BY <1>6 DEF BytesStep, MonitorStep, WorkerStep, MonitorCheck, WorkerSelect, WorkerComplete
<1>7. CASE \E f \in Files : AddFavorite(f) \/ RemoveFavorite(f) \/ Age(f)
  BY <1>7 DEF AddFavorite, RemoveFavorite, Age
<1>8. CASE \/ MonitorUpdate \/ Restart
           \/ \E n \in Nodes : NodeDown(n) \/ NodeUp(n)
           \/ \E n \in Nodes, isActive \in BOOLEAN : SetActive(n, isActive)
  BY <1>8 DEF BytesStep, MonitorUpdate, NodeDown, NodeUp, SetActive
<1>9. CASE UNCHANGED vars
  BY <1>9
<1>. QED BY <1>1, <1>2, <1>3, <1>4, <1>5, <1>6, <1>7, <1>8, <1>9 DEF Next

\* An untouched file keeps its bytes.
LEMMA UntouchedBytes ==
  ASSUME IInv, [Next]_vars, NEW f \in Files, Untouched(f)
  PROVE  ~ BytesGone(f)'
<1>. USE DEF IInv, TypeOK, Untouched, BytesGone, Deletion
<1>1. ASSUME NEW h \in Handlers, NEW n \in Nodes, SendCopy(h, n)
      PROVE  ~ BytesGone(f)'
  BY <1>1 DEF SendCopy, Store, UploadInv, At
<1>2. ASSUME NEW h \in Handlers, CallNode(h) \/ DirectCall(h)
      PROVE  ~ BytesGone(f)'
  BY <1>2 DEF CallNode, DirectCall, Unlink, At, dbVars
<1>3. ASSUME NEW n \in Nodes, NEW e \in Entries, WorkerDelete(n, e)
      PROVE  ~ BytesGone(f)'
  <2>1. PICK g \in Files, d \in Deleters : e = <<g, d>>
    BY DEF Entries
  <2>2. g # f /\ e[1] = g
    BY <1>3, <2>1 DEF WorkerDelete
  <2>. QED BY <1>3, <2>2 DEF WorkerDelete, Unlink, dbVars
<1>4. CASE Restart
  BY <1>4 DEF Restart, Uploading, UploadInv, At, nodeVars
<1>5. CASE UNCHANGED <<primary, copies>>
  BY <1>5
<1>. QED BY <1>1, <1>2, <1>3, <1>4, <1>5, OnlyBytesSteps DEF BytesStep

\* A deletion holds the file, or one on the node has just begun.
Held(f) == \E h \in Handlers : handler[h].pc \in Deletion /\ handler[h].file = f

Direct(f) == \E h \in Handlers : handler[h].pc = "dcall" /\ handler[h].file = f

\* When one handler moves to something else, no handler holds the file.
LEMMA StillFree ==
  ASSUME TypeOK, NEW f, ~ Held(f), NEW h \in Handlers, NEW r,
         handler' = [handler EXCEPT ![h] = r], r.pc \in Deletion => r.file # f
  PROVE  ~ Held(f)'
  BY DEF TypeOK, Held

\* No handler but a direct deletion gets hold of an untouched file.
LEMMA UntouchedHandlers ==
  ASSUME IInv, [Next]_vars, NEW f \in Files, Untouched(f)
  PROVE  Direct(f)' \/ ~ Held(f)'
<1>. USE TrashAssumption
     DEF IInv, TypeOK, Untouched, Deletion, Held, Direct, At, SetHandler, Goto, Done, NextFile,
         Idle, vars, dbVars, nodeVars, monVars, procVars, history
<1>1. ASSUME NEW h \in Handlers, UploadStep(h)
      PROVE  ~ Held(f)'
  BY <1>1 DEF UploadStep, BeginUpload, SendCopy, FinishUpload
<1>2. ASSUME NEW h \in Handlers, TrashStep(h)
      PROVE  ~ Held(f)'
  BY <1>2 DEF TrashStep, BeginTrash, BeginRestore, CommitTrash, CommitRestore
<1>3. ASSUME NEW h \in Handlers, PurgeStep(h)
      PROVE  ~ Held(f)'
  <2>1. CASE \E F \in SUBSET Files : BeginPurge(h, F)
    BY <2>1 DEF BeginPurge
  <2>2. ASSUME NEW g \in Files, SelectFile(h, g)
        PROVE  ~ Held(f)'
    <3>1. CASE rows[g] \in InTrash
      <4>1. g # f
        BY <3>1 DEF InTrash
      <4>. QED BY <2>2, <3>1, <4>1, StillFree DEF SelectFile
    <3>2. CASE rows[g] \notin InTrash
      <4>. DEFINE r == IF handler[h].todo \ {g} = {} THEN Idle
                       ELSE [pc |-> "select", file |-> None, todo |-> handler[h].todo \ {g}]
      <4>1. handler' = [handler EXCEPT ![h] = r]
        BY <2>2, <3>2 DEF SelectFile
      <4>2. r.pc \notin Deletion
        OBVIOUS
      <4>. HIDE DEF r
      <4>. QED BY <4>1, <4>2, StillFree
    <3>. QED BY <3>1, <3>2
  <2>3. ASSUME CallNode(h) \/ CheckNode(h) \/ QueueDeletion(h)
        PROVE  ~ Held(f)'
    <3>1. handler[h].pc \in Deletion
      BY <2>3 DEF CallNode, CheckNode, QueueDeletion
    <3>2. PICK pc : Goto(h, pc)
      BY <2>3 DEF CallNode, CheckNode, QueueDeletion
    <3>. QED BY <3>1, <3>2, StillFree
  <2>4. CASE \E erased \in BOOLEAN : Forget(h, erased) \/ Erase(h, erased)
    BY <2>4 DEF Forget, Erase
  <2>. QED BY <1>3, <2>1, <2>2, <2>3, <2>4 DEF PurgeStep
<1>4. ASSUME NEW h \in Handlers, DirectStep(h)
      PROVE  Direct(f)' \/ ~ Held(f)'
  BY <1>4 DEF DirectStep, BeginDirect, DirectCall, DirectForget
<1>5. CASE CleanStep
  BY <1>5 DEF CleanStep, CleanSelect, CleanFolder, CleanPick, CleanQueue, CleanErase
<1>6. CASE \E n \in Nodes : MonitorStep(n) \/ WorkerStep(n)
  BY <1>6 DEF MonitorStep, WorkerStep, MonitorCheck, WorkerSelect, WorkerDelete, WorkerComplete
<1>7. CASE \E g \in Files : AddFavorite(g) \/ RemoveFavorite(g) \/ Age(g)
  BY <1>7 DEF AddFavorite, RemoveFavorite, Age
<1>8. CASE \/ MonitorUpdate \/ Restart
           \/ \E n \in Nodes : NodeDown(n) \/ NodeUp(n)
           \/ \E n \in Nodes, isActive \in BOOLEAN : SetActive(n, isActive)
  BY <1>8 DEF MonitorUpdate, Restart, NodeDown, NodeUp, SetActive
<1>9. CASE UNCHANGED vars
  BY <1>9
<1>. QED BY <1>1, <1>2, <1>3, <1>4, <1>5, <1>6, <1>7, <1>8, <1>9 DEF Next

\* Neither the cleanup, nor the queue, nor a worker does.
LEMMA UntouchedServices ==
  ASSUME IInv, [Next]_vars, NEW f \in Files, Untouched(f)
  PROVE  /\ cleaner'.file # f
         /\ f \notin cleaner'.todo \/ f \in Foldered
         /\ \A d \in Deleters : pending'[<<f, d>>] # "pending"
         /\ \A n \in Nodes, d \in Deleters : <<f, d>> \notin worker'[n].todo
<1>. USE TrashAssumption
     DEF IInv, TypeOK, Untouched, Deletion, At, Idle, vars, dbVars, nodeVars, monVars, procVars,
         history
<1>. DEFINE Free == /\ cleaner'.file # f
                    /\ f \notin cleaner'.todo \/ f \in Foldered
                    /\ \A d \in Deleters : pending'[<<f, d>>] # "pending"
                    /\ \A n \in Nodes, d \in Deleters : <<f, d>> \notin worker'[n].todo
<1>. SUFFICES Free
  OBVIOUS
<1>1. UNCHANGED <<cleaner, pending, worker>> => Free
  OBVIOUS
<1>2. ASSUME NEW h \in Handlers, QueueDeletion(h)
      PROVE  Free
  <2>1. handler[h].file # f /\ handler[h].file \in Files
    BY <1>2 DEF QueueDeletion, HandlerInv, Deleters
  <2>3. Enqueue(handler[h].file, "owner") /\ "owner" \in Deleters
    BY <1>2 DEF QueueDeletion, Deleters
  <2>4. \A e \in Entries : pending'[e] = pending[e] \/ e = <<handler[h].file, "owner">>
    <3>. HIDE DEF TypeOK
    <3>1. TypeOK
      BY DEF IInv
    <3>. QED BY <2>1, <2>3, <3>1, EnqueueEffect
  <2>2. \A d \in Deleters : pending'[<<f, d>>] = pending[<<f, d>>]
    BY <2>1, <2>4 DEF Entries
  <2>. QED BY <1>2, <2>2 DEF QueueDeletion
<1>3. CASE CleanSelect \/ \E g \in Files : CleanPick(g)
  BY <1>3 DEF CleanSelect, CleanPick, Expired
<1>19. ASSUME NEW F \in SUBSET Foldered, CleanFolder(F)
       PROVE  Free
  BY <1>19 DEF CleanFolder
<1>4. CASE CleanQueue
  <2>1. cleaner.file # f /\ cleaner.file \in Files
    BY <1>4 DEF CleanQueue, CleanerInv
  <2>3. Enqueue(cleaner.file, "cleanup") /\ "cleanup" \in Deleters
    BY <1>4 DEF CleanQueue, Deleters
  <2>4. \A e \in Entries : pending'[e] = pending[e] \/ e = <<cleaner.file, "cleanup">>
    <3>. HIDE DEF TypeOK
    <3>1. TypeOK
      BY DEF IInv
    <3>. QED BY <2>1, <2>3, <3>1, EnqueueEffect
  <2>2. \A d \in Deleters : pending'[<<f, d>>] = pending[<<f, d>>]
    BY <2>1, <2>4 DEF Entries
  <2>. QED BY <1>4, <2>2 DEF CleanQueue
<1>5. CASE \E erased \in BOOLEAN : CleanErase(erased)
  BY <1>5 DEF CleanErase
<1>6. ASSUME NEW n \in Nodes, WorkerSelect(n)
      PROVE  Free
  BY <1>6 DEF WorkerSelect, SetWorker, Entries
<1>7. ASSUME NEW n \in Nodes, NEW healthy \in BOOLEAN, MonitorCheck(n, healthy)
      PROVE  Free
  BY <1>7 DEF MonitorCheck, SetWorker
<1>8. ASSUME NEW n \in Nodes, NEW e \in Entries, WorkerDelete(n, e)
      PROVE  Free
  BY <1>8 DEF WorkerDelete, SetWorker
<1>9. ASSUME NEW n \in Nodes, NEW updated \in BOOLEAN, WorkerComplete(n, updated)
      PROVE  Free
  <2>1. \A d \in Deleters : pending'[<<f, d>>] # "pending"
    BY <1>9 DEF WorkerComplete, Entries
  <2>. QED BY <1>9, <2>1 DEF WorkerComplete, SetWorker
<1>10. CASE Restart
  BY <1>10 DEF Restart, NoWorker
<1>. HIDE DEF Free
<1>11. CASE \E h \in Handlers : UploadStep(h)
  BY <1>11, <1>1 DEF UploadStep, BeginUpload, SendCopy, FinishUpload
<1>12. CASE \E h \in Handlers : TrashStep(h)
  BY <1>12, <1>1 DEF TrashStep, BeginTrash, BeginRestore, CommitTrash, CommitRestore
<1>13. CASE \E h \in Handlers : PurgeStep(h)
  BY <1>13, <1>1, <1>2 DEF PurgeStep, BeginPurge, SelectFile, CallNode, CheckNode, Forget, Erase
<1>14. CASE \E h \in Handlers : DirectStep(h)
  BY <1>14, <1>1 DEF DirectStep, BeginDirect, DirectCall, DirectForget
<1>15. CASE CleanStep
  BY <1>15, <1>3, <1>19, <1>4, <1>5 DEF CleanStep
<1>16. CASE \E n \in Nodes : MonitorStep(n) \/ WorkerStep(n)
  BY <1>16, <1>6, <1>7, <1>8, <1>9 DEF MonitorStep, WorkerStep
<1>17. CASE \/ MonitorUpdate
            \/ \E g \in Files : AddFavorite(g) \/ RemoveFavorite(g) \/ Age(g)
            \/ \E n \in Nodes : NodeDown(n) \/ NodeUp(n)
            \/ \E n \in Nodes, isActive \in BOOLEAN : SetActive(n, isActive)
  BY <1>17, <1>1 DEF MonitorUpdate, AddFavorite, RemoveFavorite, Age, NodeDown, NodeUp, SetActive
<1>18. CASE UNCHANGED vars
  BY <1>18, <1>1
<1>. QED BY <1>10, <1>11, <1>12, <1>13, <1>14, <1>15, <1>16, <1>17, <1>18 DEF Next

\* A live file that no deletion holds stays, with its bytes, until it is
\* trashed again, deleted on the node by its owner, or listed with its folder.
THEOREM RestoredStays == Spec => UntouchedStays
<1>1. ASSUME IInv, [Next]_vars, NEW f \in Files, Untouched(f)
      PROVE  \/ Untouched(f)' \/ rows'[f] \in InTrash \/ Direct(f)'
             \/ f \in Foldered \cap cleaner'.todo
  BY <1>1, UntouchedRow, UntouchedBytes, UntouchedHandlers, UntouchedServices
  DEF Untouched, Held
<1>2. IInv /\ [Next]_vars
        => [\A f \in Files : Untouched(f) =>
              \/ Untouched(f)'
              \/ rows'[f] \in InTrash
              \/ \E h \in Handlers : handler'[h].pc = "dcall" /\ handler'[h].file = f
              \/ f \in Foldered \cap cleaner'.todo]_vars
  BY <1>1 DEF Direct
<1>. QED BY <1>2, Invariant, PTL DEF Spec, UntouchedStays

-----------------------------------------------------------------------------
(* The refinement of FileFate *)

LEMMA FateFits ==
  ASSUME TypeOK', NEW f \in Files
  PROVE  FateOf(f)' \in Fate!Fates
<1>1. RowOf(f)' \in {"none", "live", "trash"}
  BY DEF RowOf, TypeOK, InTrash
<1>2. BytesOf(f)' \in {"none", "kept", "gone"} /\ DeletionOf(f)' \in {"no", "begun", "givenUp", "settled"}
  BY DEF BytesOf, DeletionOf
<1>. QED BY <1>1, <1>2 DEF FateOf, Fate!Fates

\* Two fates with the same parts are the same.
LEMMA SameFate ==
  ASSUME NEW f, RowOf(f)' = RowOf(f), BytesOf(f)' = BytesOf(f), DeletionOf(f)' = DeletionOf(f)
  PROVE  FateOf(f)' = FateOf(f)
BY DEF FateOf

\* What the fate of a file is before its deletion, by the invariant.
LEMMA FateBefore ==
  ASSUME TrashAssumption, IInv, NEW f \in Files
  PROVE  /\ f \notin condemned => DeletionOf(f) = "no"
         /\ f \in condemned => /\ DeletionOf(f) = IF BytesGone(f) \/ Queued(f) THEN "settled"
                                                  ELSE IF f \in givenUp THEN "givenUp" ELSE "begun"
                               /\ DeletionOf(f) \in {"settled", "givenUp"} <=> Accounted(f)
                               /\ BytesOf(f) = IF BytesGone(f) THEN "gone" ELSE "kept"
         /\ f \notin condemned => BytesOf(f) = IF primary[f] = None THEN "none" ELSE "kept"
         /\ rows[f] # "none" => BytesOf(f) # "none" /\ RowOf(f) # "none"
         /\ rows[f] = "none" => RowOf(f) = "none"
BY DEF DeletionOf, BytesOf, RowOf, IInv, RowInv, BytesInv, InTrash, Accounted, Queued

\* A step that writes the files table changes the row of a file in a way that
\* its life allows.
LEMMA RowMoves ==
  ASSUME IInv, RowStep, NEW f \in Files
  PROVE  /\ UNCHANGED <<primary, copies, condemned, pending, givenUp>>
         /\ rows[f] = "none" => rows'[f] \in {"none", "live"}
         /\ rows[f] # "none" /\ rows'[f] = "none" => f \in condemned
<1>. USE DEF IInv, TypeOK, InTrash, nodeVars, history
<1>1. ASSUME NEW h \in Handlers, NEW stored \in BOOLEAN, FinishUpload(h, stored)
      PROVE  /\ UNCHANGED <<primary, copies, condemned, pending, givenUp>>
             /\ rows[f] = "none" => rows'[f] \in {"none", "live"}
             /\ rows[f] # "none" => rows'[f] # "none"
  BY <1>1 DEF FinishUpload
<1>2. ASSUME NEW h \in Handlers, CommitTrash(h) \/ CommitRestore(h)
      PROVE  /\ UNCHANGED <<primary, copies, condemned, pending, givenUp>>
             /\ rows[f] = "none" => rows'[f] = "none"
             /\ rows[f] # "none" => rows'[f] # "none"
  BY <1>2 DEF CommitTrash, CommitRestore, SetRow
<1>3. ASSUME NEW h \in Handlers, NEW erased \in BOOLEAN,
             Forget(h, erased) \/ Erase(h, erased) \/ DirectForget(h, erased)
      PROVE  /\ UNCHANGED <<primary, copies, condemned, pending, givenUp>>
             /\ rows[f] = "none" => rows'[f] = "none"
             /\ rows[f] # "none" /\ rows'[f] = "none" => f \in condemned
  BY <1>3 DEF Forget, Erase, DirectForget, DeleteRow, HandlerInv, At
<1>4. ASSUME NEW erased \in BOOLEAN, CleanErase(erased)
      PROVE  /\ UNCHANGED <<primary, copies, condemned, pending, givenUp>>
             /\ rows[f] = "none" => rows'[f] = "none"
             /\ rows[f] # "none" /\ rows'[f] = "none" => f \in condemned
  BY <1>4 DEF CleanErase, DeleteRow, CleanerInv
<1>5. ASSUME NEW g \in Files, Age(g)
      PROVE  /\ UNCHANGED <<primary, copies, condemned, pending, givenUp>>
             /\ rows[f] = "none" => rows'[f] = "none"
             /\ rows[f] # "none" => rows'[f] # "none"
  BY <1>5 DEF Age
<1>. QED BY <1>1, <1>2, <1>3, <1>4, <1>5 DEF RowStep

LEMMA RowFate ==
  ASSUME TrashAssumption, IInv, IInv', RowStep, NEW f \in Files
  PROVE  FateOf(f)' = FateOf(f) \/ Fate!Step(FateOf(f), FateOf(f)')
<1>. DEFINE x == FateOf(f)
            y == FateOf(f)'
<1>1. BytesOf(f)' = BytesOf(f) /\ DeletionOf(f)' = DeletionOf(f)
  BY RowMoves DEF BytesOf, DeletionOf, Queued, BytesGone
<1>2. y = [x EXCEPT !.row = RowOf(f)']
  BY <1>1 DEF FateOf
<1>3. RowOf(f)' \in {"none", "live", "trash"} /\ x.row = RowOf(f)
  <2>1. TypeOK'
    BY DEF IInv
  <2>. QED BY <2>1 DEF RowOf, TypeOK, InTrash, FateOf
<1>4. CASE rows[f] = "none" /\ rows'[f] = "none"
  BY <1>1, <1>4, SameFate DEF RowOf
<1>5. CASE rows[f] = "none" /\ rows'[f] # "none"
  <2>1. rows'[f] = "live" /\ f \notin condemned /\ primary'[f] = primary[f]
    BY <1>5, RowMoves, RowStepKeeps DEF RowsKept
  <2>2. primary[f] # None
    BY <1>5, <2>1 DEF IInv, RowInv
  <2>3. x.row = "none" /\ x.bytes = "kept" /\ x.deletion = "no"
    BY <1>5, <2>1, <2>2, FateBefore DEF FateOf
  <2>4. RowOf(f)' = "live"
    BY <2>1 DEF RowOf, InTrash
  <2>. QED BY <1>2, <2>3, <2>4 DEF Fate!Step, Fate!Record, Fate!Uploaded
<1>6. CASE rows[f] # "none" /\ rows'[f] # "none"
  <2>1. x.row # "none"
    BY <1>3, <1>6, FateBefore
  <2>2. RowOf(f)' # "none"
    BY <1>6 DEF RowOf
  <2>. QED BY <1>2, <1>3, <2>1, <2>2 DEF Fate!Step, Fate!Move
<1>7. CASE rows[f] # "none" /\ rows'[f] = "none"
  <2>1. f \in condemned /\ Accounted(f)
    BY <1>7, RowMoves, RowStepKeeps DEF RowsKept
  <2>2. x.row # "none" /\ x.deletion \in {"settled", "givenUp"}
    BY <1>7, <2>1, FateBefore DEF FateOf
  <2>3. RowOf(f)' = "none"
    BY <1>7 DEF RowOf, InTrash
  <2>. QED BY <1>2, <2>2, <2>3 DEF Fate!Step, Fate!Forget
<1>. QED BY <1>4, <1>5, <1>6, <1>7

\* A node that is asked to delete a file drops the bytes of a condemned one.
LEMMA UnlinkFate ==
  ASSUME TrashAssumption, IInv, IInv', Mono, UNCHANGED <<rows, primary, condemned, pending, givenUp>>,
         NEW f \in Files, f \notin condemned => copies'[f] = copies[f]
  PROVE  FateOf(f)' = FateOf(f) \/ Fate!Step(FateOf(f), FateOf(f)')
<1>1. RowOf(f)' = RowOf(f)
  BY DEF RowOf
<1>2. CASE BytesGone(f)' <=> BytesGone(f)
  <2>1. BytesOf(f)' = BytesOf(f) /\ DeletionOf(f)' = DeletionOf(f)
    BY <1>2 DEF BytesOf, DeletionOf, Queued
  <2>. QED BY <1>1, <2>1, SameFate
<1>3. CASE ~ (BytesGone(f)' <=> BytesGone(f))
  <2>1. f \in condemned /\ ~ BytesGone(f) /\ BytesGone(f)' /\ f \in condemned'
    BY <1>3 DEF Mono, BytesGone
  <2>2. BytesOf(f) = "kept" /\ DeletionOf(f) # "no"
    BY <2>1, FateBefore
  <2>3. BytesOf(f)' = "gone" /\ DeletionOf(f)' = "settled"
    <3>1. primary'[f] # None
      BY <2>1 DEF IInv, RowInv
    <3>. QED BY <2>1, <3>1 DEF BytesOf, DeletionOf, Queued
  <2>4. FateOf(f)' = [row |-> FateOf(f).row, bytes |-> "gone", deletion |-> "settled"]
    BY <1>1, <2>3 DEF FateOf
  <2>5. FateOf(f).deletion # "no" /\ FateOf(f).bytes = "kept"
    BY <2>2 DEF FateOf
  <2>. QED BY <2>4, <2>5 DEF Fate!Step, Fate!Unlink
<1>. QED BY <1>2, <1>3

LEMMA SendFate ==
  ASSUME TrashAssumption, IInv, IInv', NEW h \in Handlers, NEW n \in Nodes, SendCopy(h, n), NEW f \in Files
  PROVE  FateOf(f)' = FateOf(f) \/ Fate!Step(FateOf(f), FateOf(f)')
<1>1. UNCHANGED <<rows, condemned, pending, givenUp>>
  BY DEF SendCopy, history
<1>2. RowOf(f)' = RowOf(f)
  BY <1>1 DEF RowOf
<1>3. CASE f # handler[h].file
  <2>1. copies'[f] = copies[f] /\ primary'[f] = primary[f]
    BY <1>3 DEF SendCopy, Store, IInv, TypeOK
  <2>2. BytesOf(f)' = BytesOf(f) /\ DeletionOf(f)' = DeletionOf(f)
    BY <1>1, <2>1 DEF BytesOf, DeletionOf, Queued, BytesGone
  <2>. QED BY <1>2, <2>2, SameFate
<1>4. CASE f = handler[h].file
  <2>1. f \notin condemned /\ rows[f] = "none" /\ f \notin condemned'
    BY <1>1, <1>4 DEF SendCopy, IInv, UploadInv
  <2>2. DeletionOf(f) = "no" /\ DeletionOf(f)' = "no" /\ RowOf(f) = "none"
    BY <2>1, FateBefore DEF DeletionOf
  <2>3. CASE primary'[f] = primary[f]
    <3>1. BytesOf(f)' = BytesOf(f)
      BY <2>1, <2>3 DEF BytesOf, IInv, BytesInv
    <3>. QED BY <1>2, <2>2, <3>1, SameFate
  <2>4. CASE primary'[f] # primary[f]
    <3>1. primary[f] = None /\ primary'[f] = n
      BY <1>4, <2>4 DEF SendCopy, IInv, TypeOK
    <3>2. n # None
      BY DEF TrashAssumption
    <3>3. BytesOf(f) = "none" /\ BytesOf(f)' = "kept"
      BY <2>1, <3>1, <3>2 DEF BytesOf, IInv, BytesInv
    <3>. QED BY <1>2, <2>2, <3>3 DEF FateOf, Fate!Step, Fate!Keep, Fate!Unborn
  <2>. QED BY <2>3, <2>4
<1>. QED BY <1>3, <1>4

LEMMA RestartFate ==
  ASSUME TrashAssumption, IInv, Restart, NEW f \in Files
  PROVE  FateOf(f)' = FateOf(f) \/ Fate!Step(FateOf(f), FateOf(f)')
<1>1. UNCHANGED <<rows, condemned, pending, givenUp, copies>>
  BY DEF Restart, history, nodeVars
<1>2. RowOf(f)' = RowOf(f)
  BY <1>1 DEF RowOf
<1>3. CASE primary'[f] = primary[f]
  <2>1. BytesOf(f)' = BytesOf(f) /\ DeletionOf(f)' = DeletionOf(f)
    BY <1>1, <1>3 DEF BytesOf, DeletionOf, Queued, BytesGone
  <2>. QED BY <1>2, <2>1, SameFate
<1>4. CASE primary'[f] # primary[f]
  <2>1. Uploading(f) /\ primary'[f] = None
    BY <1>4 DEF Restart
  <2>2. f \notin condemned /\ rows[f] = "none"
    BY <2>1 DEF Uploading, IInv, UploadInv
  <2>3. BytesOf(f) = "kept" /\ DeletionOf(f) = "no" /\ RowOf(f) = "none"
    BY <1>4, <2>1, <2>2, FateBefore
  <2>4. BytesOf(f)' = "none" /\ DeletionOf(f)' = "no"
    BY <1>1, <2>1, <2>2 DEF BytesOf, DeletionOf
  <2>. QED BY <1>2, <2>3, <2>4 DEF FateOf, Fate!Step, Fate!Abandon, Fate!Uploaded
<1>. QED BY <1>3, <1>4

LEMMA BytesFate ==
  ASSUME TrashAssumption, IInv, IInv', Mono, BytesStep, NEW f \in Files
  PROVE  FateOf(f)' = FateOf(f) \/ Fate!Step(FateOf(f), FateOf(f)')
<1>1. ASSUME NEW h \in Handlers, CallNode(h) \/ DirectCall(h)
      PROVE  /\ UNCHANGED <<rows, primary, condemned, pending, givenUp>>
             /\ f \notin condemned => copies'[f] = copies[f]
  BY <1>1 DEF CallNode, DirectCall, Unlink, At, dbVars, history, IInv, TypeOK, HandlerInv
<1>2. ASSUME NEW n \in Nodes, NEW e \in Entries, WorkerDelete(n, e)
      PROVE  /\ UNCHANGED <<rows, primary, condemned, pending, givenUp>>
             /\ f \notin condemned => copies'[f] = copies[f]
  BY <1>2 DEF WorkerDelete, Unlink, dbVars, history, IInv, TypeOK, WorkerInv
<1>. QED BY <1>1, <1>2, UnlinkFate, SendFate, RestartFate DEF BytesStep

\* A step that begins a deletion is a look at a table, or at a node: it queues
\* nothing and gives nothing up.
LEMMA BeginsOnly ==
  ASSUME [Next]_vars
  PROVE  condemned' = condemned \/ UNCHANGED <<pending, givenUp>>
<1>. USE DEF dbVars, nodeVars, monVars, procVars, history
<1>1. ASSUME NEW h \in Handlers, UploadStep(h) \/ TrashStep(h)
      PROVE  UNCHANGED condemned
  BY <1>1 DEF UploadStep, BeginUpload, SendCopy, FinishUpload, TrashStep, BeginTrash, BeginRestore,
         CommitTrash, CommitRestore
<1>2. ASSUME NEW h \in Handlers, PurgeStep(h)
      PROVE  condemned' = condemned \/ UNCHANGED <<pending, givenUp>>
  BY <1>2 DEF PurgeStep, BeginPurge, SelectFile, CallNode, CheckNode, QueueDeletion, Forget, Erase
<1>3. ASSUME NEW h \in Handlers, DirectStep(h)
      PROVE  condemned' = condemned \/ UNCHANGED <<pending, givenUp>>
  BY <1>3 DEF DirectStep, BeginDirect, DirectCall, DirectForget
<1>4. CASE CleanStep
  BY <1>4 DEF CleanStep, CleanSelect, CleanFolder, CleanPick, CleanQueue, CleanErase
<1>5. CASE \E n \in Nodes : MonitorStep(n) \/ WorkerStep(n)
  BY <1>5 DEF MonitorStep, MonitorCheck, WorkerStep, WorkerSelect, WorkerDelete, WorkerComplete
<1>6. CASE \/ MonitorUpdate \/ Restart
           \/ \E f \in Files : AddFavorite(f) \/ RemoveFavorite(f) \/ Age(f)
           \/ \E n \in Nodes : NodeDown(n) \/ NodeUp(n)
           \/ \E n \in Nodes, isActive \in BOOLEAN : SetActive(n, isActive)
  BY <1>6 DEF MonitorUpdate, Restart, AddFavorite, RemoveFavorite, Age, NodeDown, NodeUp, SetActive
<1>7. CASE UNCHANGED vars
  BY <1>7 DEF vars
<1>. QED BY <1>1, <1>2, <1>3, <1>4, <1>5, <1>6, <1>7 DEF Next

\* What leaves rows and bytes alone begins a deletion at most, gives it up, or
\* settles it.
LEMMA DeletionFate ==
  ASSUME TrashAssumption, IInv, IInv', Mono, UNCHANGED <<rows, primary, copies>>,
         condemned' = condemned \/ UNCHANGED <<pending, givenUp>>, NEW f \in Files
  PROVE  FateOf(f)' = FateOf(f) \/ Fate!Step(FateOf(f), FateOf(f)')
<1>1. RowOf(f)' = RowOf(f) /\ BytesOf(f)' = BytesOf(f)
  BY DEF RowOf, BytesOf, BytesGone
<1>2. CASE DeletionOf(f)' = DeletionOf(f)
  BY <1>1, <1>2, SameFate
<1>3. CASE DeletionOf(f)' # DeletionOf(f) /\ f \in condemned
  <2>1. f \in condemned' /\ BytesGone(f)' = BytesGone(f)
    BY <1>3 DEF Mono, BytesGone
  <2>2. (Queued(f) => Queued(f)') /\ (f \in givenUp => f \in givenUp')
    BY DEF Mono, Queued, Entries
  <2>3. CASE Queued(f)' /\ ~ Queued(f)
    <3>1. DeletionOf(f) \in {"begun", "givenUp"} /\ DeletionOf(f)' = "settled"
      BY <1>3, <2>1, <2>3 DEF DeletionOf
    <3>. QED BY <1>1, <3>1 DEF FateOf, Fate!Step, Fate!Settle
  <2>4. CASE Queued(f)' <=> Queued(f)
    <3>1. DeletionOf(f) = "begun" /\ DeletionOf(f)' = "givenUp"
      BY <1>3, <2>1, <2>2, <2>4 DEF DeletionOf
    <3>. QED BY <1>1, <3>1 DEF FateOf, Fate!Step, Fate!GiveUp
  <2>. QED BY <2>2, <2>3, <2>4
<1>4. CASE DeletionOf(f)' # DeletionOf(f) /\ f \notin condemned
  <2>1. f \in condemned' /\ DeletionOf(f) = "no"
    BY <1>4 DEF DeletionOf
  <2>2. primary[f] # None
    BY <2>1 DEF IInv, RowInv
  <2>3. BytesOf(f) = "kept" /\ ~ BytesGone(f)'
    BY <1>4, <2>2, FateBefore DEF IInv, BytesInv, BytesGone
  <2>4. UNCHANGED <<pending, givenUp>>
    BY <1>4, <2>1
  <2>5. ~ Queued(f)' /\ f \notin givenUp'
    <3>1. QueueInv
      BY DEF IInv
    <3>2. ASSUME NEW d \in Deleters
          PROVE  pending[<<f, d>>] = "none"
      <4>1. <<f, d>> \in Entries /\ <<f, d>>[1] = f
        BY DEF Entries
      <4>. QED BY <1>4, <3>1, <4>1 DEF QueueInv
    <3>. QED BY <1>4, <2>4, <3>1, <3>2 DEF QueueInv, Queued
  <2>6. DeletionOf(f)' = "begun"
    BY <2>1, <2>3, <2>5 DEF DeletionOf
  <2>. QED BY <1>1, <2>1, <2>3, <2>6 DEF FateOf, Fate!Step, Fate!Doom
<1>. QED BY <1>2, <1>3, <1>4

\* The controller implements FileFate: every step of it, whoever takes it, is
\* one that the life of each file allows, or leaves that file's fate alone.
THEOREM Refinement == Spec => EveryFileHasOneLife
<1>1. Init => Fate!Init
  BY DEF Init, Fate!Init, Fate!Unborn, FateOf, RowOf, BytesOf, DeletionOf, InTrash
<1>2. ASSUME IInv, IInv', [Next]_vars
      PROVE  Fate!Next
  <2>1. \A f \in Files : FateOf(f)' \in Fate!Fates
    <3>1. TypeOK'
      BY <1>2 DEF IInv
    <3>. QED BY <3>1, FateFits
  <2>2. ASSUME NEW f \in Files
        PROVE  FateOf(f)' = FateOf(f) \/ Fate!Step(FateOf(f), FateOf(f)')
    <3>1. Mono
      BY <1>2, StepKeeps
    <3>. QED BY <1>2, <3>1, TrashAssumption, OnlyRowSteps, OnlyBytesSteps, BeginsOnly,
             RowFate, BytesFate, DeletionFate
  <2>. QED BY <2>1, <2>2 DEF Fate!Next
<1>3. IInv /\ IInv' /\ [Next]_vars => [Fate!Next]_([f \in Files |-> FateOf(f)])
  BY <1>2
<1>. QED BY <1>1, <1>3, Invariant, PTL DEF Spec, EveryFileHasOneLife, Fate!Spec
=============================================================================
