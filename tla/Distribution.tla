--------------------------- MODULE Distribution ---------------------------
(***************************************************************************)
(* Distribution of a file over the storage nodes as the shards of a        *)
(* Reed-Solomon code, and its reconstruction (services/distribution.go,    *)
(* core/erasure, models/file_shard.go, the shard handlers of the nodes).   *)
(*                                                                         *)
(* The module follows one file.  A distribution chooses the code from the  *)
(* number of nodes, sends the shards one by one, saves all its records in  *)
(* one transaction and only then looks whether enough shards arrived.      *)
(* Nothing keeps a file from being distributed again, after a success too, *)
(* when the new shards are written over those that the records name.  A    *)
(* retrieval rebuilds the code from the records that are left and takes    *)
(* what the nodes send.  The calls for the file follow one another.        *)
(*                                                                         *)
(* Available space, the priority of peers and their quota only decide      *)
(* which nodes are eligible, in which order, and how many shards go to     *)
(* peers: those three are inputs of SelectNodes.  Shards are values of     *)
(* their code; the file is larger than the square of its shards' number,   *)
(* so that shards of different codes have different lengths.               *)
(***************************************************************************)
EXTENDS Naturals, FiniteSets

CONSTANTS
  Nodes,
  Peer,          \* a selection that a peer server takes the place of
  Unknown,       \* node_id of the record of a shard that was not stored
  None,
  MaxAttempts    \* bound: calls of DistributeFile for the file

ASSUME DistributionAssumption ==
  /\ IsFiniteSet(Nodes)
  /\ Peer \notin Nodes /\ Unknown \notin Nodes /\ Peer # Unknown
  /\ MaxAttempts \in Nat

VARIABLES
  registered,  \* nodes that have a row in storage_nodes
  job,         \* the latest call of DistributeFile
  held,        \* shards on the disks of the nodes
  records,     \* the file's rows in file_shards; None before they are saved
  overwritten, \* history: shards in whose place a call put none or another
               \* one after the records were saved
  attempts

vars == <<registered, job, held, records, overwritten, attempts>>

-----------------------------------------------------------------------------
(* core/erasure *)

Code(k, m) == [data |-> k, parity |-> m]

DetermineRSParams(n) ==
  CASE n < 3 -> Code(1, 0)
    [] n = 3 -> Code(2, 1)
    [] n = 4 -> Code(3, 1)
    [] n = 5 -> Code(4, 1)
    [] n = 6 -> Code(4, 2)
    [] n = 7 -> Code(5, 2)
    [] n > 7 -> Code(6, 2)

Codes == {DetermineRSParams(n) : n \in 0..8}

Total(code) == code.data + code.parity

Indices(code) == 0..(Total(code) - 1)

Enabled(code) == code.parity > 0

CanRecover(code, n) == n >= IF Enabled(code) THEN code.data ELSE 1

\* mutant: shards of other lengths are not refused
DecodeAny(code, got, sent) ==
  IF ~Enabled(code)
  THEN IF 0 \notin got THEN "error"
       ELSE IF sent[0].data = 1 THEN "right" ELSE "wrong"
  ELSE IF Cardinality(got) < code.data THEN "error"
       ELSE IF \A i \in got : sent[i].data = code.data THEN "right" ELSE "wrong"

(* What Decode returns for the shards in `got', when `sent[i]' is the code *)
(* that shard i was made with.  A code with more parity shards only adds   *)
(* shards; shards of other lengths are refused; a code of fewer data       *)
(* shards gives the file back if its data shards all came, and noise if    *)
(* one was computed; a code of more data shards gives too few bytes.       *)
Decode(code, got, sent) ==
  IF ~Enabled(code)
  THEN IF 0 \notin got THEN "error"
       ELSE IF sent[0].data = 1 THEN "right" ELSE "wrong"
  ELSE IF \/ Cardinality(got) < code.data
          \/ \E i, j \in got : sent[i].data # sent[j].data
       THEN "error"
       ELSE LET k == sent[CHOOSE i \in got : TRUE].data IN
            CASE k = code.data -> "right"
              [] k > code.data -> "error"
              [] k < code.data ->
                   IF Cardinality(got) > code.data THEN "error"
                   ELSE IF 0..(k - 1) \subseteq got THEN "right" ELSE "wrong"

-----------------------------------------------------------------------------
Shard(n, i, code) == [node |-> n, index |-> i, code |-> code]

Shards == [node : Nodes, index : 0..7, code : Codes]

Places == [0..7 -> Nodes \cup {Peer, Unknown, None}]

ASSUME RecordsAssumption == None \notin [code : Codes, node : Places]

NoJob == [pc |-> "idle", code |-> Code(1, 0), plan |-> [i \in 0..7 |-> None],
          next |-> 0, stored |-> {}]

TypeOK ==
  /\ registered \subseteq Nodes
  /\ job \in [pc : {"idle", "send", "save", "done", "failed"}, code : Codes,
              plan : Places, next : 0..8, stored : SUBSET (0..7)]
  /\ held \subseteq Shards
  /\ records \in [code : Codes, node : Places] \cup {None}
  /\ overwritten \subseteq 0..7
  /\ attempts \in 0..MaxAttempts

Init ==
  /\ registered = Nodes
  /\ job = NoJob
  /\ held = {}
  /\ records = None
  /\ overwritten = {}
  /\ attempts = 0

\* mutant: eligibleNodes[0]
SelectionOfFirst(code, order, n, offload) ==
  [i \in 0..7 |-> IF i \in Indices(code) THEN order[0] ELSE None]

(***************************************************************************)
(* SelectNodesForDistribution and considerPeerServerOffload.  `active' is  *)
(* the number of active nodes; `order' the eligible ones, those with most  *)
(* space first; `offload' says whether peers take no shard, up to two      *)
(* parity shards, or all of them.                                          *)
(***************************************************************************)
Selection(code, order, n, offload) ==
  LET taken == {i \in Indices(code) :
                  \/ offload = "all"
                  \/ offload = "parity" /\ i >= code.data /\ i < code.data + 2}
  IN  [i \in 0..7 |-> IF i \notin Indices(code) THEN None
                      ELSE IF i \in taken THEN Peer
                      ELSE order[i % n]]

ParamsFor(active, eligible) ==
  IF eligible < Total(DetermineRSParams(active))
  THEN DetermineRSParams(eligible) ELSE DetermineRSParams(active)

SelectNodes(eligible, active, order, offload) ==
  LET n    == Cardinality(eligible)
      code == ParamsFor(active, n)
  IN  /\ job.pc \notin {"send", "save"}
      /\ attempts < MaxAttempts
      /\ attempts' = attempts + 1
      /\ job' = IF n = 0 THEN [NoJob EXCEPT !.pc = "failed"]
                ELSE [pc |-> "send", code |-> code, next |-> 0, stored |-> {},
                      plan |-> Selection(code, order, n, offload)]
      /\ UNCHANGED <<registered, held, records, overwritten>>

Orders(S) == {f \in [0..(Cardinality(S) - 1) -> S] :
                \A i, j \in DOMAIN f : f[i] = f[j] => i = j}

(***************************************************************************)
(* The loop of DistributeFile, one shard a step.                           *)
(***************************************************************************)
Sent(arrived) ==
  /\ job' = [job EXCEPT !.next = @ + 1,
                        !.stored = IF arrived THEN @ \cup {job.next} ELSE @,
                        !.pc = IF job.next + 1 = Total(job.code) THEN "save" ELSE "send"]
  /\ UNCHANGED <<registered, records, attempts>>

\* The call writes where the records have shard i.
Touches(i) == records # None /\ records.node[i] = job.plan[i]

Same(i) == {s \in held : s.node = job.plan[i] /\ s.index = i}

\* The node writes the shard over one of an earlier call and answers.
UploadShard ==
  /\ job.pc = "send"
  /\ job.plan[job.next] \in Nodes
  /\ held' = (held \ Same(job.next)) \cup {Shard(job.plan[job.next], job.next, job.code)}
  /\ overwritten' = IF Touches(job.next) /\ job.code # records.code
                    THEN overwritten \cup {job.next} ELSE overwritten
  /\ Sent(TRUE)

\* The node does not get the request, or its answer does not come back, or
\* it fails while it writes and removes what is there.
UploadFails ==
  /\ job.pc = "send"
  /\ job.plan[job.next] \in Nodes
  /\ \/ held' = held
     \/ held' = (held \ Same(job.next)) \cup {Shard(job.plan[job.next], job.next, job.code)}
     \/ held' = held \ Same(job.next)
  /\ overwritten' = IF Touches(job.next) THEN overwritten \cup {job.next} ELSE overwritten
  /\ Sent(FALSE)

\* The request names no source server, so the peer refuses every shard.
UploadToPeer ==
  /\ job.pc = "send"
  /\ job.plan[job.next] = Peer
  /\ UNCHANGED <<held, overwritten>>
  /\ Sent(FALSE)

(***************************************************************************)
(* CreateFileShardsInBatch, then the check whether enough shards arrived.  *)
(* The batch fails if the file has records, and, on a connection that      *)
(* enforces foreign keys, if a record names no row of storage_nodes.       *)
(***************************************************************************)
\* mutant: the status stays 'active' and the node the selected one
RecordsOfPlan == [code |-> job.code, node |-> job.plan]

NewRecords ==
  [code |-> job.code,
   node |-> [i \in 0..7 |-> IF i \notin Indices(job.code) THEN None
                            ELSE IF i \in job.stored THEN job.plan[i]
                            ELSE Unknown]]

NamesRows == \A i \in Indices(job.code) : NewRecords.node[i] \in registered

\* mutant: INSERT OR IGNORE
SaveIgnoring(enforced) ==
  /\ job.pc = "save"
  /\ records' = IF records = None THEN NewRecords ELSE records
  /\ job' = IF CanRecover(job.code, Cardinality(job.stored))
            THEN [job EXCEPT !.pc = "done"] ELSE [NoJob EXCEPT !.pc = "failed"]
  /\ UNCHANGED <<registered, held, overwritten, attempts>>

SaveRecords(enforced) ==
  /\ job.pc = "save"
  /\ LET saved == records = None /\ (enforced => NamesRows) IN
     /\ records' = IF saved THEN NewRecords ELSE records
     /\ job' = IF saved /\ CanRecover(job.code, Cardinality(job.stored))
               THEN [job EXCEPT !.pc = "done"]
               ELSE [NoJob EXCEPT !.pc = "failed"]
  /\ UNCHANGED <<registered, held, overwritten, attempts>>

-----------------------------------------------------------------------------
(* RetrieveFile *)

ActiveRecords == {i \in Indices(records.code) : records.node[i] # Unknown}

\* The code as the records with status 'active' make it out to be.
RebuiltParams ==
  LET data == Cardinality({i \in ActiveRecords : i < records.code.data})
  IN  Code(IF data = 0 THEN records.code.data ELSE data,
           Cardinality({i \in ActiveRecords : i >= records.code.data}))

\* Records whose node has a row and a file under the record's path.
Downloadable ==
  {i \in ActiveRecords : records.node[i] \in registered
                         /\ \E s \in held : s.node = records.node[i] /\ s.index = i}

SentCode(i) == (CHOOSE s \in held : s.node = records.node[i] /\ s.index = i).code

\* What RetrieveFile returns when the shards `got' arrive.
RetrieveFile(got) ==
  LET code == RebuiltParams IN
  IF ActiveRecords = {} \/ ~CanRecover(code, Cardinality(ActiveRecords)) THEN "error"
  ELSE IF \E i \in got : i >= Total(code) THEN "panic"
  ELSE Decode(code, got, [i \in got |-> SentCode(i)])

\* An administrator deletes the node's row, over a connection that does not
\* enforce the foreign key if the node has shards.
DeleteStorageNode(n) ==
  /\ n \in registered
  /\ registered' = registered \ {n}
  /\ UNCHANGED <<job, held, records, overwritten, attempts>>

Next ==
  \/ \E eligible \in SUBSET registered :
       \E active \in Cardinality(eligible)..Cardinality(registered),
          order \in Orders(eligible), offload \in {"none", "parity", "all"} :
            SelectNodes(eligible, active, order, offload)
  \/ UploadShard
  \/ UploadFails
  \/ UploadToPeer
  \/ \E enforced \in BOOLEAN : SaveRecords(enforced)
  \/ \E n \in Nodes : DeleteStorageNode(n)

Spec == Init /\ [][Next]_vars

-----------------------------------------------------------------------------
(* Properties *)

Complete == records # None /\ ActiveRecords = Indices(records.code)

\* The records whose shard is on the node they name, in the file's code.
Intact == {i \in ActiveRecords :
             Shard(records.node[i], i, records.code) \in held}

\* A file none of whose shards was lost when it was distributed survives the
\* loss of any set of nodes, together with the shards that later calls of
\* DistributeFile for it overwrote, that is not larger than its parity.  Calls
\* before its records and repetitions in the same code cost it nothing.
SurvivesLoss ==
  Complete =>
    \A D \in SUBSET Nodes :
      Cardinality(D) + Cardinality(overwritten) <= records.code.parity =>
        Cardinality({i \in Intact : records.node[i] \notin D}) >= records.code.data

\* Such a file is read as it was when enough of its nodes answer with its own
\* shards, and with an error when too few do.  One shard of its own is enough
\* for those of another call among them to be refused: never are other bytes
\* returned, whichever nodes answer.
CompleteReadsRight ==
  Complete =>
    \A got \in SUBSET Downloadable :
      /\ got \subseteq Intact =>
           RetrieveFile(got) = IF Cardinality(got) >= records.code.data
                               THEN "right" ELSE "error"
      /\ got \cap Intact # {} => RetrieveFile(got) \in {"right", "error"}

\* A distribution that reports success left its own records, and enough
\* shards of its own code where they say, although an earlier attempt may
\* have left shards under the same paths.
ReportedIsStored ==
  job.pc = "done" =>
    /\ records # None
    /\ records.code = job.code
    /\ ActiveRecords = job.stored
    /\ CanRecover(job.code, Cardinality(Intact))

(* The inductive invariant. *)

\* A node is the place of one shard of a plan at most.
OneShardPerNode ==
  \A i, j \in Indices(job.code) :
    (job.plan[i] \in Nodes /\ job.plan[i] = job.plan[j]) => i = j

\* What was counted as stored is on its node, and was sent before the next one.
StoredIsHeld ==
  \A i \in job.stored :
    /\ i < job.next /\ i \in Indices(job.code)
    /\ job.plan[i] \in Nodes
    /\ Shard(job.plan[i], i, job.code) \in held

\* What the records name as stored is there unless it was overwritten, and the
\* records of a file name a node once.
RecordsHold ==
  records # None =>
    /\ \A i \in ActiveRecords :
         records.node[i] \in Nodes /\ (i \notin overwritten => i \in Intact)
    /\ \A i, j \in ActiveRecords : records.node[i] = records.node[j] => i = j

\* A path on a node holds one file.
OnePerPath ==
  \A s, t \in held : (s.node = t.node /\ s.index = t.index) => s = t

IInv ==
  /\ TypeOK
  /\ OneShardPerNode
  /\ StoredIsHeld
  /\ OnePerPath
  /\ job.pc = "send" => job.next < Total(job.code)
  /\ job.pc = "done" => /\ records = NewRecords
                        /\ CanRecover(job.code, Cardinality(job.stored))
  /\ records = None \/ job.pc = "done" => overwritten = {}
  /\ RecordsHold
=============================================================================
