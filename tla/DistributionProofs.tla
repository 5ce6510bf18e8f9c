------------------------ MODULE DistributionProofs ------------------------
(* Proofs about Distribution, for any finite set of nodes. *)
EXTENDS Distribution, FiniteSetTheorems, TLAPS

\* What the rest needs of the codes.
LEMMA CodeFacts ==
  ASSUME NEW c \in Codes
  PROVE  /\ c.data \in 1..6 /\ c.parity \in 0..2 /\ Total(c) \in 1..8
         /\ c.parity = 0 => c.data = 1
         /\ c = Code(c.data, c.parity)
         /\ Total(c) = c.data + c.parity
BY SMTT(60) DEF Codes, DetermineRSParams, Code, Total

\* The code for a number of nodes is a code, and has no more shards than nodes.
LEMMA ParamsFit ==
  ASSUME NEW n \in Nat
  PROVE  /\ DetermineRSParams(n) \in Codes
         /\ n > 0 => Total(DetermineRSParams(n)) <= n
<1>1. CASE n <= 8
  BY <1>1, SMTT(60) DEF Codes, DetermineRSParams, Code, Total
<1>2. CASE n > 8
  <2>1. DetermineRSParams(n) = DetermineRSParams(8)
    BY <1>2 DEF DetermineRSParams
  <2>. QED BY <1>2, <2>1 DEF Codes, DetermineRSParams, Code, Total
<1>. QED BY <1>1, <1>2

LEMMA ParamsForFit ==
  ASSUME NEW active \in Nat, NEW n \in Nat, n > 0
  PROVE  ParamsFor(active, n) \in Codes /\ Total(ParamsFor(active, n)) <= n
<1>1. Total(DetermineRSParams(active)) \in Nat
  BY ParamsFit, CodeFacts
<1>. QED BY <1>1, ParamsFit DEF ParamsFor

\* A selection assigns no node two shards.
LEMMA SelectionFits ==
  ASSUME DistributionAssumption, NEW S \in SUBSET Nodes,
         NEW order \in Orders(S), NEW code \in Codes, NEW offload,
         Total(code) <= Cardinality(S)
  PROVE  LET plan == Selection(code, order, Cardinality(S), offload) IN
         /\ plan \in Places
         /\ \A i, j \in Indices(code) :
              (plan[i] \in Nodes /\ plan[i] = plan[j]) => i = j
<1>. DEFINE n == Cardinality(S)
            plan == Selection(code, order, n, offload)
<1>1. n \in Nat
  BY FS_CardinalityType, FS_Subset DEF DistributionAssumption
<1>2. \A i \in Indices(code) : i % n = i /\ i \in 0..(n - 1) /\ i \in 0..7
  BY <1>1, CodeFacts DEF Indices
<1>3. \A i \in Indices(code) : order[i] \in Nodes
  BY <1>2 DEF Orders
<1>4. \A i \in Indices(code) : plan[i] \in {Peer, order[i]}
  BY <1>2 DEF Selection
<1>5. plan \in Places
  BY <1>2, <1>3 DEF Selection, Places
<1>6. ASSUME NEW i \in Indices(code), NEW j \in Indices(code),
             plan[i] \in Nodes, plan[i] = plan[j]
      PROVE  i = j
  <2>1. order[i] = order[j]
    BY <1>4, <1>6 DEF DistributionAssumption
  <2>. QED BY <1>2, <2>1 DEF Orders
<1>. QED BY <1>5, <1>6

\* A subset of a code's indices that recovers nothing less than all.
LEMMA IndicesFinite ==
  ASSUME NEW c \in Codes
  PROVE  /\ IsFiniteSet(Indices(c)) /\ Cardinality(Indices(c)) = Total(c)
         /\ Indices(c) \subseteq 0..7
<1>. DEFINE last == Total(c) - 1
<1>1. last \in 0..7 /\ Total(c) = last + 1
  BY CodeFacts
<1>2. IsFiniteSet(0..last) /\ Cardinality(0..last) = last + 1
  BY <1>1, FS_Interval
<1>3. Indices(c) = 0..last /\ 0..last \subseteq 0..7
  BY <1>1 DEF Indices
<1>. QED BY <1>1, <1>2, <1>3

\* The numbers from a on, b of them.
LEMMA CountFrom ==
  ASSUME NEW a \in Nat, NEW b \in Nat
  PROVE  Cardinality(a..(a + b - 1)) = b
<1>. DEFINE l == a + b - 1
<1>1. a \in Int /\ l \in Int /\ (a > l <=> b = 0) /\ l - a + 1 = b
  OBVIOUS
<1>. HIDE DEF l
<1>2. Cardinality(a..l) = IF a > l THEN 0 ELSE l - a + 1
  BY <1>1, FS_Interval
<1>3. Cardinality(a..l) = b
  BY <1>1, <1>2
<1>. QED BY <1>3 DEF l

-----------------------------------------------------------------------------
LEMMA InitIInv ==
  ASSUME DistributionAssumption, Init
  PROVE  IInv
<1>1. Code(1, 0) \in Codes
  BY ParamsFit DEF DetermineRSParams
<1>2. TypeOK
  BY <1>1 DEF Init, TypeOK, NoJob, Places, DistributionAssumption
<1>3. Indices(Code(1, 0)) = {0}
  BY DEF Indices, Total, Code
<1>. QED
  BY <1>2, <1>3 DEF Init, IInv, NoJob, OneShardPerNode, StoredIsHeld, OnePerPath, RecordsHold

\* NoJob with another pc satisfies what the invariant asks of a job.
LEMMA NoJobFits ==
  ASSUME DistributionAssumption, NEW q \in {"idle", "failed"}
  PROVE  /\ [NoJob EXCEPT !.pc = q] \in
              [pc : {"idle", "send", "save", "done", "failed"}, code : Codes,
               plan : Places, next : 0..8, stored : SUBSET (0..7)]
         /\ [NoJob EXCEPT !.pc = q].pc = q
         /\ [NoJob EXCEPT !.pc = q].stored = {}
         /\ [NoJob EXCEPT !.pc = q].code = Code(1, 0)
         /\ Indices(Code(1, 0)) = {0}
<1>1. Code(1, 0) \in Codes
  BY ParamsFit DEF DetermineRSParams
<1>. QED BY <1>1 DEF NoJob, Places, Indices, Total, Code

LEMMA SelectKeeps ==
  ASSUME DistributionAssumption, IInv,
         NEW eligible \in SUBSET registered,
         NEW active \in Cardinality(eligible)..Cardinality(registered),
         NEW order \in Orders(eligible), NEW offload \in {"none", "parity", "all"},
         SelectNodes(eligible, active, order, offload)
  PROVE  IInv'
<1>. DEFINE n == Cardinality(eligible)
<1>1. IsFiniteSet(eligible) /\ eligible \subseteq Nodes /\ n \in Nat
  BY FS_Subset, FS_CardinalityType DEF IInv, TypeOK, DistributionAssumption
<1>1a. Cardinality(registered) \in Nat /\ active \in Nat
  BY <1>1, FS_Subset, FS_CardinalityType DEF IInv, TypeOK, DistributionAssumption
<1>2. RecordsHold' /\ OnePerPath' /\ (records' = None => overwritten' = {})
  BY DEF SelectNodes, IInv, RecordsHold, Intact, ActiveRecords, OnePerPath
<1>3. registered' \subseteq Nodes /\ held' \subseteq Shards
        /\ records' \in [code : Codes, node : Places] \cup {None}
        /\ overwritten' \subseteq 0..7 /\ attempts' \in 0..MaxAttempts
  BY DEF SelectNodes, IInv, TypeOK, DistributionAssumption
<1>4. CASE n = 0
  <2>1. job' = [NoJob EXCEPT !.pc = "failed"]
    BY <1>4 DEF SelectNodes
  <2>2. OneShardPerNode' /\ StoredIsHeld'
    BY <2>1, NoJobFits DEF OneShardPerNode, StoredIsHeld
  <2>. QED BY <1>2, <1>3, <2>1, <2>2, NoJobFits DEF IInv, TypeOK
<1>5. CASE n # 0
  <2>. DEFINE code == ParamsFor(active, n)
              plan == Selection(code, order, n, offload)
  <2>1. code \in Codes /\ Total(code) <= n /\ Total(code) \in 1..8
    BY <1>1, <1>1a, <1>5, ParamsForFit, CodeFacts
  <2>2. job' = [pc |-> "send", code |-> code, next |-> 0, stored |-> {}, plan |-> plan]
    BY <1>5 DEF SelectNodes
  <2>3. plan \in Places /\ \A i, j \in Indices(code) :
          (plan[i] \in Nodes /\ plan[i] = plan[j]) => i = j
    BY <1>1, <2>1, SelectionFits
  <2>4. job' \in [pc : {"idle", "send", "save", "done", "failed"}, code : Codes,
                  plan : Places, next : 0..8, stored : SUBSET (0..7)]
    BY <2>1, <2>2, <2>3
  <2>5. OneShardPerNode' /\ StoredIsHeld'
    BY <2>2, <2>3 DEF OneShardPerNode, StoredIsHeld
  <2>6. job'.pc = "send" /\ job'.next < Total(job'.code)
    BY <2>1, <2>2
  <2>. QED BY <1>2, <1>3, <2>4, <2>5, <2>6 DEF IInv, TypeOK
<1>. QED BY <1>4, <1>5

\* One step of the loop: the shard that is sent, and no other, may change.
LEMMA SentKeeps ==
  ASSUME DistributionAssumption, IInv, job.pc = "send",
         NEW arrived \in BOOLEAN, Sent(arrived),
         held' \subseteq Shards, OnePerPath',
         held \ Same(job.next) \subseteq held',
         arrived => /\ job.plan[job.next] \in Nodes
                    /\ Shard(job.plan[job.next], job.next, job.code) \in held',
         \/ held' = held /\ overwritten' = overwritten
         \/ /\ Touches(job.next)
            /\ overwritten' = overwritten \cup {job.next}
         \/ ~ Touches(job.next) /\ overwritten' = overwritten
         \/ /\ job.code = records.code /\ overwritten' = overwritten
            /\ Shard(job.plan[job.next], job.next, job.code) \in held'
  PROVE  IInv'
<1>. DEFINE i0 == job.next
<1>1. i0 \in 0..7 /\ i0 \in Indices(job.code) /\ Total(job.code) \in 1..8
  BY CodeFacts DEF IInv, TypeOK, Indices
<1>2. /\ job'.code = job.code /\ job'.plan = job.plan /\ job'.next = i0 + 1
      /\ job'.stored = IF arrived THEN job.stored \cup {i0} ELSE job.stored
      /\ job'.pc = IF i0 + 1 = Total(job.code) THEN "save" ELSE "send"
  BY DEF Sent, IInv, TypeOK
<1>3. TypeOK'
  <2>1. job' \in [pc : {"idle", "send", "save", "done", "failed"}, code : Codes,
                  plan : Places, next : 0..8, stored : SUBSET (0..7)]
    <3>2. i0 + 1 \in 0..8
      BY <1>1
    <3>3. job'.stored \in SUBSET (0..7)
      BY <1>1, <1>2 DEF IInv, TypeOK
    <3>4. job' = [pc |-> job'.pc, code |-> job.code, plan |-> job.plan,
                  next |-> i0 + 1, stored |-> job'.stored]
      BY <1>2 DEF Sent, IInv, TypeOK
    <3>5. job'.pc \in {"send", "save"} /\ job.code \in Codes /\ job.plan \in Places
      BY <1>2 DEF IInv, TypeOK
    <3>. HIDE DEF i0
    <3>. QED BY <3>2, <3>3, <3>4, <3>5
  <2>2. overwritten' \subseteq 0..7
    BY <1>1 DEF IInv, TypeOK
  <2>. QED BY <2>1, <2>2 DEF Sent, IInv, TypeOK
<1>4. OneShardPerNode'
  BY <1>2 DEF IInv, OneShardPerNode
<1>5. ASSUME NEW i \in job'.stored
      PROVE  /\ i < job'.next /\ i \in Indices(job.code)
             /\ job.plan[i] \in Nodes
             /\ Shard(job.plan[i], i, job.code) \in held'
  <2>1. CASE i \in job.stored
    <3>1. i < i0 /\ i \in Indices(job.code) /\ Shard(job.plan[i], i, job.code) \in held
            /\ job.plan[i] \in Nodes
      BY <2>1 DEF IInv, StoredIsHeld
    <3>2. Shard(job.plan[i], i, job.code) \notin Same(i0)
      BY <1>1, <3>1 DEF Same, Shard, Indices
    <3>. QED BY <1>1, <1>2, <3>1, <3>2 DEF Indices
  <2>2. CASE i \notin job.stored
    BY <1>1, <1>2, <2>2
  <2>. QED BY <2>1, <2>2
<1>6. StoredIsHeld'
  BY <1>2, <1>5 DEF StoredIsHeld
<1>7. RecordsHold'
  <2>1. records' = records /\ overwritten \subseteq overwritten' /\ ActiveRecords' = ActiveRecords
    BY DEF Sent, ActiveRecords
  <2>2. ASSUME records # None, NEW i \in ActiveRecords, i \notin overwritten'
        PROVE  Shard(records.node[i], i, records.code) \in held'
    <3>1. Shard(records.node[i], i, records.code) \in held
      BY <2>1, <2>2 DEF IInv, RecordsHold, Intact
    <3>2. CASE i # i0 \/ ~ Touches(i0)
      <4>1. Shard(records.node[i], i, records.code) \notin Same(i0)
        BY <2>2, <3>2 DEF Same, Shard, Touches
      <4>. QED BY <3>1, <4>1
    <3>3. CASE i = i0 /\ Touches(i0)
      BY <2>1, <2>2, <3>1, <3>3 DEF Touches
    <3>. QED BY <3>2, <3>3
  <2>. QED BY <2>1, <2>2 DEF IInv, RecordsHold, Intact
<1>7a. records' = None => overwritten' = {}
  BY DEF IInv, Sent, Touches
<1>8. job'.pc = "send" => job'.next < Total(job'.code)
  BY <1>1, <1>2 DEF Indices
<1>9. job'.pc # "done"
  BY <1>2
<1>. QED BY <1>2, <1>3, <1>4, <1>6, <1>7, <1>7a, <1>8, <1>9 DEF IInv

\* Writing a shard to its path keeps one file to a path.
LEMMA WriteKeepsPaths ==
  ASSUME IInv, job.pc = "send", job.plan[job.next] \in Nodes,
         NEW new, new = (held \ Same(job.next)) \cup {Shard(job.plan[job.next], job.next, job.code)}
  PROVE  /\ new \subseteq Shards
         /\ \A s, t \in new : (s.node = t.node /\ s.index = t.index) => s = t
<1>1. job.next \in 0..7 /\ job.code \in Codes
  BY CodeFacts DEF IInv, TypeOK
<1>2. Shard(job.plan[job.next], job.next, job.code) \in Shards
  BY <1>1 DEF Shard, Shards
<1>. QED BY <1>2 DEF IInv, TypeOK, OnePerPath, Same, Shard

LEMMA SaveKeeps ==
  ASSUME DistributionAssumption, RecordsAssumption, IInv, NEW enforced \in BOOLEAN,
         SaveRecords(enforced)
  PROVE  IInv'
<1>. DEFINE saved == records = None /\ (enforced => NamesRows)
            enough == CanRecover(job.code, Cardinality(job.stored))
<1>1. NewRecords \in [code : Codes, node : Places]
  BY DEF NewRecords, IInv, TypeOK, StoredIsHeld, Places
<1>2. /\ overwritten' = overwritten
      /\ records = None => overwritten = {}
  BY DEF IInv, SaveRecords
<1>2a. RecordsHold'
  <2>1. CASE ~ saved
    BY <2>1 DEF SaveRecords, IInv, RecordsHold, Intact, ActiveRecords
  <2>2. CASE saved
    <3>1. records' = NewRecords /\ held' = held /\ records'.code = job.code
      BY <2>2 DEF SaveRecords, NewRecords
    <3>2. \A i \in Indices(job.code) :
            records'.node[i] = IF i \in job.stored THEN job.plan[i] ELSE Unknown
      BY <3>1, IndicesFinite DEF NewRecords, IInv, TypeOK
    <3>3. \A i \in ActiveRecords' : i \in job.stored /\ i \in Indices(job.code)
      BY <3>1, <3>2 DEF ActiveRecords
    <3>4. \A i \in ActiveRecords' :
            /\ records'.node[i] = job.plan[i] /\ job.plan[i] \in Nodes
            /\ Shard(job.plan[i], i, job.code) \in held
      BY <3>2, <3>3 DEF IInv, StoredIsHeld
    <3>5. \A i \in ActiveRecords' : i \in Intact'
      BY <3>1, <3>4 DEF Intact
    <3>6. \A i, j \in ActiveRecords' : records'.node[i] = records'.node[j] => i = j
      BY <3>3, <3>4 DEF IInv, OneShardPerNode
    <3>. QED BY <3>4, <3>5, <3>6 DEF RecordsHold
  <2>. QED BY <2>1, <2>2
<1>3. registered' \subseteq Nodes /\ held' \subseteq Shards /\ OnePerPath'
        /\ records' \in [code : Codes, node : Places] \cup {None}
        /\ overwritten' \subseteq 0..7 /\ attempts' \in 0..MaxAttempts
        /\ (records' = None => overwritten' = {})
  BY <1>1, <1>2 DEF SaveRecords, IInv, TypeOK, OnePerPath
<1>4. CASE saved /\ enough
  <2>1. job' = [job EXCEPT !.pc = "done"] /\ records' = NewRecords /\ held' = held
    BY <1>4 DEF SaveRecords
  <2>2. /\ job'.pc = "done" /\ job'.code = job.code /\ job'.plan = job.plan
        /\ job'.stored = job.stored /\ job'.next = job.next
    BY <2>1 DEF IInv, TypeOK
  <2>3. job' \in [pc : {"idle", "send", "save", "done", "failed"}, code : Codes,
                  plan : Places, next : 0..8, stored : SUBSET (0..7)]
    BY <2>1 DEF IInv, TypeOK
  <2>4. OneShardPerNode' /\ StoredIsHeld'
    BY <2>1, <2>2 DEF IInv, OneShardPerNode, StoredIsHeld
  <2>5. NewRecords' = NewRecords
    BY <2>2 DEF NewRecords
  <2>. QED BY <1>2, <1>2a, <1>3, <1>4, <2>1, <2>2, <2>3, <2>4, <2>5 DEF IInv, TypeOK
<1>5. CASE ~(saved /\ enough)
  <2>1. job' = [NoJob EXCEPT !.pc = "failed"]
    BY <1>5 DEF SaveRecords
  <2>2. OneShardPerNode' /\ StoredIsHeld'
    BY <2>1, NoJobFits DEF OneShardPerNode, StoredIsHeld
  <2>. QED BY <1>2a, <1>3, <2>1, <2>2, NoJobFits DEF IInv, TypeOK
<1>. QED BY <1>4, <1>5

LEMMA NextIInv ==
  ASSUME DistributionAssumption, RecordsAssumption, IInv, [Next]_vars
  PROVE  IInv'
<1>1. ASSUME NEW eligible \in SUBSET registered,
             NEW active \in Cardinality(eligible)..Cardinality(registered),
             NEW order \in Orders(eligible), NEW offload \in {"none", "parity", "all"},
             SelectNodes(eligible, active, order, offload)
      PROVE  IInv'
  BY <1>1, SelectKeeps
<1>2. CASE UploadShard
  <2>1. held' \subseteq Shards /\ OnePerPath'
    BY <1>2, WriteKeepsPaths DEF UploadShard, OnePerPath
  <2>. QED BY <1>2, <2>1, SentKeeps DEF UploadShard
<1>3. CASE UploadFails
  <2>1. held' \subseteq Shards /\ OnePerPath' /\ held \ Same(job.next) \subseteq held'
    BY <1>3, WriteKeepsPaths DEF UploadFails, OnePerPath, IInv, TypeOK
  <2>. QED BY <1>3, <2>1, SentKeeps DEF UploadFails
<1>4. CASE UploadToPeer
  <2>1. held' \subseteq Shards /\ OnePerPath' /\ held \ Same(job.next) \subseteq held'
    BY <1>4 DEF UploadToPeer, OnePerPath, IInv, TypeOK
  <2>. QED BY <1>4, <2>1, SentKeeps DEF UploadToPeer
<1>5. ASSUME NEW enforced \in BOOLEAN, SaveRecords(enforced)
      PROVE  IInv'
  BY <1>5, SaveKeeps
<1>6. ASSUME NEW n \in Nodes, DeleteStorageNode(n)
      PROVE  IInv'
  BY <1>6 DEF DeleteStorageNode, IInv, TypeOK, OneShardPerNode, StoredIsHeld, OnePerPath,
              RecordsHold, Intact, ActiveRecords, NewRecords
<1>7. CASE UNCHANGED vars
  BY <1>7 DEF vars, IInv, TypeOK, OneShardPerNode, StoredIsHeld, OnePerPath,
              RecordsHold, Intact, ActiveRecords, NewRecords
<1>. QED BY <1>1, <1>2, <1>3, <1>4, <1>5, <1>6, <1>7 DEF Next

\* Every plan keeps its shards on different nodes, what counts as stored is
\* on its node, and so is what the records name and no later call overwrote.
THEOREM Invariant == Spec => []IInv
<1>1. Init => IInv
  BY InitIInv, DistributionAssumption
<1>2. IInv /\ [Next]_vars => IInv'
  BY NextIInv, DistributionAssumption, RecordsAssumption
<1>. QED BY <1>1, <1>2, PTL DEF Spec

-----------------------------------------------------------------------------
\* The records of a distribution that succeeded name what it stored.
LEMMA DoneFacts ==
  ASSUME DistributionAssumption, RecordsAssumption, IInv, job.pc = "done"
  PROVE  /\ records # None /\ records.code = job.code /\ job.code \in Codes
         /\ ActiveRecords = job.stored /\ Intact = job.stored
         /\ job.stored \subseteq Indices(job.code)
         /\ \A i \in job.stored : /\ records.node[i] = job.plan[i]
                                  /\ job.plan[i] \in Nodes
                                  /\ Shard(records.node[i], i, records.code) \in held
<1>1. job.code \in Codes /\ job.stored \subseteq Indices(job.code)
        /\ Indices(job.code) \subseteq 0..7
  BY IndicesFinite DEF IInv, TypeOK, StoredIsHeld
<1>2. NewRecords \in [code : Codes, node : Places]
  BY DEF NewRecords, IInv, TypeOK, StoredIsHeld, Places
<1>3. records # None /\ records.code = job.code
  BY <1>2, RecordsAssumption DEF IInv, NewRecords
<1>4. \A i \in Indices(job.code) :
        records.node[i] = IF i \in job.stored THEN job.plan[i] ELSE Unknown
  BY <1>1 DEF IInv, NewRecords
<1>5. \A i \in job.stored : /\ records.node[i] = job.plan[i]
                            /\ job.plan[i] \in Nodes
                            /\ Shard(records.node[i], i, records.code) \in held
  BY <1>1, <1>3, <1>4 DEF IInv, StoredIsHeld
<1>6. ActiveRecords = job.stored
  BY <1>1, <1>3, <1>4, <1>5 DEF ActiveRecords, DistributionAssumption
<1>7. Intact = job.stored
  BY <1>5, <1>6 DEF Intact
<1>. QED BY <1>1, <1>3, <1>5, <1>6, <1>7

LEMMA CompleteFacts ==
  ASSUME DistributionAssumption, RecordsAssumption, IInv, Complete
  PROVE  /\ records.code \in Codes /\ ActiveRecords = Indices(records.code)
         /\ \A i \in Indices(records.code) \ overwritten : i \in Intact
         /\ \A i, j \in Indices(records.code) : records.node[i] = records.node[j] => i = j
BY RecordsAssumption DEF IInv, TypeOK, Complete, RecordsHold

\* A file that was distributed without a loss survives the loss of as many
\* nodes and overwritten shards as its code has parity shards, for any nodes.
THEOREM LossIsSurvived == Spec => []SurvivesLoss
<1>1. ASSUME IInv, Complete, NEW D \in SUBSET Nodes,
             Cardinality(D) + Cardinality(overwritten) <= records.code.parity
      PROVE  Cardinality({i \in Intact : records.node[i] \notin D}) >= records.code.data
  <2>. DEFINE I   == Indices(records.code)
              off == {i \in I : records.node[i] \in D}
              out == off \cup (overwritten \cap I)
              in  == I \ out
              f   == [i \in off |-> records.node[i]]
  <2>1. /\ records.code \in Codes
        /\ \A i \in I \ overwritten : i \in Intact
        /\ \A i, j \in I : records.node[i] = records.node[j] => i = j
    BY <1>1, CompleteFacts, DistributionAssumption, RecordsAssumption
  <2>2. Intact \subseteq I
    BY DEF Intact, ActiveRecords
  <2>3. f \in Injection(off, D)
    BY <2>1 DEF Injection, IsInjective
  <2>4. IsFiniteSet(D) /\ Cardinality(D) \in Nat
    BY FS_Subset, FS_CardinalityType, DistributionAssumption DEF DistributionAssumption
  <2>5. Cardinality(off) <= Cardinality(D)
    BY <2>3, <2>4, FS_Injection
  <2>6. IsFiniteSet(I) /\ Cardinality(I) = Total(records.code)
    BY <2>1, IndicesFinite
  <2>7. IsFiniteSet(overwritten) /\ Cardinality(overwritten) \in Nat
    <3>1. overwritten \subseteq 0..7
      BY <1>1 DEF IInv, TypeOK
    <3>2. 0 \in Int /\ 7 \in Int
      OBVIOUS
    <3>3. IsFiniteSet(0..7)
      BY <3>2, FS_Interval
    <3>. QED BY <3>1, <3>3, FS_Subset, FS_CardinalityType
  <2>8. /\ IsFiniteSet(in) /\ IsFiniteSet(out) /\ IsFiniteSet(off)
        /\ Cardinality(in) \in Nat /\ Cardinality(out) \in Nat /\ Cardinality(off) \in Nat
    <3>1. in \subseteq I /\ out \subseteq I /\ off \subseteq I
      OBVIOUS
    <3>. QED BY <2>6, <3>1, FS_Subset, FS_CardinalityType
  <2>9. Cardinality(I) = Cardinality(in) + Cardinality(out)
    <3>1. in \cup out = I /\ in \cap out = {}
      OBVIOUS
    <3>2. Cardinality(in \cap out) = 0
      BY <3>1, FS_EmptySet
    <3>. HIDE DEF in, out, I
    <3>3. Cardinality(in \cup out) = Cardinality(in) + Cardinality(out) - Cardinality(in \cap out)
      BY <2>8, FS_Union
    <3>4. Cardinality(in \cup out) = Cardinality(I)
      BY <3>1
    <3>5. Cardinality(I) = Cardinality(in) + Cardinality(out) - 0
      BY <3>2, <3>3, <3>4
    <3>. QED BY <2>8, <3>5
  <2>9a. Cardinality(out) <= Cardinality(off) + Cardinality(overwritten)
    <3>1. out \subseteq off \cup overwritten
      OBVIOUS
    <3>2. /\ IsFiniteSet(off \cup overwritten)
          /\ Cardinality(off \cup overwritten) =
               Cardinality(off) + Cardinality(overwritten) - Cardinality(off \cap overwritten)
      BY <2>7, <2>8, FS_Union
    <3>3. Cardinality(off \cap overwritten) \in Nat
      BY <2>7, FS_Intersection, FS_CardinalityType
    <3>4. /\ Cardinality(out) <= Cardinality(off \cup overwritten)
          /\ Cardinality(off \cup overwritten) \in Nat
      BY <3>1, <3>2, FS_Subset, FS_CardinalityType
    <3>. HIDE DEF out, off
    <3>. QED BY <2>7, <2>8, <3>2, <3>3, <3>4
  <2>10. Total(records.code) = records.code.data + records.code.parity
           /\ records.code.data \in Nat /\ records.code.parity \in Nat
    BY <2>1, CodeFacts
  <2>11. /\ in \subseteq {i \in Intact : records.node[i] \notin D}
         /\ IsFiniteSet({i \in Intact : records.node[i] \notin D})
    <3>1. {i \in Intact : records.node[i] \notin D} \subseteq I
      BY <2>2
    <3>2. in \subseteq {i \in Intact : records.node[i] \notin D}
      BY <2>1
    <3>. QED BY <2>6, <3>1, <3>2, FS_Subset
  <2>12. Cardinality(in) >= records.code.data
    <3>. HIDE DEF in, out, off, I
    <3>1. Cardinality(out) <= records.code.parity
      BY <1>1, <2>4, <2>5, <2>7, <2>8, <2>9a, <2>10
    <3>2. Cardinality(in) + Cardinality(out) = records.code.data + records.code.parity
      BY <2>6, <2>9, <2>10
    <3>. QED BY <2>8, <2>10, <3>1, <3>2
  <2>13. Cardinality(in) <= Cardinality({i \in Intact : records.node[i] \notin D})
           /\ Cardinality({i \in Intact : records.node[i] \notin D}) \in Nat
    BY <2>11, FS_Subset, FS_CardinalityType
  <2>. HIDE DEF in
  <2>. QED BY <2>8, <2>10, <2>12, <2>13
<1>2. IInv => SurvivesLoss
  BY <1>1 DEF SurvivesLoss
<1>. QED BY <1>2, Invariant, PTL

\* What a distribution reports as stored is there, in its code and under its
\* records, for any nodes and any number of attempts.
THEOREM ReportsAreTrue == Spec => []ReportedIsStored
<1>1. IInv => ReportedIsStored
  BY DoneFacts, DistributionAssumption, RecordsAssumption DEF ReportedIsStored, IInv
<1>. QED BY <1>1, Invariant, PTL

\* A file that was distributed without a loss is read right or not at all when
\* one of its own shards is among those that come.
THEOREM CompleteIsReadRight == Spec => []CompleteReadsRight
<1>1. ASSUME IInv, Complete, NEW got \in SUBSET Downloadable
      PROVE  /\ got \subseteq Intact =>
                  RetrieveFile(got) = IF Cardinality(got) >= records.code.data
                                      THEN "right" ELSE "error"
             /\ got \cap Intact # {} => RetrieveFile(got) \in {"right", "error"}
  <2>. DEFINE c    == records.code
              k    == c.data
              I    == Indices(c)
              sent == [i \in got |-> SentCode(i)]
  <2>1. c \in Codes /\ ActiveRecords = I
    BY <1>1, CompleteFacts, DistributionAssumption, RecordsAssumption
  <2>2. /\ k \in 1..6 /\ c.parity \in 0..2 /\ Total(c) = k + c.parity
        /\ c.parity = 0 => k = 1
        /\ c = Code(k, c.parity)
    BY <2>1, CodeFacts
  <2>3. IsFiniteSet(I) /\ Cardinality(I) = k + c.parity /\ got \subseteq I
    BY <2>1, <2>2, IndicesFinite DEF Downloadable
  <2>4. I = 0..(k + c.parity - 1)
    BY <2>2 DEF Indices
  <2>5. {i \in I : i < k} = 0..(k - 1) /\ {i \in I : i >= k} = k..(k + c.parity - 1)
    BY <2>2, <2>4
  <2>6. k \in Nat /\ c.parity \in Nat /\ 0 + k - 1 = k - 1
    BY <2>2
  <2>7. Cardinality(0..(k - 1)) = k /\ Cardinality(k..(k + c.parity - 1)) = c.parity
    BY <2>6, CountFrom
  <2>8. RebuiltParams = c
    BY <2>1, <2>2, <2>5, <2>7 DEF RebuiltParams
  <2>9. ActiveRecords # {} /\ CanRecover(c, Cardinality(ActiveRecords))
    <3>1. 0 \in I
      BY <2>2, <2>4
    <3>2. CanRecover(c, k + c.parity)
      BY <2>2 DEF CanRecover, Enabled
    <3>. QED BY <2>1, <2>3, <3>1, <3>2
  <2>10. ~\E i \in got : i >= Total(c)
    BY <2>2, <2>3, <2>4
  <2>11. ASSUME NEW i \in got, i \in Intact
         PROVE  SentCode(i) = c
    <3>1. Shard(records.node[i], i, c) \in held
      BY <2>11 DEF Intact
    <3>2. \A s \in held : (s.node = records.node[i] /\ s.index = i)
                            => s = Shard(records.node[i], i, c)
      BY <1>1, <3>1 DEF IInv, OnePerPath, Shard
    <3>. QED BY <3>1, <3>2 DEF SentCode, Shard
  <2>12. RetrieveFile(got) = Decode(c, got, sent)
    BY <2>8, <2>9, <2>10 DEF RetrieveFile
  <2>13. \A i \in got : i \in Intact => sent[i] = c
    BY <2>11
  <2>. HIDE DEF sent
  <2>14. IsFiniteSet(got) /\ Cardinality(got) \in Nat
    BY <2>3, FS_Subset, FS_CardinalityType
  <2>15. CASE got \cap Intact = {}
    <3>1. SUFFICES ASSUME got = {} PROVE RetrieveFile(got) = "error" /\ ~ (Cardinality(got) >= k)
      BY <2>15
    <3>2. Cardinality(got) = 0
      BY <3>1, FS_EmptySet
    <3>. QED BY <2>2, <2>12, <3>1, <3>2 DEF Decode
  <2>16. CASE got \cap Intact # {} /\ Enabled(c)
    <3>0. PICK g \in got : sent[g] = c
      BY <2>13, <2>16
    <3>1. CASE Cardinality(got) < k
      BY <2>2, <2>12, <2>14, <2>16, <3>1 DEF Decode
    <3>2. CASE \E i, j \in got : sent[i].data # sent[j].data
      <4>1. ~ (got \subseteq Intact)
        BY <2>13, <3>2
      <4>2. RetrieveFile(got) = "error"
        BY <2>12, <2>16, <3>2 DEF Decode
      <4>. QED BY <4>1, <4>2
    <3>3. CASE ~(Cardinality(got) < k) /\ ~\E i, j \in got : sent[i].data # sent[j].data
      <4>1. sent[CHOOSE i \in got : TRUE].data = c.data
        BY <3>0, <3>3
      <4>2. Decode(c, got, sent) = "right"
        <5>1. c.data = k /\ k = sent[CHOOSE i \in got : TRUE].data
          BY <4>1
        <5>2. k > k <=> FALSE
          BY <2>2
        <5>. HIDE DEF k
        <5>. QED BY <2>16, <3>3, <5>1, <5>2 DEF Decode
      <4>. QED BY <2>2, <2>12, <2>14, <3>3, <4>2
    <3>. QED BY <3>1, <3>2, <3>3
  <2>17. CASE got \cap Intact # {} /\ ~Enabled(c)
    <3>1. k = 1 /\ I = {0}
      BY <2>2, <2>4, <2>17 DEF Enabled
    <3>2. got = {0} /\ sent[0] = c
      BY <2>3, <2>13, <2>17, <3>1
    <3>3. Cardinality(got) = 1
      BY <3>2, FS_Singleton
    <3>. QED BY <2>12, <2>17, <3>1, <3>2, <3>3 DEF Decode
  <2>. QED BY <2>15, <2>16, <2>17
<1>2. IInv => CompleteReadsRight
  BY <1>1 DEF CompleteReadsRight
<1>. QED BY <1>2, Invariant, PTL
=============================================================================
