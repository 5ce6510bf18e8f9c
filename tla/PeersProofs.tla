---------------------------- MODULE PeersProofs ----------------------------
(* Proofs about Peers, for any requests and handlers. *)
EXTENDS Peers, TLAPS

\* The rows a request makes or a deletion leaves.
LEMMA NewRowsFit ==
  ASSUME PeersAssumption
  PROVE  /\ NewRow \in Rows /\ NewRow.status # "accepted"
         /\ Deleted \in Rows /\ Deleted.status # "accepted"
         /\ NoRow \in Rows /\ NoRow.status # "accepted"
BY DEF PeersAssumption, NewRow, Deleted, NoRow, Row, Rows

\* A job is what its parts say.
LEMMA JobFits ==
  ASSUME NEW op \in {"generate", "tell", "write", "list"}, NEW s \in Sides,
         NEW t \in Tokens, NEW r \in Rows
  PROVE  /\ Job(op, s, t, r) \in Jobs
         /\ Job(op, s, t, r).op = op /\ Job(op, s, t, r).side = s
         /\ Job(op, s, t, r).token = t /\ Job(op, s, t, r).copy = r
BY DEF Job, Jobs

\* What the jobs that work on a row hold.
LEMMA JobParts ==
  ASSUME NEW j \in Jobs, j.op \in {"generate", "tell", "write", "list"}
  PROVE  j.side \in Sides /\ j.token \in Tokens /\ j.copy \in Rows
BY DEF Jobs, Confirming, Idle

LEMMA RowParts ==
  ASSUME NEW r \in Rows
  PROVE  r.cert \in 0..MaxDecisions
BY DEF Rows

\* What the invariant says of one row and its entry in a list.
LEMMA RowHere ==
  ASSUME IInv, NEW s \in Sides, NEW t \in Tokens
  PROVE  /\ row[s][t] \in Rows /\ RowOK(s, t, row[s][t])
         /\ listed[s][t] # "absent" => Decided(s, t)
<1>1. RowOK(s, t, row[s][t]) /\ (listed[s][t] # "absent" => Decided(s, t))
  BY DEF IInv, RowsOK
<1>. QED BY <1>1 DEF IInv, TypeOK

\* A row that says "accepted" goes back to a decision.
LEMMA AcceptedDecided ==
  ASSUME NEW s \in Sides, NEW t \in Tokens, NEW r, RowOK(s, t, r), r.status = "accepted"
  PROVE  /\ Decided(s, t)
         /\ <<s, t>> \notin posted =>
              /\ s = "outbound" => r.cert \in issued[t]
              /\ s = "inbound" => decisions[t] > 0
BY DEF RowOK, Decided, Sides

\* A step that writes one row keeps what holds of the rows.
LEMMA RowStep ==
  ASSUME IInv, NEW s \in Sides, NEW t \in Tokens, NEW r \in Rows,
         SetRow(s, t, r), RowOK(s, t, r), UNCHANGED <<listed, decisions, issued, posted>>
  PROVE  row' \in [Sides -> [Tokens -> Rows]] /\ RowsOK'
<1>1. row' \in [Sides -> [Tokens -> Rows]]
  BY DEF SetRow, IInv, TypeOK
<1>2. ASSUME NEW x \in Sides, NEW y \in Tokens
      PROVE  row'[x][y] = IF x = s /\ y = t THEN r ELSE row[x][y]
  BY DEF SetRow, IInv, TypeOK
<1>3. ASSUME NEW x \in Sides, NEW y \in Tokens
      PROVE  RowOK(x, y, row[x][y])' /\ (listed'[x][y] # "absent" => Decided(x, y)')
  <2>1. RowOK(x, y, row'[x][y]) /\ (listed[x][y] # "absent" => Decided(x, y))
    BY <1>2, RowHere
  <2>. QED BY <2>1 DEF RowOK, Decided
<1>. QED BY <1>1, <1>3 DEF RowsOK

\* A step that gives one handler a job keeps what holds of the jobs.
LEMMA JobStep ==
  ASSUME IInv, NEW h \in Handlers, NEW j \in Jobs,
         proc' = [proc EXCEPT ![h] = j], JobOK(j), j.op # "generate",
         UNCHANGED <<decisions, issued, posted>>
  PROVE  /\ proc' \in [Handlers -> Jobs]
         /\ \A g \in Handlers : JobOK(proc[g])'
         /\ OneEach'
<1>1. proc' \in [Handlers -> Jobs]
  BY DEF IInv, TypeOK
<1>2. \A g \in Handlers : proc'[g] = IF g = h THEN j ELSE proc[g]
  BY DEF IInv, TypeOK
<1>3. ASSUME NEW g \in Handlers PROVE JobOK(proc[g])'
  BY <1>2 DEF IInv, JobOK, RowOK, Decided
<1>4. OneEach'
  BY <1>2 DEF IInv, OneEach
<1>. QED BY <1>1, <1>3, <1>4

\* A handler that is done has a job that asks for nothing.
LEMMA IdleFits == Idle \in Jobs /\ JobOK(Idle) /\ Idle.op # "generate"
BY DEF Idle, Jobs, JobOK

\* Nothing but histories and rows: a step that leaves a part alone keeps it.
LEMMA CallsStay ==
  ASSUME IInv, net' \subseteq net, UNCHANGED issued
  PROVE  CallsOK' /\ net' \subseteq Calls
BY DEF IInv, TypeOK, CallsOK

LEMMA HistoryStays ==
  ASSUME IInv, UNCHANGED <<decisions, issued, posted>>
  PROVE  /\ decisions' \in [Tokens -> 0..MaxDecisions]
         /\ issued' \in [Tokens -> SUBSET (1..MaxDecisions)]
         /\ IssuedOK'
BY DEF IInv, TypeOK, IssuedOK

LEMMA RowsStay ==
  ASSUME IInv, UNCHANGED <<row, listed, decisions, issued, posted>>
  PROVE  row' \in [Sides -> [Tokens -> Rows]] /\ RowsOK'
BY DEF IInv, TypeOK, RowsOK, RowOK, Decided

LEMMA JobsStay ==
  ASSUME IInv, UNCHANGED <<proc, decisions, issued, posted>>
  PROVE  /\ proc' \in [Handlers -> Jobs]
         /\ \A g \in Handlers : JobOK(proc[g])'
         /\ OneEach'
BY DEF IInv, TypeOK, JobOK, RowOK, Decided, OneEach

-----------------------------------------------------------------------------
(* One lemma for each action *)

LEMMA RequestKeeps ==
  ASSUME PeersAssumption, IInv, NEW t \in Tokens, RequestPeerConnection(t)
  PROVE  IInv'
<1>1. row' \in [Sides -> [Tokens -> Rows]] /\ RowsOK'
  BY NewRowsFit, RowStep DEF RequestPeerConnection, Sides, RowOK
<1>2. net' \subseteq Calls /\ CallsOK'
  BY DEF IInv, TypeOK, CallsOK, Calls, RequestPeerConnection, RequestCall, Sides,
         PeersAssumption
<1>. QED
  BY <1>1, <1>2, HistoryStays, JobsStay DEF IInv, TypeOK, RequestPeerConnection

LEMMA ReceiveKeeps ==
  ASSUME PeersAssumption, IInv, NEW m \in net, ReceivePeerConnection(m)
  PROVE  IInv'
<1>1. m.token \in Tokens
  BY DEF IInv, TypeOK, Calls
<1>2. row' \in [Sides -> [Tokens -> Rows]] /\ RowsOK'
  BY <1>1, NewRowsFit, RowStep DEF ReceivePeerConnection, Sides, RowOK
<1>. QED
  BY <1>2, CallsStay, HistoryStays, JobsStay DEF IInv, TypeOK, ReceivePeerConnection

LEMMA LoseKeeps ==
  ASSUME IInv, NEW m \in net, Lose(m)
  PROVE  IInv'
BY CallsStay, HistoryStays, RowsStay, JobsStay DEF IInv, TypeOK, Lose

LEMMA AcceptKeeps ==
  ASSUME PeersAssumption, IInv, NEW h \in Handlers, NEW t \in Tokens, Accept(h, t)
  PROVE  IInv'
<1>. DEFINE n == decisions[t] + 1
            copy == [NewRow EXCEPT !.cert = n]
            job == Job("generate", "inbound", t, copy)
            r == [row["inbound"][t] EXCEPT !.status = "accepted"]
<1>1. /\ decisions[t] \in 0..MaxDecisions /\ decisions[t] < MaxDecisions
      /\ MaxDecisions \in Nat
  BY DEF IInv, TypeOK, Accept, PeersAssumption
<1>2. /\ n \in 1..MaxDecisions
      /\ decisions' = [decisions EXCEPT ![t] = n] /\ UNCHANGED <<issued, posted>>
      /\ \A u \in Tokens : decisions'[u] = IF u = t THEN n ELSE decisions[u]
      /\ \A u \in Tokens : decisions[u] \in Nat /\ decisions[u] <= decisions'[u]
  BY <1>1 DEF IInv, TypeOK, Accept
<1>3. decisions' \in [Tokens -> 0..MaxDecisions] /\ IssuedOK'
  BY <1>1, <1>2 DEF IInv, TypeOK, IssuedOK
<1>4. copy \in Rows /\ copy.cert = n
  BY <1>2, NewRowsFit DEF Rows
<1>5. job \in Jobs /\ job.op = "generate" /\ job.side = "inbound" /\ job.token = t
        /\ job.copy.cert = n
  <2>. HIDE DEF copy
  <2>. QED BY <1>4, JobFits DEF Sides
<1>6. proc' = [proc EXCEPT ![h] = job]
  BY <1>2 DEF Accept, Begin, IInv, TypeOK
<1>7. \A g \in Handlers : proc'[g] = IF g = h THEN job ELSE proc[g]
  BY <1>6 DEF IInv, TypeOK
<1>8. row["inbound"][t] \in Rows
  BY DEF IInv, TypeOK, Sides
<1>9. r \in Rows /\ row' = [row EXCEPT !["inbound"][t] = r]
  BY <1>8 DEF Rows, Accept, SetRow
<1>10. \A x \in Sides, y \in Tokens :
         row'[x][y] = IF x = "inbound" /\ y = t THEN r ELSE row[x][y]
  BY <1>9 DEF IInv, TypeOK
<1>11. n \notin issued[t] /\ n > 0 /\ n = decisions[t] + 1
  BY <1>1, <1>2 DEF IInv, IssuedOK
<1>12. TypeOK'
  BY <1>3, <1>5, <1>6, <1>9 DEF IInv, TypeOK, Accept
<1>13. RowsOK'
  <2>1. ASSUME NEW x \in Sides, NEW y \in Tokens PROVE RowOK(x, y, row[x][y])'
    <3>1. CASE x = "inbound" /\ y = t
      BY <1>2, <1>11, <3>1 DEF RowOK
    <3>2. CASE ~(x = "inbound" /\ y = t)
      <4>1. row'[x][y] = row[x][y] /\ RowOK(x, y, row[x][y])
        BY <1>10, <3>2, RowHere
      <4>. QED BY <1>2, <4>1 DEF RowOK
    <3>. QED BY <3>1, <3>2
  <2>2. ASSUME NEW x \in Sides, NEW y \in Tokens, listed'[x][y] # "absent"
        PROVE  Decided(x, y)'
    <3>1. Decided(x, y)
      BY <2>2, RowHere DEF Accept
    <3>. QED BY <1>2, <3>1 DEF Decided
  <2>. QED BY <2>1, <2>2 DEF RowsOK
<1>14. CallsOK'
  BY DEF Accept, IInv, CallsOK
<1>15. ASSUME NEW g \in Handlers PROVE JobOK(proc[g])'
  <2>1. CASE g = h
    <3>. HIDE DEF job
    <3>. QED BY <1>2, <1>5, <1>7, <1>11, <2>1 DEF JobOK
  <2>2. CASE g # h
    <3>1. proc'[g] = proc[g] /\ JobOK(proc[g]) /\ proc[g] \in Jobs
      BY <1>7, <2>2 DEF IInv, TypeOK
    <3>2. CASE proc[g].op \in {"generate", "tell", "write", "list"}
      <4>1. proc[g].token \in Tokens
        BY <3>1, <3>2, JobParts
      <4>. QED BY <1>2, <3>1, <4>1 DEF JobOK, RowOK, Decided
    <3>3. CASE proc[g].op \notin {"generate", "tell", "write", "list"}
      BY <3>1, <3>3 DEF JobOK
    <3>. QED BY <3>2, <3>3
  <2>. QED BY <2>1, <2>2
<1>16. OneEach'
  <2>1. ASSUME NEW g \in Handlers, g # h, proc[g].op = "generate", proc[g].token = t
        PROVE  proc[g].copy.cert # n
    BY <1>1, <2>1 DEF IInv, JobOK
  <2>. HIDE DEF job
  <2>. QED BY <1>5, <1>7, <2>1 DEF OneEach, IInv
<1>. QED BY <1>12, <1>3, <1>13, <1>14, <1>15, <1>16 DEF IInv

LEMMA GenerateKeeps ==
  ASSUME PeersAssumption, IInv, NEW h \in Handlers, Generate(h)
  PROVE  IInv'
<1>. DEFINE t == proc[h].token
            c == proc[h].copy.cert
            r == [row["inbound"][t] EXCEPT !.cert = c]
            job == Job("tell", "inbound", t, r)
<1>1. /\ t \in Tokens /\ JobOK(proc[h]) /\ proc[h].op = "generate"
      /\ c \in 1..decisions[t] /\ decisions[t] \in 0..MaxDecisions /\ MaxDecisions \in Nat
  BY JobParts DEF IInv, TypeOK, Generate, JobOK, PeersAssumption
<1>2. CASE ~Exists("inbound", t)
  <2>1. proc' = [proc EXCEPT ![h] = Idle] /\ issued' = issued
    BY <1>2 DEF Generate, Finish
  <2>2. UNCHANGED <<row, listed, sharing, net, decisions, issued, posted>>
    BY <2>1 DEF Generate
  <2>. QED
    BY <2>1, <2>2, JobStep, IdleFits, CallsStay, HistoryStays, RowsStay DEF IInv, TypeOK
<1>3. CASE Exists("inbound", t)
  <2>1. /\ proc' = [proc EXCEPT ![h] = job]
        /\ issued' = [issued EXCEPT ![t] = @ \cup {c}]
        /\ UNCHANGED <<row, listed, sharing, net, decisions, posted>>
    BY <1>3 DEF Generate
  <2>2. row["inbound"][t] \in Rows /\ RowOK("inbound", t, row["inbound"][t])
    BY <1>1, RowHere DEF Sides
  <2>3. r \in Rows /\ r.cert = c /\ RowOK("inbound", t, r)
    BY <1>1, <2>2 DEF Rows, RowOK
  <2>4. job \in Jobs /\ job.op = "tell" /\ job.side = "inbound" /\ job.token = t
          /\ job.copy = r
    BY <1>1, <2>3, JobFits DEF Sides
  <2>5. \A u \in Tokens : issued'[u] = IF u = t THEN issued[t] \cup {c} ELSE issued[u]
    BY <2>1 DEF IInv, TypeOK
  <2>5a. issued' \in [Tokens -> SUBSET (1..MaxDecisions)]
    BY <1>1, <2>1 DEF IInv, TypeOK
  <2>6. \A g \in Handlers : proc'[g] = IF g = h THEN job ELSE proc[g]
    BY <2>1 DEF IInv, TypeOK
  <2>7. TypeOK'
    BY <2>1, <2>4, <2>5a DEF IInv, TypeOK
  <2>8. IssuedOK'
    BY <1>1, <2>1, <2>5 DEF IInv, IssuedOK
  <2>9. RowsOK'
    <3>1. ASSUME NEW x \in Sides, NEW y \in Tokens
          PROVE  RowOK(x, y, row[x][y])' /\ (listed'[x][y] # "absent" => Decided(x, y)')
      <4>1. RowOK(x, y, row[x][y]) /\ (listed[x][y] # "absent" => Decided(x, y))
        BY RowHere
      <4>. QED BY <2>1, <2>5, <4>1 DEF RowOK, Decided
    <3>. QED BY <3>1 DEF RowsOK
  <2>10. CallsOK'
    BY <2>1, <2>5 DEF IInv, TypeOK, CallsOK, Calls
  <2>11. ASSUME NEW g \in Handlers PROVE JobOK(proc[g])'
    <3>1. CASE g = h
      <4>. HIDE DEF job, r
      <4>. QED
        BY <1>1, <2>1, <2>3, <2>4, <2>5, <2>6, <3>1 DEF JobOK, RowOK
    <3>2. CASE g # h
      <4>1. proc'[g] = proc[g] /\ JobOK(proc[g]) /\ proc[g] \in Jobs
        BY <2>6, <3>2 DEF IInv, TypeOK
      <4>2. CASE proc[g].op \in {"generate", "tell", "write", "list"}
        <5>1. proc[g].token \in Tokens
          BY <4>1, <4>2, JobParts
        <5>2. proc[g].op = "generate" /\ proc[g].token = t => proc[g].copy.cert # c
          BY <1>1, <3>2 DEF IInv, OneEach
        <5>3. /\ decisions' = decisions
              /\ issued[proc[g].token] \subseteq issued'[proc[g].token]
              /\ posted' = posted
              /\ \A d \in issued'[proc[g].token] :
                   d \in issued[proc[g].token] \/ (proc[g].token = t /\ d = c)
          BY <2>1, <2>5, <5>1
        <5>. QED BY <4>1, <5>2, <5>3 DEF JobOK, RowOK, Decided
      <4>3. CASE proc[g].op \notin {"generate", "tell", "write", "list"}
        BY <4>1, <4>3 DEF JobOK
      <4>. QED BY <4>2, <4>3
    <3>. QED BY <3>1, <3>2
  <2>12. OneEach'
    <3>. HIDE DEF job
    <3>. QED BY <2>4, <2>6 DEF OneEach, IInv
  <2>. QED BY <2>7, <2>8, <2>9, <2>10, <2>11, <2>12 DEF IInv
<1>. QED BY <1>2, <1>3

LEMMA RejectKeeps ==
  ASSUME PeersAssumption, IInv, NEW t \in Tokens, RejectPeerConnection(t)
  PROVE  IInv'
<1>. DEFINE r == [row["inbound"][t] EXCEPT !.status = "rejected"]
<1>1. row["inbound"][t] \in Rows
  BY DEF IInv, TypeOK, Sides
<1>2. r \in Rows /\ RowOK("inbound", t, r) /\ SetRow("inbound", t, r)
  BY <1>1 DEF RejectPeerConnection, Rows, RowOK
<1>. HIDE DEF r
<1>3. row' \in [Sides -> [Tokens -> Rows]] /\ RowsOK'
  BY <1>2, RowStep DEF RejectPeerConnection, Sides
<1>. QED
  BY <1>3, CallsStay, HistoryStays, JobsStay DEF IInv, TypeOK, RejectPeerConnection

LEMMA TakeKeeps ==
  ASSUME PeersAssumption, IInv, NEW h \in Handlers, NEW s \in Sides, NEW t \in Tokens,
         NEW cert \in 0..MaxDecisions, TakeAcceptance(h, s, t, cert),
         net' \subseteq net, posted' \subseteq Sides \X Tokens, posted \subseteq posted',
         cert \in issued[t] \/ (cert = 0 /\ <<s, t>> \in posted')
  PROVE  IInv'
<1>. DEFINE r == [row[s][t] EXCEPT !.status = "accepted", !.cert = cert]
            job == Job("write", s, t, r)
<1>1. /\ proc' = [proc EXCEPT ![h] = job]
      /\ UNCHANGED <<row, listed, sharing, decisions, issued>>
  BY DEF TakeAcceptance, Begin
<1>2. row[s][t] \in Rows
  BY DEF IInv, TypeOK
<1>3. r \in Rows /\ r.status = "accepted" /\ r.cert = cert
  BY <1>2 DEF Rows
<1>. HIDE DEF r
<1>4. cert \in issued[t] => decisions[t] > 0
  BY DEF IInv, TypeOK, IssuedOK, PeersAssumption
<1>5. \/ IF s = "outbound" THEN r.cert \in issued'[t] ELSE decisions'[t] > 0
      \/ <<s, t>> \in posted' /\ (s = "outbound" => r.cert = 0)
  BY <1>1, <1>3, <1>4 DEF Sides
<1>6. /\ job \in Jobs /\ job.op = "write" /\ job.side = s /\ job.token = t /\ job.copy = r
  BY <1>3, JobFits
<1>. HIDE DEF job
<1>7. \A g \in Handlers : proc'[g] = IF g = h THEN job ELSE proc[g]
  BY <1>1 DEF IInv, TypeOK
<1>8. TypeOK'
  BY <1>1, <1>6 DEF IInv, TypeOK
<1>9. RowsOK'
  BY <1>1 DEF IInv, RowsOK, RowOK, Decided
<1>10. IssuedOK' /\ CallsOK'
  BY <1>1 DEF IInv, IssuedOK, CallsOK
<1>11. ASSUME NEW g \in Handlers PROVE JobOK(proc[g])'
  <2>1. CASE g = h
    <3>1. proc'[g] = job
      BY <1>7, <2>1
    <3>. QED BY <1>5, <1>6, <3>1 DEF JobOK, RowOK
  <2>2. CASE g # h
    <3>1. proc'[g] = proc[g] /\ JobOK(proc[g])
      BY <1>7, <2>2 DEF IInv
    <3>. QED BY <1>1, <3>1 DEF JobOK, RowOK, Decided
  <2>. QED BY <2>1, <2>2
<1>12. OneEach'
  BY <1>6, <1>7 DEF IInv, OneEach
<1>. QED BY <1>8, <1>9, <1>10, <1>11, <1>12 DEF IInv

LEMMA AcceptanceKeeps ==
  ASSUME PeersAssumption, IInv, NEW h \in Handlers, NEW m \in net,
         ReceivePeerAcceptance(h, m)
  PROVE  IInv'
<1>1. m.to \in Sides /\ m.token \in Tokens /\ m.cert \in 0..MaxDecisions
        /\ m.cert \in issued[m.token]
  BY DEF ReceivePeerAcceptance, IInv, TypeOK, Calls, CallsOK
<1>2. net' \subseteq net /\ posted' = posted /\ posted \subseteq Sides \X Tokens
  BY DEF ReceivePeerAcceptance, IInv, TypeOK
<1>3. CASE TakeAcceptance(h, m.to, m.token, m.cert)
  BY <1>1, <1>2, <1>3, TakeKeeps
<1>4. CASE UNCHANGED <<row, listed, sharing, proc, decisions, issued>>
  BY <1>2, <1>4, JobsStay, CallsStay, HistoryStays, RowsStay DEF IInv, TypeOK
<1>. QED BY <1>3, <1>4 DEF ReceivePeerAcceptance

LEMMA PostKeeps ==
  ASSUME PeersAssumption, IInv, NEW h \in Handlers, NEW s \in Sides, NEW t \in Tokens,
         PostAcceptance(h, s, t)
  PROVE  IInv'
<1>1. /\ TakeAcceptance(h, s, t, 0) /\ net' \subseteq net
      /\ posted' \subseteq Sides \X Tokens /\ posted \subseteq posted' /\ <<s, t>> \in posted'
  BY DEF PostAcceptance, IInv, TypeOK
<1>2. 0 \in 0..MaxDecisions
  BY DEF PeersAssumption
<1>. QED BY <1>1, <1>2, TakeKeeps

LEMMA QuotaKeeps ==
  ASSUME PeersAssumption, IInv, NEW h \in Handlers, NEW s \in Sides, NEW t \in Tokens,
         UpdatePeerQuota(h, s, t)
  PROVE  IInv'
<1>. DEFINE job == Job("write", s, t, row[s][t])
<1>1. row[s][t] \in Rows /\ RowOK(s, t, row[s][t])
  BY RowHere
<1>2. job \in Jobs /\ JobOK(job) /\ job.op # "generate"
  BY <1>1, JobFits DEF JobOK
<1>3. proc' = [proc EXCEPT ![h] = job]
  BY DEF UpdatePeerQuota, Begin
<1>. QED
  BY <1>2, <1>3, JobStep, CallsStay, HistoryStays, RowsStay
     DEF IInv, TypeOK, UpdatePeerQuota

LEMMA WriteKeeps ==
  ASSUME PeersAssumption, IInv, NEW h \in Handlers, Write(h)
  PROVE  IInv'
<1>. DEFINE s == proc[h].side
            t == proc[h].token
            r == proc[h].copy
<1>1. s \in Sides /\ t \in Tokens /\ r \in Rows /\ RowOK(s, t, r)
  BY JobParts DEF IInv, TypeOK, Write, JobOK
<1>2. /\ proc' = [proc EXCEPT ![h] = Idle]
      /\ UNCHANGED <<listed, sharing, decisions, issued, posted>>
  BY DEF Write, Finish
<1>3. CASE Exists(s, t)
  <2>1. SetRow(s, t, r)
    BY <1>3 DEF Write
  <2>2. row' \in [Sides -> [Tokens -> Rows]] /\ RowsOK'
    BY <1>1, <1>2, <2>1, RowStep
  <2>3. net' \subseteq Calls /\ CallsOK'
    <3>1. CASE proc[h].op = "tell"
      <4>1. PICK to \in Sides : net' = net \cup {AcceptanceCall(to, t, r.cert)}
        BY <1>3, <3>1 DEF Write
      <4>2. r.cert \in issued[t]
        BY <3>1 DEF IInv, JobOK
      <4>3. AcceptanceCall(to, t, r.cert) \in Calls
        BY <1>1, RowParts DEF AcceptanceCall, Calls, Sides
      <4>. QED
        BY <1>2, <4>1, <4>2, <4>3 DEF IInv, TypeOK, CallsOK, AcceptanceCall
    <3>2. CASE proc[h].op # "tell"
      <4>1. net' = net
        BY <1>3, <3>2 DEF Write
      <4>. QED BY <1>2, <4>1, CallsStay
    <3>. QED BY <3>1, <3>2
  <2>. QED
    BY <1>2, <2>2, <2>3, JobStep, IdleFits, HistoryStays DEF IInv, TypeOK
<1>4. CASE ~Exists(s, t)
  <2>1. UNCHANGED <<row, net>>
    BY <1>4 DEF Write
  <2>. QED
    BY <1>2, <2>1, JobStep, IdleFits, CallsStay, HistoryStays, RowsStay DEF IInv, TypeOK
<1>. QED BY <1>3, <1>4

LEMMA DeleteKeeps ==
  ASSUME PeersAssumption, IInv, NEW s \in Sides, NEW t \in Tokens, NEW b \in BOOLEAN,
         DeletePeerServer(s, t, b)
  PROVE  IInv'
<1>1. row' \in [Sides -> [Tokens -> Rows]] /\ RowsOK'
  BY NewRowsFit, RowStep DEF DeletePeerServer, RowOK
<1>. QED
  BY <1>1, CallsStay, HistoryStays, JobsStay DEF IInv, TypeOK, DeletePeerServer

LEMMA CheckKeeps ==
  ASSUME PeersAssumption, IInv, NEW h \in Handlers, NEW s \in Sides, NEW t \in Tokens,
         CheckForSharing(h, s, t)
  PROVE  IInv'
<1>. DEFINE job == Job("list", s, t, NewRow)
<1>1. Decided(s, t)
  BY RowHere, AcceptedDecided DEF CheckForSharing, Accepted
<1>2. job \in Jobs /\ JobOK(job) /\ job.op # "generate"
  BY <1>1, NewRowsFit, JobFits DEF JobOK
<1>3. proc' = [proc EXCEPT ![h] = job]
  BY DEF CheckForSharing, Begin
<1>. QED
  BY <1>2, <1>3, JobStep, CallsStay, HistoryStays, RowsStay
     DEF IInv, TypeOK, CheckForSharing

LEMMA AddKeeps ==
  ASSUME PeersAssumption, IInv, NEW h \in Handlers, NEW b \in BOOLEAN, AddToList(h, b)
  PROVE  IInv'
<1>. DEFINE s == proc[h].side
            t == proc[h].token
<1>1. s \in Sides /\ t \in Tokens /\ Decided(s, t)
  BY JobParts DEF IInv, TypeOK, AddToList, JobOK
<1>2. listed' = listed \/ listed' = [listed EXCEPT ![s][t] = "enabled"]
  BY DEF AddToList
<1>3. listed' \in [Sides -> [Tokens -> {"absent", "enabled", "disabled"}]]
  <2>1. [listed EXCEPT ![s][t] = "enabled"]
          \in [Sides -> [Tokens -> {"absent", "enabled", "disabled"}]]
    BY <1>1 DEF IInv, TypeOK
  <2>. QED BY <1>2, <2>1 DEF IInv, TypeOK
<1>4. \A x \in Sides, y \in Tokens :
        listed'[x][y] # "absent" => listed[x][y] # "absent" \/ (x = s /\ y = t)
  BY <1>1, <1>2 DEF IInv, TypeOK
<1>5. RowsOK'
  BY <1>1, <1>4 DEF AddToList, IInv, RowsOK, RowOK, Decided
<1>6. row' = row /\ sharing' = sharing /\ net' = net /\ UNCHANGED <<decisions, issued, posted>>
        /\ proc' = [proc EXCEPT ![h] = Idle]
  BY DEF AddToList, Finish
<1>. QED
  BY <1>3, <1>5, <1>6, JobStep, IdleFits, CallsStay, HistoryStays DEF IInv, TypeOK

LEMMA ListKeeps ==
  ASSUME IInv, NEW s \in Sides, NEW t \in Tokens,
         (\E b \in BOOLEAN : UpdatePeerSharing(s, t, b)) \/ RemovePeerSharing(s, t)
  PROVE  IInv'
<1>1. /\ listed[s][t] # "absent" /\ UNCHANGED <<row, sharing, net, proc, decisions, issued, posted>>
      /\ \E v \in {"absent", "enabled", "disabled"} :
           listed' = [listed EXCEPT ![s][t] = v]
  BY DEF UpdatePeerSharing, RemovePeerSharing
<1>2. listed' \in [Sides -> [Tokens -> {"absent", "enabled", "disabled"}]]
  BY <1>1 DEF IInv, TypeOK
<1>3. \A x \in Sides, y \in Tokens :
        listed'[x][y] # "absent" => listed[x][y] # "absent"
  BY <1>1 DEF IInv, TypeOK
<1>4. RowsOK'
  BY <1>1, <1>3 DEF IInv, RowsOK, RowOK, Decided
<1>. QED
  BY <1>1, <1>2, <1>4, JobsStay, CallsStay, HistoryStays DEF IInv, TypeOK

LEMMA SettingsKeeps ==
  ASSUME IInv, NEW enabled \in BOOLEAN, UpdateSettings(enabled)
  PROVE  IInv'
BY RowsStay, JobsStay, CallsStay, HistoryStays DEF IInv, TypeOK, UpdateSettings

LEMMA ConfirmKeeps ==
  ASSUME IInv, NEW h \in Handlers, ConfirmDisable(h) \/ DisableComplete(h)
  PROVE  IInv'
<1>1. CASE ConfirmDisable(h)
  <2>. DEFINE job == Confirming(sharing)
  <2>1. job \in Jobs /\ JobOK(job) /\ job.op # "generate"
    BY DEF Confirming, Jobs, JobOK, IInv, TypeOK
  <2>2. /\ proc' = [proc EXCEPT ![h] = job]
        /\ UNCHANGED <<row, listed, sharing, net, decisions, issued, posted>>
    BY <1>1 DEF ConfirmDisable, Begin
  <2>. QED
    BY <2>1, <2>2, JobStep, RowsStay, CallsStay, HistoryStays DEF IInv, TypeOK
<1>2. CASE DisableComplete(h)
  <2>1. /\ proc' = [proc EXCEPT ![h] = Idle]
        /\ UNCHANGED <<row, listed, net, decisions, issued, posted>>
    BY <1>2 DEF DisableComplete, Finish
  <2>2. sharing' \in BOOLEAN
    BY <1>2 DEF DisableComplete, IInv, TypeOK, Jobs, Idle
  <2>. QED
    BY <2>1, <2>2, JobStep, IdleFits, RowsStay, CallsStay, HistoryStays DEF IInv, TypeOK
<1>. QED BY <1>1, <1>2

-----------------------------------------------------------------------------
LEMMA InitIInv ==
  ASSUME PeersAssumption, Init
  PROVE  IInv
<1>1. TypeOK
  <2>1. Idle \in Jobs /\ NoRow \in Rows /\ 0 \in 0..MaxDecisions
    BY NewRowsFit, IdleFits DEF PeersAssumption
  <2>. QED BY <2>1 DEF Init, TypeOK
<1>. QED
  BY <1>1, NewRowsFit
     DEF Init, IInv, IssuedOK, RowsOK, RowOK, CallsOK, JobOK, OneEach, Idle

LEMMA NextIInv ==
  ASSUME PeersAssumption, IInv, Next
  PROVE  IInv'
<1>1. CASE \E t \in Tokens :
             \/ RequestPeerConnection(t)
             \/ RejectPeerConnection(t)
  BY <1>1, RequestKeeps, RejectKeeps
<1>2. CASE \E m \in net : ReceivePeerConnection(m) \/ Lose(m)
  BY <1>2, ReceiveKeeps, LoseKeeps
<1>3. ASSUME NEW h \in Handlers, Handling(h) PROVE IInv'
  BY <1>3, AcceptKeeps, GenerateKeeps, AcceptanceKeeps, PostKeeps, QuotaKeeps, CheckKeeps,
     WriteKeeps, AddKeeps, ConfirmKeeps DEF Handling
<1>4. CASE \E s \in Sides, t \in Tokens, b \in BOOLEAN :
             DeletePeerServer(s, t, b) \/ UpdatePeerSharing(s, t, b)
  BY <1>4, DeleteKeeps, ListKeeps
<1>5. CASE \E s \in Sides, t \in Tokens : RemovePeerSharing(s, t)
  BY <1>5, ListKeeps
<1>6. CASE \E enabled \in BOOLEAN : UpdateSettings(enabled)
  BY <1>6, SettingsKeeps
<1>. QED BY <1>1, <1>2, <1>3, <1>4, <1>5, <1>6 DEF Next

\* Every row and every copy of one that says "accepted" goes back to a decision,
\* or to an acceptance that neither controller sent and that was posted to this
\* side, and no two handlers generate the certificates of one decision.
THEOREM Invariant == Spec => []IInv
<1>1. ASSUME IInv, [Next]_vars PROVE IInv'
  <2>1. CASE Next
    BY <1>1, <2>1, NextIInv, PeersAssumption
  <2>2. CASE UNCHANGED vars
    BY <1>1, <2>2, RowsStay, JobsStay, CallsStay, HistoryStays DEF vars, IInv, TypeOK
  <2>. QED BY <1>1, <2>1, <2>2
<1>. QED BY <1>1, InitIInv, PeersAssumption, PTL DEF Spec

\* Whatever rows stale copies overwrite, nobody gets into a sharing list and no
\* shard is sent or taken without the decision of the administrator asked, unless
\* an acceptance that neither controller sent was posted to this side.
THEOREM DecisionComesFirst == Spec => []SharingNeedsDecision
<1>1. ASSUME IInv, NEW t \in Tokens
      PROVE  /\ <<"outbound", t>> \notin posted =>
                  /\ listed["outbound"][t] # "absent" => issued[t] # {}
                  /\ UsedForShards(t) => row["outbound"][t].cert \in issued[t]
             /\ <<"inbound", t>> \notin posted =>
                  (listed["inbound"][t] # "absent" \/ TakesShardsOf(t) => decisions[t] > 0)
  <2>1. "outbound" \in Sides /\ "inbound" \in Sides
    BY DEF Sides
  <2>2. /\ <<"outbound", t>> \notin posted /\ listed["outbound"][t] # "absent"
             => issued[t] # {}
        /\ <<"inbound", t>> \notin posted /\ listed["inbound"][t] # "absent"
             => decisions[t] > 0
    BY <1>1, <2>1, RowHere DEF Decided
  <2>3. <<"outbound", t>> \notin posted /\ UsedForShards(t)
          => row["outbound"][t].cert \in issued[t]
    BY <1>1, <2>1, RowHere DEF RowOK, UsedForShards, Accepted
  <2>. QED BY <2>2, <2>3 DEF TakesShardsOf
<1>2. IInv => SharingNeedsDecision
  BY <1>1 DEF SharingNeedsDecision
<1>. QED BY <1>2, Invariant, PTL

-----------------------------------------------------------------------------
(* The refinement of PeerLink *)

\* The decision whose certificate the asking controller trusts.
Trusted(t) == IF Accepted("outbound", t) THEN {row["outbound"][t].cert} ELSE {}

\* A step that only writes the row of a request has the asking controller trust
\* what it trusted, nothing, a certificate that was issued, or a posted one.
LEMMA RowLinks ==
  ASSUME IInv, NEW s \in Sides, NEW t \in Tokens, NEW r \in Rows,
         SetRow(s, t, r), RowOK(s, t, r), UNCHANGED <<decisions, issued, posted>>
  PROVE  Link!Next \/ UNCHANGED Link!vars
<1>. DEFINE T == [u \in Tokens |-> Trusted(u)]
<1>1. \A x \in Sides, y \in Tokens : row'[x][y] = IF x = s /\ y = t THEN r ELSE row[x][y]
  BY DEF SetRow, IInv, TypeOK
<1>2. CASE s = "inbound"
  <2>1. \A u \in Tokens : row'["outbound"][u] = row["outbound"][u]
    BY <1>1, <1>2 DEF Sides
  <2>. QED BY <2>1 DEF Link!vars, Accepted
<1>3. CASE s = "outbound"
  <2>. DEFINE c == IF r.status = "accepted" THEN {r.cert} ELSE {}
  <2>1. \A u \in Tokens : Trusted(u)' = IF u = t THEN c ELSE Trusted(u)
    BY <1>1, <1>3 DEF Trusted, Accepted, Sides
  <2>2. T' = [T EXCEPT ![t] = c]
    BY <2>1
  <2>3. CASE r.status = "accepted"
    <3>1. /\ r.cert \in issued[t] \/ (r.cert = 0 /\ <<"outbound", t>> \in posted)
          /\ r.cert \in 0..decisions[t]
      BY <1>3, <2>3 DEF RowOK, IInv, IssuedOK, TypeOK
    <3>. QED BY <2>2, <2>3, <3>1 DEF Link!Next, Link!Trust, Trusted
  <2>4. CASE r.status # "accepted"
    BY <2>2, <2>4 DEF Link!Next, Link!Distrust, Trusted
  <2>. QED BY <2>3, <2>4
<1>. QED BY <1>2, <1>3 DEF Sides

LEMMA QuietLinks ==
  ASSUME UNCHANGED <<row, decisions, issued, posted>>
  PROVE  UNCHANGED Link!vars
BY DEF Link!vars, Accepted

LEMMA AcceptLinks ==
  ASSUME IInv, NEW h \in Handlers, NEW t \in Tokens, Accept(h, t)
  PROVE  Link!Next
<1>1. \A u \in Tokens : row'["outbound"][u] = row["outbound"][u]
  BY DEF Accept, SetRow, IInv, TypeOK, Sides
<1>. QED BY <1>1 DEF Accept, Link!Next, Link!Decide, Accepted

LEMMA GenerateLinks ==
  ASSUME IInv, NEW h \in Handlers, Generate(h)
  PROVE  Link!Next \/ UNCHANGED Link!vars
<1>. DEFINE t == proc[h].token
            c == proc[h].copy.cert
<1>1. /\ t \in Tokens /\ c \in 1..decisions[t] /\ c \notin issued[t]
      /\ decisions[t] \in Nat /\ c \in 0..decisions[t]
  BY JobParts DEF IInv, TypeOK, Generate, JobOK
<1>2. CASE Exists("inbound", t)
  <2>1. /\ issued' = [issued EXCEPT ![t] = @ \cup {c}]
        /\ UNCHANGED <<row, decisions, posted>>
    BY <1>2 DEF Generate
  <2>. QED BY <1>1, <2>1 DEF Link!Next, Link!Issue, Accepted
<1>3. CASE ~Exists("inbound", t)
  BY <1>3, QuietLinks DEF Generate
<1>. QED BY <1>2, <1>3

LEMMA WriteLinks ==
  ASSUME IInv, NEW h \in Handlers, Write(h)
  PROVE  Link!Next \/ UNCHANGED Link!vars
<1>. DEFINE s == proc[h].side
            t == proc[h].token
            r == proc[h].copy
<1>1. s \in Sides /\ t \in Tokens /\ r \in Rows /\ RowOK(s, t, r)
  BY JobParts DEF IInv, TypeOK, Write, JobOK
<1>2. UNCHANGED <<decisions, issued, posted>>
  BY DEF Write
<1>3. SetRow(s, t, r) \/ UNCHANGED row
  BY DEF Write
<1>. QED BY <1>1, <1>2, <1>3, RowLinks, QuietLinks

LEMMA PostLinks ==
  ASSUME NEW h \in Handlers, NEW s \in Sides, NEW t \in Tokens, PostAcceptance(h, s, t)
  PROVE  Link!Next \/ UNCHANGED Link!vars
<1>. DEFINE P == {u \in Tokens : <<"outbound", u>> \in posted}
<1>1. UNCHANGED <<row, decisions, issued>> /\ posted' = posted \cup {<<s, t>>}
  BY DEF PostAcceptance, TakeAcceptance
<1>2. P' = IF s = "outbound" THEN P \cup {t} ELSE P
  BY <1>1 DEF Sides
<1>. QED BY <1>1, <1>2 DEF Link!Next, Link!Post, Link!vars, Accepted

LEMMA StepLinks ==
  ASSUME PeersAssumption, IInv, Next
  PROVE  Link!Next \/ UNCHANGED Link!vars
<1>1. ASSUME NEW t \in Tokens, RequestPeerConnection(t) PROVE Link!Next \/ UNCHANGED Link!vars
  BY <1>1, NewRowsFit, RowLinks DEF RequestPeerConnection, RowOK, Sides
<1>2. ASSUME NEW t \in Tokens, RejectPeerConnection(t) PROVE Link!Next \/ UNCHANGED Link!vars
  <2>. DEFINE r == [row["inbound"][t] EXCEPT !.status = "rejected"]
  <2>1. row["inbound"][t] \in Rows
    BY DEF IInv, TypeOK, Sides
  <2>2. r \in Rows /\ RowOK("inbound", t, r) /\ SetRow("inbound", t, r)
    BY <1>2, <2>1 DEF RejectPeerConnection, Rows, RowOK
  <2>. QED BY <1>2, <2>2, RowLinks DEF RejectPeerConnection, Sides
<1>4. ASSUME NEW m \in net, ReceivePeerConnection(m) PROVE Link!Next \/ UNCHANGED Link!vars
  <2>1. m.token \in Tokens
    BY DEF IInv, TypeOK, Calls
  <2>. QED
    BY <1>4, <2>1, NewRowsFit, RowLinks DEF ReceivePeerConnection, RowOK, Sides
<1>5. ASSUME NEW s \in Sides, NEW t \in Tokens, NEW b \in BOOLEAN, DeletePeerServer(s, t, b)
      PROVE  Link!Next \/ UNCHANGED Link!vars
  BY <1>5, NewRowsFit, RowLinks DEF DeletePeerServer, RowOK
<1>6. ASSUME NEW h \in Handlers, Handling(h) PROVE Link!Next \/ UNCHANGED Link!vars
  <2>1. CASE \E t \in Tokens : Accept(h, t)
    BY <2>1, AcceptLinks
  <2>2. CASE Generate(h)
    BY <2>2, GenerateLinks
  <2>3. CASE Write(h)
    BY <2>3, WriteLinks
  <2>4. CASE \/ \E m \in net : ReceivePeerAcceptance(h, m)
             \/ \E s \in Sides, t \in Tokens : UpdatePeerQuota(h, s, t) \/ CheckForSharing(h, s, t)
             \/ \E enforced \in BOOLEAN : AddToList(h, enforced)
             \/ ConfirmDisable(h)
             \/ DisableComplete(h)
    <3>1. UNCHANGED <<row, decisions, issued, posted>>
      BY <2>4 DEF ReceivePeerAcceptance, TakeAcceptance, UpdatePeerQuota, CheckForSharing,
                  AddToList,
                  ConfirmDisable, DisableComplete
    <3>. QED BY <3>1, QuietLinks
  <2>5. CASE \E s \in Sides, t \in Tokens : PostAcceptance(h, s, t)
    BY <2>5, PostLinks
  <2>. QED BY <1>6, <2>1, <2>2, <2>3, <2>4, <2>5 DEF Handling
<1>7. ASSUME \/ \E m \in net : Lose(m)
             \/ \E s \in Sides, t \in Tokens :
                  RemovePeerSharing(s, t) \/ \E b \in BOOLEAN : UpdatePeerSharing(s, t, b)
             \/ \E enabled \in BOOLEAN : UpdateSettings(enabled)
      PROVE  UNCHANGED Link!vars
  <2>1. UNCHANGED <<row, decisions, issued, posted>>
    BY <1>7 DEF Lose, RemovePeerSharing, UpdatePeerSharing, UpdateSettings
  <2>. QED BY <2>1, QuietLinks
<1>. QED
  BY <1>1, <1>2, <1>4, <1>5, <1>6, <1>7 DEF Next

\* The two controllers implement the connection that PeerLink describes: no
\* certificate is trusted that was not issued for the request, unless an
\* acceptance brought it that neither sent, and every decision issues at most one.
THEOREM Refinement == Spec => Connects
<1>1. Init => Link!Init
  BY DEF Init, Link!Init, Accepted, NoRow, Row, Sides
<1>2. ASSUME IInv, [Next]_vars PROVE [Link!Next]_(Link!vars)
  <2>1. CASE Next
    BY <1>2, <2>1, StepLinks, PeersAssumption
  <2>2. CASE UNCHANGED vars
    BY <2>2, QuietLinks DEF vars
  <2>. QED BY <1>2, <2>1, <2>2
<1>. QED BY <1>1, <1>2, Invariant, PTL DEF Spec, Connects, Link!Spec
=============================================================================
