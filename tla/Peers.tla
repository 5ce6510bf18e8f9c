------------------------------- MODULE Peers -------------------------------
(***************************************************************************)
(* Two controllers that connect as peers, and the lists of peers that      *)
(* share files (handlers/peer_server_handler.go,                           *)
(* handlers/peer_file_sharing_handler.go and their models).                *)
(*                                                                         *)
(* A token names a connection request.  The controller that asks keeps it  *)
(* in an "outbound" row, the one that is asked in an "inbound" row; they   *)
(* talk through two calls that are made once, in the background, and may   *)
(* be lost.  A handler reads a row, works on its copy and writes every     *)
(* column back, or checks a row and inserts another: what others wrote in  *)
(* between is overwritten.                                                 *)
(*                                                                         *)
(* An acceptance goes to the URL that came with the request, and the       *)
(* controller that gets it finds a row by the token alone: it looks        *)
(* neither at the type of the row nor at who called.  So the call may get  *)
(* to either controller, and an acceptance may come that neither sent.     *)
(*                                                                         *)
(* Certificates are numbered by the acceptance that generated them; 0 is   *)
(* one that no acceptance generated, or none.  Names and URLs are left     *)
(* out, and so are the quotas, storage_remaining, is_active and the switch *)
(* for complete storage, which decide nothing here.                        *)
(***************************************************************************)
EXTENDS Naturals, FiniteSets

CONSTANTS
  Tokens,
  Handlers,      \* goroutines that serve HTTP requests, of both controllers
  MaxDecisions,  \* bound: acceptances of a request
  MaxPosted      \* bound: the size of posted

ASSUME PeersAssumption == MaxDecisions \in Nat /\ MaxPosted \in Nat

VARIABLES
  row,        \* row[s][t]: peer_servers on side s
  listed,     \* listed[s][t]: peer_sharing_outbound, peer_sharing_inbound
  sharing,    \* peer_file_sharing_settings.enabled of the asking controller
  net,        \* calls to the other controller that are under way
  proc,       \* what each handler does
  decisions, issued,  \* history: acceptances, and those with certificates
  posted      \* history: sides and tokens of acceptances that neither sent

vars == <<row, listed, sharing, net, proc, decisions, issued, posted>>

Sides == {"outbound", "inbound"}

Row(status, cert) == [status |-> status, cert |-> cert]

NoRow   == Row("none", 0)
NewRow  == Row("pending", 0)
Deleted == Row("deleted", 0)

Rows == [status : {"none", "pending", "accepted", "rejected", "deleted"},
         cert : 0..MaxDecisions]

RequestCall(t) == [call |-> "request", to |-> "inbound", token |-> t, cert |-> 0]

AcceptanceCall(s, t, cert) ==
  [call |-> "acceptance", to |-> s, token |-> t, cert |-> cert]

Calls == [call : {"request", "acceptance"}, to : Sides, token : Tokens,
          cert : 0..MaxDecisions]

Exists(s, t) == row[s][t].status \notin {"none", "deleted"}

Job(op, s, t, copy) == [op |-> op, side |-> s, token |-> t, copy |-> copy]

Confirming(enabled) == [op |-> "confirm", enabled |-> enabled]

Idle == [op |-> "none"]

Jobs == [op : {"generate", "tell", "write", "list"}, side : Sides, token : Tokens, copy : Rows]
        \cup [op : {"confirm"}, enabled : BOOLEAN] \cup {Idle}

TypeOK ==
  /\ row \in [Sides -> [Tokens -> Rows]]
  /\ listed \in [Sides -> [Tokens -> {"absent", "enabled", "disabled"}]]
  /\ sharing \in BOOLEAN
  /\ net \subseteq Calls
  /\ proc \in [Handlers -> Jobs]
  /\ decisions \in [Tokens -> 0..MaxDecisions]
  /\ issued \in [Tokens -> SUBSET (1..MaxDecisions)]
  /\ posted \subseteq Sides \X Tokens

Init ==
  /\ row = [s \in Sides |-> [t \in Tokens |-> NoRow]]
  /\ listed = [s \in Sides |-> [t \in Tokens |-> "absent"]]
  /\ sharing = FALSE
  /\ net = {}
  /\ proc = [h \in Handlers |-> Idle]
  /\ decisions = [t \in Tokens |-> 0]
  /\ issued = [t \in Tokens |-> {}]
  /\ posted = {}

SetRow(s, t, r) == row' = [row EXCEPT ![s][t] = r]

Begin(h, job) == proc[h] = Idle /\ proc' = [proc EXCEPT ![h] = job]

Finish(h) == proc' = [proc EXCEPT ![h] = Idle]

-----------------------------------------------------------------------------
(* The handshake *)

RequestPeerConnection(t) ==
  /\ row["outbound"][t] = NoRow
  /\ SetRow("outbound", t, NewRow)
  /\ net' = net \cup {RequestCall(t)}
  /\ UNCHANGED <<listed, sharing, proc, decisions, issued, posted>>

ReceivePeerConnection(m) ==
  /\ m \in net /\ m.call = "request"
  /\ net' = net \ {m}
  /\ SetRow("inbound", m.token, NewRow)
  /\ UNCHANGED <<listed, sharing, proc, decisions, issued, posted>>

\* The background call fails: it is only logged.
Lose(m) ==
  /\ m \in net
  /\ net' = net \ {m}
  /\ UNCHANGED <<row, listed, sharing, proc, decisions, issued, posted>>

Pending(t) == row["inbound"][t].status = "pending"

\* mutant: the notification starts before the certificates are there
AcceptAndTell(h, t) ==
  /\ Pending(t)
  /\ decisions[t] < MaxDecisions
  /\ SetRow("inbound", t, [row["inbound"][t] EXCEPT !.status = "accepted"])
  /\ decisions' = [decisions EXCEPT ![t] = @ + 1]
  /\ net' = net \cup {AcceptanceCall("outbound", t, decisions'[t])}
  /\ Begin(h, Job("generate", "inbound", t, [NewRow EXCEPT !.cert = decisions'[t]]))
  /\ UNCHANGED <<listed, sharing, issued, posted>>

\* AcceptPeerConnectionHandler: the conditional UPDATE of AcceptPeerRequest.
Accept(h, t) ==
  /\ Pending(t)
  /\ decisions[t] < MaxDecisions
  /\ SetRow("inbound", t, [row["inbound"][t] EXCEPT !.status = "accepted"])
  /\ decisions' = [decisions EXCEPT ![t] = @ + 1]
  /\ Begin(h, Job("generate", "inbound", t, [NewRow EXCEPT !.cert = decisions'[t]]))
  /\ UNCHANGED <<listed, sharing, net, issued, posted>>

\* Then it reads the row and generates certificates into its copy.
Generate(h) ==
  /\ proc[h].op = "generate"
  /\ LET t == proc[h].token
         c == proc[h].copy.cert
     IN  IF Exists("inbound", t)
         THEN /\ proc' = [proc EXCEPT ![h] =
                   Job("tell", "inbound", t, [row["inbound"][t] EXCEPT !.cert = c])]
              /\ issued' = [issued EXCEPT ![t] = @ \cup {c}]
         ELSE Finish(h) /\ issued' = issued
  /\ UNCHANGED <<row, listed, sharing, net, decisions, posted>>

RejectPeerConnection(t) ==
  /\ Pending(t)
  /\ SetRow("inbound", t, [row["inbound"][t] EXCEPT !.status = "rejected"])
  /\ UNCHANGED <<listed, sharing, net, proc, decisions, issued, posted>>

\* ReceivePeerAcceptanceHandler finds the row by the token, of any type.
TakeAcceptance(h, s, t, cert) ==
  /\ Exists(s, t)
  /\ Begin(h, Job("write", s, t, [row[s][t] EXCEPT !.status = "accepted", !.cert = cert]))
  /\ UNCHANGED <<row, listed, sharing, decisions, issued>>

ReceivePeerAcceptance(h, m) ==
  /\ m \in net /\ m.call = "acceptance"
  /\ net' = net \ {m}
  /\ \/ TakeAcceptance(h, m.to, m.token, m.cert)
     \/ ~Exists(m.to, m.token) /\ UNCHANGED <<row, listed, sharing, proc, decisions, issued>>
  /\ posted' = posted

\* The endpoint is open: an acceptance that neither controller sent.
PostAcceptance(h, s, t) ==
  /\ TakeAcceptance(h, s, t, 0)
  /\ posted' = posted \cup {<<s, t>>}
  /\ Cardinality(posted') <= MaxPosted
  /\ net' = net

\* UpdatePeerQuotaHandler reads the row for the sake of quota_used.
UpdatePeerQuota(h, s, t) ==
  /\ Exists(s, t)
  /\ Begin(h, Job("write", s, t, row[s][t]))
  /\ UNCHANGED <<row, listed, sharing, net, decisions, issued, posted>>

(***************************************************************************)
(* UpdatePeerServer writes the copy, whatever the row has become, unless   *)
(* it is gone.  The handler of an acceptance then tells the other side.    *)
(***************************************************************************)
Write(h) ==
  /\ proc[h].op \in {"write", "tell"}
  /\ LET s == proc[h].side
         t == proc[h].token
         r == proc[h].copy
     IN  IF Exists(s, t)
         THEN /\ SetRow(s, t, r)
              /\ \/ proc[h].op = "write" /\ net' = net
                 \/ /\ proc[h].op = "tell"
                    /\ \E to \in Sides :
                         net' = net \cup {AcceptanceCall(to, t, r.cert)}
         ELSE UNCHANGED <<row, net>>
  /\ Finish(h)
  /\ UNCHANGED <<listed, sharing, decisions, issued, posted>>

\* The other side is not told.  A list that names the row makes the DELETE
\* fail on a connection that enforces foreign keys.
DeletePeerServer(s, t, enforced) ==
  /\ Exists(s, t)
  /\ enforced => listed[s][t] = "absent"
  /\ SetRow(s, t, Deleted)
  /\ UNCHANGED <<listed, sharing, net, proc, decisions, issued, posted>>

-----------------------------------------------------------------------------
(* Sharing *)

Accepted(s, t) == row[s][t].status = "accepted"

\* mutant: only looks whether the peer is there
CheckExistsForSharing(h, s, t) ==
  /\ Exists(s, t)
  /\ Begin(h, Job("list", s, t, NewRow))
  /\ UNCHANGED <<row, listed, sharing, net, decisions, issued, posted>>

\* AddPeerSharingOutbound and AddPeerSharingInbound check the row ...
CheckForSharing(h, s, t) ==
  /\ Accepted(s, t)
  /\ Begin(h, Job("list", s, t, NewRow))
  /\ UNCHANGED <<row, listed, sharing, net, decisions, issued, posted>>

\* ... and insert an entry or enable the one that is there.
AddToList(h, enforced) ==
  /\ proc[h].op = "list"
  /\ LET s == proc[h].side
         t == proc[h].token
     IN  listed' = IF enforced => Exists(s, t)
                   THEN [listed EXCEPT ![s][t] = "enabled"] ELSE listed
  /\ Finish(h)
  /\ UNCHANGED <<row, sharing, net, decisions, issued, posted>>

UpdatePeerSharing(s, t, enabled) ==
  /\ listed[s][t] # "absent"
  /\ listed' = [listed EXCEPT ![s][t] = IF enabled THEN "enabled" ELSE "disabled"]
  /\ UNCHANGED <<row, sharing, net, proc, decisions, issued, posted>>

RemovePeerSharing(s, t) ==
  /\ listed[s][t] # "absent"
  /\ listed' = [listed EXCEPT ![s][t] = "absent"]
  /\ UNCHANGED <<row, sharing, net, proc, decisions, issued, posted>>

\* Shards on peers would have to be counted and confirmed before complete
\* storage is switched off, but no code sets the column they are counted by.
UpdateSettings(enabled) ==
  /\ sharing' = enabled
  /\ UNCHANGED <<row, listed, net, proc, decisions, issued, posted>>

\* ConfirmDisableCompleteStorageHandler reads the settings ...
ConfirmDisable(h) ==
  /\ Begin(h, Confirming(sharing))
  /\ UNCHANGED <<row, listed, sharing, net, decisions, issued, posted>>

\* ... and writes both of them.
DisableComplete(h) ==
  /\ proc[h].op = "confirm"
  /\ sharing' = proc[h].enabled
  /\ Finish(h)
  /\ UNCHANGED <<row, listed, net, decisions, issued, posted>>

\* GetEnabledOutboundPeersForSharing: peers that a distribution may use, while
\* the monitor finds them active.
UsedForShards(t) ==
  /\ sharing
  /\ listed["outbound"][t] = "enabled" /\ Accepted("outbound", t)

\* ReceivePeerFileHandler: senders whose shards are taken, if its controller
\* shares at all.
TakesShardsOf(t) == listed["inbound"][t] = "enabled" /\ Accepted("inbound", t)

-----------------------------------------------------------------------------
Handling(h) ==
  \/ \E t \in Tokens : Accept(h, t)
  \/ Generate(h)
  \/ \E m \in net : ReceivePeerAcceptance(h, m)
  \/ \E s \in Sides, t \in Tokens :
       PostAcceptance(h, s, t) \/ UpdatePeerQuota(h, s, t) \/ CheckForSharing(h, s, t)
  \/ Write(h)
  \/ \E enforced \in BOOLEAN : AddToList(h, enforced)
  \/ ConfirmDisable(h)
  \/ DisableComplete(h)

Next ==
  \/ \E t \in Tokens :
       \/ RequestPeerConnection(t)
       \/ RejectPeerConnection(t)
  \/ \E m \in net : ReceivePeerConnection(m) \/ Lose(m)
  \/ \E h \in Handlers : Handling(h)
  \/ \E s \in Sides, t \in Tokens, b \in BOOLEAN :
       \/ DeletePeerServer(s, t, b)
       \/ UpdatePeerSharing(s, t, b)
  \/ \E s \in Sides, t \in Tokens : RemovePeerSharing(s, t)
  \/ \E enabled \in BOOLEAN : UpdateSettings(enabled)

Spec == Init /\ [][Next]_vars

-----------------------------------------------------------------------------
(* Properties *)

\* The connection is what PeerLink promises: whatever calls are lost and
\* whatever rows are overwritten with stale copies, the controller that
\* asked trusts only certificates that were issued for its request or that an
\* acceptance brought which no controller sent, and every acceptance of the
\* administrator issues them once at most.
Link == INSTANCE PeerLink WITH
  decisions <- decisions,
  issued    <- issued,
  posted    <- {t \in Tokens : <<"outbound", t>> \in posted},
  trusted   <- [t \in Tokens |-> IF Accepted("outbound", t)
                                  THEN {row["outbound"][t].cert} ELSE {}]

Connects == Link!Spec

\* A peer gets into a sharing list, and shards go to a peer or are taken from
\* it, only if the administrator of the controller that was asked accepted
\* the request, although the lists are filled after the check of a row that
\* others change, keep entries of deleted rows, and rows go back to what a
\* stale copy says.  Shards are sent with a certificate that was issued.  The
\* exception: an acceptance that neither controller sent was posted to the
\* open endpoint of the side in question and found the row by its token.
SharingNeedsDecision ==
  \A t \in Tokens :
    /\ <<"outbound", t>> \notin posted =>
         /\ listed["outbound"][t] # "absent" => issued[t] # {}
         /\ UsedForShards(t) => row["outbound"][t].cert \in issued[t]
    /\ <<"inbound", t>> \notin posted =>
         (listed["inbound"][t] # "absent" \/ TakesShardsOf(t) => decisions[t] > 0)

(* The inductive invariant. *)

\* A row, or the copy of one, on side s.
RowOK(s, t, r) ==
  r.status = "accepted" =>
    \/ IF s = "outbound" THEN r.cert \in issued[t] ELSE decisions[t] > 0
    \/ <<s, t>> \in posted /\ (s = "outbound" => r.cert = 0)

\* What the entry of a list stands for.
Decided(s, t) ==
  \/ IF s = "outbound" THEN issued[t] # {} ELSE decisions[t] > 0
  \/ <<s, t>> \in posted

JobOK(j) ==
  /\ j.op = "generate" => /\ j.side = "inbound"
                          /\ j.copy.cert \in 1..decisions[j.token]
                          /\ j.copy.cert \notin issued[j.token]
  /\ j.op = "tell" => j.side = "inbound" /\ j.copy.cert \in issued[j.token]
  /\ j.op \in {"tell", "write"} => RowOK(j.side, j.token, j.copy)
  /\ j.op = "list" => Decided(j.side, j.token)

IssuedOK == \A t \in Tokens : issued[t] \subseteq 1..decisions[t]

RowsOK ==
  \A s \in Sides, t \in Tokens : /\ RowOK(s, t, row[s][t])
                                 /\ listed[s][t] # "absent" => Decided(s, t)

CallsOK == \A m \in net : m.call = "acceptance" => m.cert \in issued[m.token]

\* No two handlers generate the certificates of one acceptance.
OneEach ==
  \A g, h \in Handlers :
    /\ g # h
    /\ proc[g].op = "generate" /\ proc[h].op = "generate"
    /\ proc[g].token = proc[h].token
    => proc[g].copy.cert # proc[h].copy.cert

IInv ==
  /\ TypeOK
  /\ IssuedOK
  /\ RowsOK
  /\ CallsOK
  /\ \A h \in Handlers : JobOK(proc[h])
  /\ OneEach
=============================================================================
