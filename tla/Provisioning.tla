---------------------------- MODULE Provisioning ----------------------------
(***************************************************************************)
(* How a storage node enters the cluster and leaves it: one-time           *)
(* passwords, enrollment requests, their approval or rejection by an       *)
(* administrator, the certificates (os_nodes and the revocation list), the *)
(* storage_nodes table, which the health monitor writes too, and the list  *)
(* of endpoints that the controller's node client keeps in memory.         *)
(*                                                                         *)
(* Every handler is a goroutine; one SQL statement, or one transaction, is *)
(* one step.  The id of an enrolled node is the second in which its row is *)
(* inserted, so a node is here a number, which also stands for the         *)
(* certificate signed for it.                                              *)
(***************************************************************************)
EXTENDS Integers

CONSTANTS
  OTPs, Requests,
  Handlers,     \* goroutines that serve HTTP requests
  None,
  Services,     \* what there is in this instance besides enrollment
  MaxSecond     \* bound on the clock, and so on the enrolled nodes

NodeIds == 1..MaxSecond

ASSUME ProvisioningAssumption ==
  /\ MaxSecond \in Nat \ {0}
  /\ None \notin OTPs \cup Requests \cup NodeIds
  /\ Services \subseteq {"revoke", "remove", "register", "edit", "monitor"}

VARIABLES
  otps,       \* enrollment_otps: status and used_by_node_id
  lapsed,     \* the OTPs whose expires_at has passed
  requests,   \* enrollment_requests: status and OTP
  nodes,      \* os_nodes: status and enrollment_request_id
  crl,        \* certificate_revocations, by node
  storage,    \* storage_nodes: no row, is_active = 1, is_active = 0
  endpoints,  \* OSNodeClient.endpoints
  second,     \* the controller's clock
  handler,    \* where each handler is, and what it has read
  check,      \* the node the monitor is at and whether it answered
  identity    \* the id that the enrolling machine was told for its request

tables == <<otps, requests, nodes, crl, storage>>
vars == <<tables, lapsed, endpoints, second, handler, check, identity>>

NoOTP     == [status |-> "none", usedBy |-> None]
NoRequest == [status |-> "none", otp |-> None]
NoNode    == [status |-> "none", request |-> None]

\* What a handler is doing, and the values that it has read and will use.
Doing(pc, otp, request, node, list) ==
  [pc |-> pc, otp |-> otp, request |-> request, node |-> node, list |-> list]

Idle    == Doing("idle", None, None, None, {})
NoCheck == [node |-> None, healthy |-> FALSE]

HandlerPcs == {"idle", "expire", "create", "register", "approve", "use", "storage",
               "update", "lookup", "deactivate", "remove", "reload", "store"}

TypeOK ==
  /\ otps \in [OTPs -> [status : {"none", "active", "used", "expired"},
                        usedBy : NodeIds \cup {None}]]
  /\ lapsed \subseteq OTPs
  /\ requests \in [Requests -> [status : {"none", "pending", "approved", "rejected"},
                                otp : OTPs \cup {None}]]
  /\ nodes \in [NodeIds -> [status : {"none", "active", "revoked", "removed"},
                            request : Requests \cup {None}]]
  /\ crl \subseteq NodeIds
  /\ storage \in [NodeIds -> {"none", "active", "inactive"}]
  /\ endpoints \subseteq NodeIds
  /\ second \in NodeIds
  /\ handler \in [Handlers -> [pc : HandlerPcs, otp : OTPs \cup {None},
                               request : Requests \cup {None},
                               node : NodeIds \cup {None}, list : SUBSET NodeIds]]
  /\ check \in [node : NodeIds \cup {None}, healthy : BOOLEAN]
  /\ identity \in [Requests -> NodeIds \cup {None}]

Init ==
  /\ otps = [o \in OTPs |-> NoOTP]
  /\ lapsed = {}
  /\ requests = [r \in Requests |-> NoRequest]
  /\ nodes = [n \in NodeIds |-> NoNode]
  /\ crl = {}
  /\ storage = [n \in NodeIds |-> "none"]
  /\ endpoints = {}
  /\ second = 1
  /\ handler = [h \in Handlers |-> Idle]
  /\ check = NoCheck
  /\ identity = [r \in Requests |-> None]

At(h, pc) == handler[h].pc = pc

Become(h, r) == handler' = [handler EXCEPT ![h] = r]

Goto(h, pc) == Become(h, [handler[h] EXCEPT !.pc = pc])

Done(h) == Become(h, Idle)

Enrolled(n) == nodes[n].status # "none"

Active == {n \in NodeIds : storage[n] = "active"}

-----------------------------------------------------------------------------
(* One-time passwords and enrollment requests. *)

GenerateOTP(o) ==
  /\ otps[o] = NoOTP
  /\ otps' = [otps EXCEPT ![o] = [status |-> "active", usedBy |-> None]]
  /\ UNCHANGED <<lapsed, requests, nodes, crl, storage, endpoints, second, handler,
                 check, identity>>

\* ValidateOTP reads the row: an OTP past its time is then marked, one that
\* is good lets the request be created.
BeginRegister(h, o) ==
  /\ At(h, "idle")
  /\ otps[o].status # "none" /\ otps[o].usedBy = None
  /\ o \in lapsed \/ otps[o].status = "active"
  /\ Become(h, Doing(IF o \in lapsed THEN "expire" ELSE "create", o, None, None, {}))
  /\ UNCHANGED <<tables, lapsed, endpoints, second, check, identity>>

ExpireOTP(h) ==
  /\ At(h, "expire")
  /\ otps' = [otps EXCEPT ![handler[h].otp].status = "expired"]
  /\ Done(h)
  /\ UNCHANGED <<lapsed, requests, nodes, crl, storage, endpoints, second, check, identity>>

CreateRequest(h, r) ==
  /\ At(h, "create")
  /\ requests[r] = NoRequest
  /\ requests' = [requests EXCEPT ![r] = [status |-> "pending", otp |-> handler[h].otp]]
  /\ Done(h)
  /\ UNCHANGED <<otps, lapsed, nodes, crl, storage, endpoints, second, check, identity>>

-----------------------------------------------------------------------------
(* Approval, a statement at a time, and rejection, a single statement. *)

NotRejected(r) == requests[r].status # "rejected"   \* mutant of Pending

\* WHERE id = ? AND status = 'pending'
Pending(r) == requests[r].status = "pending"

BeginApprove(h, r) ==
  /\ At(h, "idle")
  /\ requests[r].status = "pending"
  /\ Become(h, Doing("register", None, r, None, {}))
  /\ UNCHANGED <<tables, lapsed, endpoints, second, check, identity>>

\* mutant: INSERT OR REPLACE
RegisterReplacing(h) ==
  /\ At(h, "register")
  /\ nodes' = [nodes EXCEPT ![second] = [status |-> "active", request |-> handler[h].request]]
  /\ Become(h, Doing("approve", None, handler[h].request, second, {}))
  /\ UNCHANGED <<otps, lapsed, requests, crl, storage, endpoints, second, check, identity>>

\* mutant: the error of the INSERT is only logged
RegisterLogged(h) ==
  /\ At(h, "register")
  /\ nodes' = IF Enrolled(second) THEN nodes
              ELSE [nodes EXCEPT ![second] = [status |-> "active",
                                              request |-> handler[h].request]]
  /\ Become(h, Doing("approve", None, handler[h].request, second, {}))
  /\ UNCHANGED <<otps, lapsed, requests, crl, storage, endpoints, second, check, identity>>

\* The id "node-<seconds>" is a primary key: the second approval of the same
\* second fails, and leaves its request pending.
RegisterNode(h) ==
  /\ At(h, "register")
  /\ IF Enrolled(second)
     THEN /\ Done(h)
          /\ UNCHANGED nodes
     ELSE /\ nodes' = [nodes EXCEPT ![second] = [status |-> "active",
                                                 request |-> handler[h].request]]
          /\ Become(h, Doing("approve", None, handler[h].request, second, {}))
  /\ UNCHANGED <<otps, lapsed, requests, crl, storage, endpoints, second, check, identity>>

\* mutant: a lost race is only logged
ApproveLogged(h) ==
  LET r == handler[h].request IN
  /\ At(h, "approve")
  /\ requests' = IF Pending(r) THEN [requests EXCEPT ![r].status = "approved"] ELSE requests
  /\ Goto(h, "use")
  /\ UNCHANGED <<otps, lapsed, nodes, crl, storage, endpoints, second, check, identity>>

\* No row updated is an error: the handler answers 500 and undoes nothing.
ApproveRequest(h) ==
  LET r == handler[h].request IN
  /\ At(h, "approve")
  /\ IF Pending(r)
     THEN /\ requests' = [requests EXCEPT ![r].status = "approved"]
          /\ Goto(h, "use")
     ELSE /\ Done(h)
          /\ UNCHANGED requests
  /\ UNCHANGED <<otps, lapsed, nodes, crl, storage, endpoints, second, check, identity>>

\* A failure to mark the OTP is only logged.
UseOTP(h) ==
  LET o == requests[handler[h].request].otp IN
  /\ At(h, "use")
  /\ otps' = IF otps[o].status = "active"
             THEN [otps EXCEPT ![o] = [status |-> "used", usedBy |-> handler[h].node]]
             ELSE otps
  /\ Goto(h, "storage")
  /\ UNCHANGED <<lapsed, requests, nodes, crl, storage, endpoints, second, check, identity>>

\* INSERT INTO storage_nodes, by the approval or by RegisterNodeHandler.
CreateStorage(h) ==
  LET n == handler[h].node IN
  /\ At(h, "storage")
  /\ IF storage[n] = "none"
     THEN /\ storage' = [storage EXCEPT ![n] = "active"]
          /\ Goto(h, "reload")
     ELSE /\ Done(h)
          /\ UNCHANGED storage
  /\ UNCHANGED <<otps, lapsed, requests, nodes, crl, endpoints, second, check, identity>>

RejectAnyway(r) ==   \* mutant: WHERE id = ?
  /\ requests[r].status # "none"
  /\ requests' = [requests EXCEPT ![r].status = "rejected"]
  /\ UNCHANGED <<otps, lapsed, nodes, crl, storage, endpoints, second, handler, check,
                 identity>>

Reject(r) ==
  /\ Pending(r)
  /\ requests' = [requests EXCEPT ![r].status = "rejected"]
  /\ UNCHANGED <<otps, lapsed, nodes, crl, storage, endpoints, second, handler, check,
                 identity>>

TellNewest(r) ==   \* mutant: the newest node, whatever its request
  /\ requests[r].status = "approved"
  /\ identity[r] = None
  /\ \E n \in NodeIds : /\ Enrolled(n)
                        /\ \A m \in NodeIds : Enrolled(m) => m <= n
                        /\ identity' = [identity EXCEPT ![r] = n]
  /\ UNCHANGED <<tables, lapsed, endpoints, second, handler, check>>

\* The enrolling machine polls until its request is approved, and is told the
\* first row of os_nodes, newest first, that names its request.
CheckEnrollmentStatus(r) ==
  LET created == {n \in NodeIds : Enrolled(n) /\ nodes[n].request = r} IN
  /\ requests[r].status = "approved"
  /\ identity[r] = None
  /\ \E n \in created : /\ \A m \in created : m <= n
                        /\ identity' = [identity EXCEPT ![r] = n]
  /\ UNCHANGED <<tables, lapsed, endpoints, second, handler, check>>

-----------------------------------------------------------------------------
(* What happens to an enrolled node afterwards. *)

\* The endpoints are read from the database, then stored under the mutex.
ReadEndpoints(h) ==
  /\ At(h, "reload")
  /\ Become(h, Doing("store", None, None, None, Active))
  /\ UNCHANGED <<tables, lapsed, endpoints, second, check, identity>>

StoreEndpoints(h) ==
  /\ At(h, "store")
  /\ endpoints' = handler[h].list
  /\ Done(h)
  /\ UNCHANGED <<tables, lapsed, second, check, identity>>

\* markStorageNodeUnavailable: a failure is only logged.
SetInactive(n) ==
  \/ storage' = IF storage[n] = "none" THEN storage ELSE [storage EXCEPT ![n] = "inactive"]
  \/ UNCHANGED storage

\* RevokeNode: the status and the revocation list, in one transaction.
BeginRevoke(h, n) ==
  /\ "revoke" \in Services
  /\ At(h, "idle")
  /\ Enrolled(n)
  /\ nodes' = [nodes EXCEPT ![n].status = "revoked"]
  /\ crl' = crl \cup {n}
  /\ Become(h, Doing("deactivate", None, None, n, {}))
  /\ UNCHANGED <<otps, lapsed, requests, storage, endpoints, second, check, identity>>

Deactivate(h) ==
  /\ At(h, "deactivate")
  /\ SetInactive(handler[h].node)
  /\ Goto(h, "reload")
  /\ UNCHANGED <<otps, lapsed, requests, nodes, crl, endpoints, second, check, identity>>

\* A node says that it has removed itself.
BeginRemoval(h, n) ==
  /\ "remove" \in Services
  /\ At(h, "idle")
  /\ Enrolled(n)
  /\ SetInactive(n)
  /\ Become(h, Doing("remove", None, None, n, {}))
  /\ UNCHANGED <<otps, lapsed, requests, nodes, crl, endpoints, second, check, identity>>

MarkRemoved(h) ==
  /\ At(h, "remove")
  /\ \/ nodes' = [nodes EXCEPT ![handler[h].node].status = "removed"]
     \/ UNCHANGED nodes   \* the failure is only logged
  /\ Goto(h, "reload")
  /\ UNCHANGED <<otps, lapsed, requests, crl, storage, endpoints, second, check, identity>>

RegisterAnyNode(h, n) ==   \* mutant: the status of the node is not asked
  /\ "register" \in Services
  /\ At(h, "idle")
  /\ Enrolled(n)
  /\ Become(h, Doing("lookup", None, None, n, {}))
  /\ UNCHANGED <<tables, lapsed, endpoints, second, check, identity>>

\* RegisterNodeHandler: the status of the node is read once, at the start.
BeginSelfRegister(h, n) ==
  /\ "register" \in Services
  /\ At(h, "idle")
  /\ nodes[n].status = "active"
  /\ Become(h, Doing("lookup", None, None, n, {}))
  /\ UNCHANGED <<tables, lapsed, endpoints, second, check, identity>>

LookUpStorage(h) ==
  /\ At(h, "lookup")
  /\ Goto(h, IF storage[handler[h].node] = "none" THEN "storage" ELSE "update")
  /\ UNCHANGED <<tables, lapsed, endpoints, second, check, identity>>

UpdateStorage(h) ==
  LET n == handler[h].node IN
  /\ At(h, "update")
  /\ IF storage[n] = "none"
     THEN /\ Done(h)
          /\ UNCHANGED storage
     ELSE /\ storage' = [storage EXCEPT ![n] = "active"]
          /\ Goto(h, "reload")
  /\ UNCHANGED <<otps, lapsed, requests, nodes, crl, endpoints, second, check, identity>>

\* An administrator edits or deletes the row of storage_nodes.
AdminSetStorage(h, n, status) ==
  /\ "edit" \in Services
  /\ At(h, "idle")
  /\ storage[n] # "none"
  /\ storage' = [storage EXCEPT ![n] = status]
  /\ Become(h, Doing("reload", None, None, None, {}))
  /\ UNCHANGED <<otps, lapsed, requests, nodes, crl, endpoints, second, check, identity>>

\* The health monitor checks every row, whatever os_nodes says of the node.
MonitorCheck(n, healthy) ==
  /\ "monitor" \in Services
  /\ check = NoCheck
  /\ storage[n] # "none"
  /\ check' = [node |-> n, healthy |-> healthy]
  /\ UNCHANGED <<tables, lapsed, endpoints, second, handler, identity>>

MonitorUpdate ==
  LET n == check.node IN
  /\ n # None
  /\ storage' = IF storage[n] = "none" THEN storage
                ELSE [storage EXCEPT ![n] = IF check.healthy THEN "active" ELSE "inactive"]
  /\ check' = NoCheck
  /\ UNCHANGED <<otps, lapsed, requests, nodes, crl, endpoints, second, handler, identity>>

-----------------------------------------------------------------------------
(* Time, and the controller stopping and starting again. *)

Lapse(o) ==
  /\ o \notin lapsed
  /\ otps[o].status # "none"
  /\ lapsed' = lapsed \cup {o}
  /\ UNCHANGED <<tables, endpoints, second, handler, check, identity>>

Tick ==
  /\ second < MaxSecond
  /\ second' = second + 1
  /\ UNCHANGED <<tables, lapsed, endpoints, handler, check, identity>>

Restart ==
  /\ endpoints' = Active
  /\ handler' = [h \in Handlers |-> Idle]
  /\ check' = NoCheck
  /\ UNCHANGED <<tables, lapsed, second, identity>>

-----------------------------------------------------------------------------
EnrollStep(h) ==
  \/ \E o \in OTPs : BeginRegister(h, o)
  \/ ExpireOTP(h)
  \/ \E r \in Requests : CreateRequest(h, r)

ApproveStep(h) ==
  \/ \E r \in Requests : BeginApprove(h, r)
  \/ RegisterNode(h)
  \/ ApproveRequest(h)
  \/ UseOTP(h)
  \/ CreateStorage(h)

NodeStep(h) ==
  \/ \E n \in NodeIds : BeginRevoke(h, n) \/ BeginRemoval(h, n) \/ BeginSelfRegister(h, n)
  \/ \E n \in NodeIds, status \in {"none", "active", "inactive"} : AdminSetStorage(h, n, status)
  \/ Deactivate(h)
  \/ MarkRemoved(h)
  \/ LookUpStorage(h)
  \/ UpdateStorage(h)
  \/ ReadEndpoints(h)
  \/ StoreEndpoints(h)

Next ==
  \/ \E h \in Handlers : EnrollStep(h) \/ ApproveStep(h) \/ NodeStep(h)
  \/ \E o \in OTPs : GenerateOTP(o) \/ Lapse(o)
  \/ \E r \in Requests : Reject(r) \/ CheckEnrollmentStatus(r)
  \/ \E n \in NodeIds, healthy \in BOOLEAN : MonitorCheck(n, healthy)
  \/ MonitorUpdate
  \/ Tick
  \/ Restart

Spec == Init /\ [][Next]_vars

-----------------------------------------------------------------------------
(* The inductive invariant. *)

\* A handler that has won the approval of r and has not finished with it.
Winner(h, r) == handler[h].pc \in {"use", "storage"} /\ handler[h].request = r

RequestInv == \A r \in Requests : requests[r].status # "none" => requests[r].otp \in OTPs

NodeInv ==
  \A n \in NodeIds : Enrolled(n) =>
    nodes[n].request \in Requests /\ requests[nodes[n].request].otp \in OTPs

HandlerInv ==
  \A h \in Handlers :
    /\ handler[h].pc \in {"expire", "create"} => handler[h].otp \in OTPs
    /\ handler[h].pc \in {"register", "approve", "use"} =>
         handler[h].request \in Requests /\ requests[handler[h].request].otp \in OTPs
    /\ handler[h].pc \in {"approve", "use"} =>
         handler[h].node \in NodeIds /\ nodes[handler[h].node].request = handler[h].request
    /\ handler[h].pc \in {"approve", "use", "storage", "lookup", "update", "deactivate", "remove"}
         => handler[h].node \in NodeIds /\ Enrolled(handler[h].node)
    /\ At(h, "lookup") => handler[h].request = None
    /\ \A r \in Requests : Winner(h, r) => requests[r].status = "approved"

-----------------------------------------------------------------------------
(* Properties. *)

\* Whatever two administrators and a restart do to a request, an approved one
\* has a row in os_nodes, so the enrolling machine's poll finds a certificate.
ApprovedHasNode ==
  \A r \in Requests :
    requests[r].status = "approved" => \E n \in NodeIds : Enrolled(n) /\ nodes[n].request = r

\* used_by_node_id names a node that was enrolled with that very OTP and
\* whose request was approved, not one whose approval lost a race.
UsedOTPNamesItsNode ==
  \A o \in OTPs :
    LET n == otps[o].usedBy IN
    n # None => /\ Enrolled(n)
                /\ requests[nodes[n].request].status = "approved"
                /\ requests[nodes[n].request].otp = o

\* Of all the concurrent approvals of a request one at most goes on to consume
\* the OTP and to insert the storage node.
OneApprovalWins ==
  \A r \in Requests, h, g \in Handlers : Winner(h, r) /\ Winner(g, r) => h = g

\* An enrolling machine is told the id, and so given the certificate, of a node
\* that was enrolled for its own request, though machines enroll in parallel.
ToldItsNode ==
  \A r \in Requests :
    identity[r] # None => Enrolled(identity[r]) /\ nodes[identity[r]].request = r

\* A decision about a request is final: an approval that started before a
\* rejection does not override it, nor the reverse.
DecisionIsFinal ==
  [][\A r \in Requests :
       requests[r].status \in {"approved", "rejected"} => requests'[r] = requests[r]]_vars

\* An id, and with it the certificate, stays with the request it was made for,
\* although two approvals may compute the same id.
IdNeverReassigned ==
  [][\A n \in NodeIds : Enrolled(n) => nodes'[n].request = nodes[n].request]_vars

Excluded(n) == nodes[n].status \in {"revoked", "removed"}

\* Handlers that have begun what may insert or activate the storage row of n.
Admitting(n) ==
  {h \in Handlers : /\ handler[h].pc \in {"approve", "use", "storage", "lookup", "update"}
                    /\ handler[h].node = n}

\* n is out of the table, of the endpoints and of every list of endpoints that
\* somebody holds, and nothing is under way that would bring it back.
Out(n) ==
  /\ Excluded(n)
  /\ storage[n] # "active"
  /\ n \notin endpoints
  /\ \A h \in Handlers : n \notin handler[h].list
  /\ Admitting(n) = {}
  /\ check # [node |-> n, healthy |-> TRUE]

\* Once a revoked or removed node is out, with its last reload and whatever
\* began before, no registration, approval, reload or restart brings it back:
\* only a health check that it answers, or an administrator who edits its row.
ExcludedStaysOut ==
  [][\A n \in NodeIds : Out(n) => \/ Out(n)'
                                  \/ check' = [node |-> n, healthy |-> TRUE]
                                  \/ \E h \in Handlers : AdminSetStorage(h, n, "active")]_vars

IInv == TypeOK /\ RequestInv /\ NodeInv /\ HandlerInv /\ ApprovedHasNode /\ UsedOTPNamesItsNode
          /\ OneApprovalWins /\ ToldItsNode
=============================================================================
