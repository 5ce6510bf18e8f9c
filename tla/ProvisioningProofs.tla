------------------------- MODULE ProvisioningProofs -------------------------
(***************************************************************************)
(* Proofs about Provisioning.  Rows are never deleted from enrollment_otps, *)
(* enrollment_requests and os_nodes, ids keep their request and decisions  *)
(* are final (Grow); what a handler has read is therefore still true when  *)
(* it acts on it (HandlersKept), and what the tables say of each other     *)
(* stays true of the old rows (TablesKept).  Each action is then checked   *)
(* for the rows that it writes.                                            *)
(***************************************************************************)
EXTENDS Provisioning, TLAPS

\* The inductive invariant holds when the controller first starts.
LEMMA InitIInv == Init => IInv
  BY ProvisioningAssumption
  DEF Init, IInv, TypeOK, RequestInv, NodeInv, HandlerInv, ApprovedHasNode, UsedOTPNamesItsNode,
      OneApprovalWins, ToldItsNode, Winner, Enrolled, At, NoOTP, NoRequest, NoNode, Idle, Doing, NoCheck,
      HandlerPcs, NodeIds

OTPRow     == [status : {"none", "active", "used", "expired"}, usedBy : NodeIds \cup {None}]
RequestRow == [status : {"none", "pending", "approved", "rejected"}, otp : OTPs \cup {None}]
NodeRow    == [status : {"none", "active", "revoked", "removed"}, request : Requests \cup {None}]
HandlerRow == [pc : HandlerPcs, otp : OTPs \cup {None}, request : Requests \cup {None},
               node : NodeIds \cup {None}, list : SUBSET NodeIds]

\* Writing the status of a row keeps the rest of it.
LEMMA StatusOnly ==
  /\ \A row \in OTPRow, st \in {"none", "active", "used", "expired"} :
       /\ [row EXCEPT !.status = st] \in OTPRow
       /\ [row EXCEPT !.status = st].usedBy = row.usedBy
  /\ \A row \in RequestRow, st \in {"none", "pending", "approved", "rejected"} :
       /\ [row EXCEPT !.status = st] \in RequestRow
       /\ [row EXCEPT !.status = st].status = st
       /\ [row EXCEPT !.status = st].otp = row.otp
  /\ \A row \in NodeRow, st \in {"none", "active", "revoked", "removed"} :
       /\ [row EXCEPT !.status = st] \in NodeRow
       /\ [row EXCEPT !.status = st].status = st
       /\ [row EXCEPT !.status = st].request = row.request
  BY DEF OTPRow, RequestRow, NodeRow

\* Handlers go on with a new pc.
LEMMA GoesOn ==
  ASSUME NEW s \in HandlerRow, NEW pc \in HandlerPcs
  PROVE  /\ [s EXCEPT !.pc = pc] \in HandlerRow
         /\ [s EXCEPT !.pc = pc].pc = pc
         /\ [s EXCEPT !.pc = pc].node = s.node
         /\ [s EXCEPT !.pc = pc].request = s.request
  BY DEF HandlerRow

\* A handler starts something new.
LEMMA Starts ==
  ASSUME NEW pc \in HandlerPcs, NEW o \in OTPs \cup {None}, NEW r \in Requests \cup {None},
         NEW n \in NodeIds \cup {None}, NEW list \in SUBSET NodeIds
  PROVE  /\ Doing(pc, o, r, n, list) \in HandlerRow
         /\ Doing(pc, o, r, n, list).pc = pc
         /\ Doing(pc, o, r, n, list).otp = o
         /\ Doing(pc, o, r, n, list).request = r
         /\ Doing(pc, o, r, n, list).node = n
  BY DEF Doing, HandlerRow

Grow ==
  /\ \A n \in NodeIds : Enrolled(n) => Enrolled(n)' /\ nodes'[n].request = nodes[n].request
  /\ \A r \in Requests : requests[r].otp \in OTPs => requests'[r].otp = requests[r].otp
  /\ \A r \in Requests : requests[r].status = "approved" => requests'[r].status = "approved"

\* HandlerInv for one handler, in state s.
HandlerOK(s) ==
  /\ s.pc \in {"expire", "create"} => s.otp \in OTPs
  /\ s.pc \in {"register", "approve", "use"} =>
       s.request \in Requests /\ requests[s.request].otp \in OTPs
  /\ s.pc \in {"approve", "use"} =>
       s.node \in NodeIds /\ nodes[s.node].request = s.request
  /\ s.pc \in {"approve", "use", "storage", "lookup", "update", "deactivate", "remove"}
       => s.node \in NodeIds /\ Enrolled(s.node)
  /\ s.pc = "lookup" => s.request = None
  /\ s.pc \in {"use", "storage"} /\ s.request \in Requests
       => requests[s.request].status = "approved"

\* A handler that has nothing to do.
LEMMA IdleOK == Idle \in HandlerRow /\ Idle.pc = "idle" /\ HandlerOK(Idle) /\ HandlerOK(Idle)'
<1>1. "idle" \in HandlerPcs
  BY DEF HandlerPcs
<1>2. Idle \in HandlerRow /\ Idle.pc = "idle"
  BY <1>1, Starts DEF Idle
<1>. QED BY <1>2 DEF HandlerOK

\* A handler's knowledge survives the growth of the tables.
LEMMA KnowledgeKept ==
  ASSUME Grow, NEW s, HandlerOK(s)
  PROVE  HandlerOK(s)'
<1>1. requests[s.request].otp \in OTPs /\ s.request \in Requests
        => requests'[s.request].otp \in OTPs
  BY DEF Grow
<1>. QED BY <1>1 DEF HandlerOK, Grow

\* When one handler moves, only what it knows has to be looked at.
LEMMA HandlersKept ==
  ASSUME IInv, Grow, NEW h \in Handlers, NEW s, handler' = [handler EXCEPT ![h] = s],
         HandlerOK(s)',
         s.pc \in {"use", "storage"} /\ s.request \in Requests
           => \A g \in Handlers \ {h} : ~ Winner(g, s.request)
  PROVE  HandlerInv' /\ OneApprovalWins'
<1>. USE DEF IInv
<1>0. handler'[h] = s /\ \A g \in Handlers \ {h} : handler'[g] = handler[g]
  BY DEF TypeOK
<1>1. \A g \in Handlers : HandlerOK(handler[g])
  BY DEF HandlerInv, HandlerOK, Winner, At
<1>2. \A g \in Handlers : HandlerOK(handler[g])'
  <2>. SUFFICES ASSUME NEW g \in Handlers PROVE HandlerOK(handler[g])'
    OBVIOUS
  <2>1. CASE g = h
    BY <1>0, <2>1 DEF HandlerOK
  <2>2. CASE g # h
    <3>1. PICK q : q = handler[g] /\ HandlerOK(q)
      BY <1>1
    <3>2. HandlerOK(q)'
      BY <3>1, KnowledgeKept
    <3>. QED BY <1>0, <2>2, <3>1, <3>2 DEF HandlerOK
  <2>. QED BY <2>1, <2>2
<1>3. HandlerInv'
  BY <1>2 DEF HandlerInv, HandlerOK, Winner, At
<1>4. OneApprovalWins'
  BY <1>0 DEF OneApprovalWins, Winner
<1>. QED BY <1>3, <1>4

\* The conjuncts of IInv whose own table a step leaves alone.
LEMMA TablesKept ==
  ASSUME IInv, Grow
  PROVE  /\ UNCHANGED nodes => NodeInv'
         /\ UNCHANGED requests => RequestInv' /\ ApprovedHasNode'
         /\ UNCHANGED otps => UsedOTPNamesItsNode'
         /\ UNCHANGED handler => HandlerInv' /\ OneApprovalWins'
         /\ UNCHANGED identity => ToldItsNode'
<1>. USE DEF IInv
<1>1. UNCHANGED nodes => NodeInv'
  BY DEF NodeInv, Grow, Enrolled
<1>2. UNCHANGED requests => RequestInv' /\ ApprovedHasNode'
  BY DEF RequestInv, ApprovedHasNode, Grow
<1>3. UNCHANGED otps => UsedOTPNamesItsNode'
  BY DEF UsedOTPNamesItsNode, Grow, TypeOK, NodeInv
<1>4. ASSUME UNCHANGED handler PROVE HandlerInv' /\ OneApprovalWins'
  BY <1>4 DEF HandlerInv, OneApprovalWins, Grow, Winner, At
<1>5. UNCHANGED identity => ToldItsNode'
  BY DEF ToldItsNode, Grow, TypeOK
<1>. QED BY <1>1, <1>2, <1>3, <1>4, <1>5

-----------------------------------------------------------------------------
(* One lemma per action that writes the three growing tables, and two for  *)
(* the actions that do not.                                                *)

\* An action that only moves one handler, and does not let it win anything.
LEMMA MoveStep ==
  ASSUME IInv, TypeOK', UNCHANGED <<otps, requests, nodes, identity>>,
         NEW h \in Handlers, NEW s, handler' = [handler EXCEPT ![h] = s],
         HandlerOK(s),
         s.pc \in {"use", "storage"} /\ s.request \in Requests => Winner(h, s.request)
  PROVE  IInv'
<1>. USE DEF IInv
<1>1. Grow
  BY DEF Grow, Enrolled
<1>2. HandlerOK(s)'
  BY <1>1, KnowledgeKept
<1>3. s.pc \in {"use", "storage"} /\ s.request \in Requests
        => \A g \in Handlers \ {h} : ~ Winner(g, s.request)
  BY DEF OneApprovalWins
<1>4. HandlerInv' /\ OneApprovalWins'
  BY <1>1, <1>2, <1>3, HandlersKept
<1>. QED BY <1>1, <1>4, TablesKept

\* GenerateOTP preserves the inductive invariant.
LEMMA GenerateOTPStep ==
  ASSUME IInv, NEW o \in OTPs, GenerateOTP(o)
  PROVE  IInv'
<1>. USE ProvisioningAssumption DEF IInv
<1>1. TypeOK'
  BY DEF GenerateOTP, TypeOK
<1>2. Grow
  BY DEF GenerateOTP, Grow, Enrolled
<1>3. UsedOTPNamesItsNode'
  BY DEF GenerateOTP, UsedOTPNamesItsNode, TypeOK, Enrolled
<1>. QED BY <1>1, <1>2, <1>3, TablesKept DEF GenerateOTP

\* ExpireOTP preserves the inductive invariant: used_by_node_id is not written.
LEMMA ExpireOTPStep ==
  ASSUME IInv, NEW h \in Handlers, ExpireOTP(h)
  PROVE  IInv'
<1>. USE ProvisioningAssumption DEF IInv
<1>0. PICK o \in OTPs : o = handler[h].otp
  BY DEF ExpireOTP, HandlerInv, At
<1>1. TypeOK'
  <2>1. otps \in [OTPs -> OTPRow] /\ otps' = [otps EXCEPT ![o].status = "expired"]
    BY <1>0 DEF ExpireOTP, TypeOK, OTPRow
  <2>2. otps' \in [OTPs -> OTPRow]
    BY <2>1, StatusOnly
  <2>3. handler' \in [Handlers -> HandlerRow]
    BY IdleOK DEF ExpireOTP, Done, Become, TypeOK, HandlerRow
  <2>. QED BY <2>2, <2>3 DEF ExpireOTP, TypeOK, OTPRow, HandlerRow
<1>2. Grow
  BY DEF ExpireOTP, Grow, Enrolled
<1>3. UsedOTPNamesItsNode'
  <2>1. \A p \in OTPs : otps'[p].usedBy = otps[p].usedBy
    <3>1. otps[o] \in OTPRow /\ otps' = [otps EXCEPT ![o] = [@ EXCEPT !.status = "expired"]]
      BY <1>0 DEF ExpireOTP, TypeOK, OTPRow
    <3>2. otps'[o].usedBy = otps[o].usedBy
      BY <3>1, StatusOnly DEF TypeOK
    <3>. QED BY <3>1, <3>2 DEF TypeOK
  <2>2. UsedOTPNamesItsNode /\ UNCHANGED <<requests, nodes>>
    BY DEF ExpireOTP
  <2>. HIDE DEF IInv
  <2>. QED BY <2>1, <2>2 DEF UsedOTPNamesItsNode, Enrolled
<1>4. HandlerOK(Idle)' /\ Idle.pc = "idle"
  BY IdleOK
<1>5. HandlerInv' /\ OneApprovalWins'
  BY <1>2, <1>4, HandlersKept DEF ExpireOTP, Done, Become
<1>. QED BY <1>1, <1>2, <1>3, <1>5, TablesKept DEF ExpireOTP

\* CreateRequest preserves the inductive invariant: the request is a new one.
LEMMA CreateRequestStep ==
  ASSUME IInv, NEW h \in Handlers, NEW r \in Requests, CreateRequest(h, r)
  PROVE  IInv'
<1>. USE ProvisioningAssumption DEF IInv
<1>0. handler[h].otp \in OTPs
  BY DEF CreateRequest, HandlerInv, At
<1>1. TypeOK'
  BY <1>0, IdleOK DEF CreateRequest, Done, Become, TypeOK, HandlerRow
<1>2. Grow
  BY DEF CreateRequest, Grow, Enrolled, NoRequest, TypeOK
<1>6. RequestInv'
  BY <1>0 DEF CreateRequest, RequestInv, Pending, TypeOK
<1>3. ApprovedHasNode'
  BY DEF CreateRequest, ApprovedHasNode, Enrolled, TypeOK
<1>4. HandlerOK(Idle)' /\ Idle.pc = "idle"
  BY IdleOK
<1>5. HandlerInv' /\ OneApprovalWins'
  BY <1>2, <1>4, HandlersKept DEF CreateRequest, Done, Become
<1>. QED BY <1>1, <1>2, <1>3, <1>5, <1>6, TablesKept DEF CreateRequest

\* Reject preserves the inductive invariant: only a pending request changes.
LEMMA RejectStep ==
  ASSUME IInv, NEW r \in Requests, Reject(r)
  PROVE  IInv'
<1>. USE ProvisioningAssumption DEF IInv
<1>1. TypeOK'
  BY DEF Reject, TypeOK
<1>2. Grow
  BY DEF Reject, Pending, Grow, Enrolled, TypeOK
<1>6. RequestInv'
  BY DEF Reject, RequestInv, Pending, TypeOK
<1>3. ApprovedHasNode'
  BY DEF Reject, ApprovedHasNode, Enrolled, TypeOK
<1>. QED BY <1>1, <1>2, <1>3, <1>6, TablesKept DEF Reject

\* RegisterNode preserves the inductive invariant: the id is a new one.
LEMMA RegisterNodeStep ==
  ASSUME IInv, NEW h \in Handlers, RegisterNode(h)
  PROVE  IInv'
<1>. USE ProvisioningAssumption DEF IInv
<1>0. PICK r \in Requests : r = handler[h].request /\ requests[r].otp \in OTPs
  BY DEF RegisterNode, HandlerInv, At
<1>1. CASE Enrolled(second)
  <2>1. TypeOK'
    BY <1>1, IdleOK DEF RegisterNode, Done, Become, TypeOK, HandlerRow
  <2>2. HandlerOK(Idle) /\ Idle.pc = "idle"
    BY IdleOK
  <2>. QED BY <1>1, <2>1, <2>2, MoveStep DEF RegisterNode, Done, Become
<1>2. CASE ~ Enrolled(second)
  <2>1. PICK s : s = Doing("approve", None, r, second, {}) /\ handler' = [handler EXCEPT ![h] = s]
    BY <1>0, <1>2 DEF RegisterNode, Become
  <2>2. s \in HandlerRow /\ s.pc = "approve" /\ s.node = second /\ s.request = r
    BY <1>0, <2>1, Starts DEF TypeOK, HandlerPcs
  <2>a. nodes' = [nodes EXCEPT ![second] = [status |-> "active", request |-> r]]
    BY <1>0, <1>2 DEF RegisterNode
  <2>3. TypeOK'
    BY <2>a, <2>1, <2>2 DEF RegisterNode, TypeOK, HandlerRow
  <2>4. Grow
    BY <1>2 DEF RegisterNode, Grow, Enrolled, TypeOK
  <2>b. nodes'[second].request = r /\ \A n \in NodeIds \ {second} : nodes'[n] = nodes[n]
    BY <2>a DEF TypeOK
  <2>5. NodeInv'
    BY <1>0, <2>b DEF RegisterNode, NodeInv, Enrolled
  <2>6. HandlerOK(s)'
    BY <1>0, <1>2, <2>2 DEF RegisterNode, HandlerOK, Enrolled, TypeOK
  <2>7. HandlerInv' /\ OneApprovalWins'
    BY <2>1, <2>2, <2>4, <2>6, HandlersKept
  <2>. QED BY <2>3, <2>4, <2>5, <2>7, TablesKept DEF RegisterNode
<1>. QED BY <1>1, <1>2

\* ApproveRequest preserves the inductive invariant: whoever finds the request
\* pending is its first winner, and its node is the one it has registered.
LEMMA ApproveRequestStep ==
  ASSUME IInv, NEW h \in Handlers, ApproveRequest(h)
  PROVE  IInv'
<1>. USE ProvisioningAssumption DEF IInv
<1>0. PICK r \in Requests, n \in NodeIds :
        /\ r = handler[h].request /\ requests[r].otp \in OTPs
        /\ n = handler[h].node /\ nodes[n].request = r /\ Enrolled(n)
  BY DEF ApproveRequest, HandlerInv, At
<1>1. CASE ~ Pending(r)
  <2>1. TypeOK'
    BY <1>0, <1>1, IdleOK DEF ApproveRequest, Done, Become, TypeOK, HandlerRow
  <2>2. HandlerOK(Idle) /\ Idle.pc = "idle"
    BY IdleOK
  <2>. QED BY <1>0, <1>1, <2>1, <2>2, MoveStep DEF ApproveRequest, Done, Become
<1>2. CASE Pending(r)
  <2>1. PICK s : /\ s = [handler[h] EXCEPT !.pc = "use"]
                 /\ handler' = [handler EXCEPT ![h] = s]
    BY <1>0, <1>2 DEF ApproveRequest, Goto, Become
  <2>e. handler[h] \in HandlerRow /\ "use" \in HandlerPcs
    BY DEF TypeOK, HandlerRow, HandlerPcs
  <2>2. s \in HandlerRow /\ s.pc = "use" /\ s.node = n /\ s.request = r
    BY <1>0, <2>1, <2>e, GoesOn
  <2>a. /\ requests' = [requests EXCEPT ![r].status = "approved"]
        /\ requests \in [Requests -> RequestRow]
    BY <1>0, <1>2 DEF ApproveRequest, TypeOK, RequestRow
  <2>c. requests' \in [Requests -> RequestRow]
    BY <2>a, StatusOnly
  <2>3. TypeOK'
    BY <2>1, <2>2, <2>c DEF ApproveRequest, TypeOK, RequestRow, HandlerRow
  <2>b. \A q \in Requests : /\ requests'[q].otp = requests[q].otp
                            /\ requests[q].status = "approved"
                                 => requests'[q].status = "approved"
    BY <2>a, StatusOnly
  <2>4. Grow
    BY <2>b DEF ApproveRequest, Grow, Enrolled
  <2>d. RequestInv'
    BY <2>b, <2>a, <1>0 DEF RequestInv
  <2>5. ApprovedHasNode'
    BY <1>0, <1>2 DEF ApproveRequest, ApprovedHasNode, Enrolled, TypeOK
  <2>6. HandlerOK(s)'
    BY <1>0, <1>2, <2>2 DEF ApproveRequest, HandlerOK, Enrolled, TypeOK
  <2>7. \A g \in Handlers : ~ Winner(g, r)
    BY <1>2 DEF HandlerInv, Pending
  <2>8. HandlerInv' /\ OneApprovalWins'
    BY <2>1, <2>2, <2>4, <2>6, <2>7, HandlersKept
  <2>. QED BY <2>3, <2>4, <2>5, <2>8, <2>d, TablesKept DEF ApproveRequest
<1>. QED BY <1>1, <1>2

\* UseOTP preserves the inductive invariant: the handler is its request's winner.
LEMMA UseOTPStep ==
  ASSUME IInv, NEW h \in Handlers, UseOTP(h)
  PROVE  IInv'
<1>. USE ProvisioningAssumption DEF IInv
<1>0. PICK r \in Requests, n \in NodeIds, o \in OTPs :
        /\ r = handler[h].request /\ requests[r].otp = o
        /\ n = handler[h].node /\ nodes[n].request = r /\ Enrolled(n)
        /\ Winner(h, r) /\ requests[r].status = "approved"
  BY DEF UseOTP, HandlerInv, At, Winner
<1>1. PICK s : /\ s = [handler[h] EXCEPT !.pc = "storage"]
               /\ handler' = [handler EXCEPT ![h] = s]
  BY DEF UseOTP, Goto, Become
<1>a. handler[h] \in HandlerRow /\ "storage" \in HandlerPcs
  BY DEF TypeOK, HandlerRow, HandlerPcs
<1>2. s \in HandlerRow /\ s.pc = "storage" /\ s.node = n /\ s.request = r
  BY <1>0, <1>1, <1>a, GoesOn
<1>3. TypeOK'
  BY <1>0, <1>1, <1>2 DEF UseOTP, TypeOK, HandlerRow
<1>4. Grow
  BY DEF UseOTP, Grow, Enrolled
<1>5. UsedOTPNamesItsNode'
  <2>1. \A p \in OTPs :
          \/ otps'[p].usedBy = otps[p].usedBy
          \/ p = o /\ otps'[p].usedBy = n
    BY <1>0 DEF UseOTP, TypeOK
  <2>2. UNCHANGED <<nodes, requests>>
    BY DEF UseOTP
  <2>. QED BY <1>0, <2>1, <2>2 DEF UsedOTPNamesItsNode, Enrolled
<1>6. HandlerOK(s)'
  BY <1>0, <1>2 DEF UseOTP, HandlerOK, Enrolled
<1>7. \A g \in Handlers \ {h} : ~ Winner(g, r)
  BY <1>0 DEF OneApprovalWins
<1>8. HandlerInv' /\ OneApprovalWins'
  BY <1>1, <1>2, <1>4, <1>6, <1>7, HandlersKept
<1>. QED BY <1>3, <1>4, <1>5, <1>8, TablesKept DEF UseOTP

\* The actions of an idle handler that only read.
LEMMA BeginSteps ==
  ASSUME IInv, NEW h \in Handlers,
         \/ \E o \in OTPs : BeginRegister(h, o)
         \/ \E r \in Requests : BeginApprove(h, r)
         \/ \E n \in NodeIds : BeginSelfRegister(h, n)
  PROVE  IInv'
<1>. USE ProvisioningAssumption DEF IInv, tables
<1>1. ASSUME NEW o \in OTPs, BeginRegister(h, o) PROVE IInv'
  <2>0. PICK pc \in {"expire", "create"} : Become(h, Doing(pc, o, None, None, {}))
    BY <1>1 DEF BeginRegister
  <2>a. PICK s : s = Doing(pc, o, None, None, {})
    OBVIOUS
  <2>1. s \in HandlerRow /\ handler' = [handler EXCEPT ![h] = s] /\ s.otp = o /\ s.pc = pc
    BY <2>0, <2>a, Starts DEF Become, HandlerPcs
  <2>2. TypeOK'
    BY <1>1, <2>1 DEF BeginRegister, TypeOK, HandlerRow
  <2>. QED BY <1>1, <2>1, <2>2, MoveStep DEF BeginRegister, HandlerOK
<1>2. ASSUME NEW r \in Requests, BeginApprove(h, r) PROVE IInv'
  <2>a. PICK s : s = Doing("register", None, r, None, {})
    OBVIOUS
  <2>1. /\ s \in HandlerRow /\ handler' = [handler EXCEPT ![h] = s]
        /\ s.request = r /\ s.pc = "register"
    BY <1>2, <2>a, Starts DEF BeginApprove, Become, HandlerPcs
  <2>2. TypeOK'
    BY <1>2, <2>1 DEF BeginApprove, TypeOK, HandlerRow
  <2>3. requests[r].otp \in OTPs
    BY <1>2 DEF BeginApprove, RequestInv
  <2>. QED BY <1>2, <2>1, <2>2, <2>3, MoveStep DEF BeginApprove, HandlerOK
<1>3. ASSUME NEW n \in NodeIds, BeginSelfRegister(h, n) PROVE IInv'
  <2>a. PICK s : s = Doing("lookup", None, None, n, {})
    OBVIOUS
  <2>1. /\ s \in HandlerRow /\ handler' = [handler EXCEPT ![h] = s]
        /\ s.node = n /\ s.request = None /\ s.pc = "lookup"
    BY <1>3, <2>a, Starts DEF BeginSelfRegister, Become, HandlerPcs
  <2>2. TypeOK'
    BY <1>3, <2>1 DEF BeginSelfRegister, TypeOK, HandlerRow
  <2>. QED BY <1>3, <2>1, <2>2, MoveStep DEF BeginSelfRegister, HandlerOK, Enrolled
<1>. QED BY <1>1, <1>2, <1>3

\* The actions that write storage_nodes or the endpoints and move one handler.
LEMMA StorageSteps ==
  ASSUME IInv, NEW h \in Handlers,
         \/ CreateStorage(h) \/ Deactivate(h) \/ LookUpStorage(h) \/ UpdateStorage(h)
         \/ ReadEndpoints(h) \/ StoreEndpoints(h)
         \/ \E n \in NodeIds : BeginRemoval(h, n)
         \/ \E n \in NodeIds, status \in {"none", "active", "inactive"} :
              AdminSetStorage(h, n, status)
  PROVE  IInv'
<1>. USE ProvisioningAssumption DEF IInv, tables
<1>1. handler[h] \in HandlerRow
  BY DEF TypeOK, HandlerRow
<1>2. UNCHANGED <<otps, lapsed, requests, nodes, crl, second, check, identity>>
  BY DEF CreateStorage, Deactivate, LookUpStorage, UpdateStorage, ReadEndpoints,
     StoreEndpoints, BeginRemoval, AdminSetStorage
<1>3. PICK s \in HandlerRow :
        /\ handler' = [handler EXCEPT ![h] = s]
        /\ HandlerOK(s)
        /\ s.pc \in {"use", "storage"} => s.request = None
  <2>1. CASE CreateStorage(h)
    <3>1. Idle \in HandlerRow /\ HandlerOK(Idle) /\ Idle.pc = "idle"
      BY IdleOK
    <3>2. PICK s : s = [handler[h] EXCEPT !.pc = "reload"]
      OBVIOUS
    <3>3. s \in HandlerRow /\ s.pc = "reload" /\ HandlerOK(s)
      BY <1>1, <3>2, GoesOn DEF HandlerPcs, HandlerOK
    <3>. QED BY <2>1, <3>1, <3>2, <3>3 DEF CreateStorage, Goto, Done, Become
  <2>2. CASE Deactivate(h)
    <3>2. PICK s : s = [handler[h] EXCEPT !.pc = "reload"]
      OBVIOUS
    <3>3. s \in HandlerRow /\ s.pc = "reload" /\ HandlerOK(s)
      BY <1>1, <3>2, GoesOn DEF HandlerPcs, HandlerOK
    <3>. QED BY <2>2, <3>2, <3>3 DEF Deactivate, Goto, Become
  <2>3. CASE LookUpStorage(h)
    <3>1. PICK pc \in {"storage", "update"} : Goto(h, pc)
      BY <2>3 DEF LookUpStorage
    <3>2. PICK s : s = [handler[h] EXCEPT !.pc = pc]
      OBVIOUS
    <3>a. pc \in HandlerPcs
      BY DEF HandlerPcs
    <3>3. /\ s \in HandlerRow /\ s.pc = pc
          /\ s.node = handler[h].node /\ s.request = handler[h].request
      BY <1>1, <3>2, <3>a, GoesOn
    <3>4. s.node \in NodeIds /\ Enrolled(s.node) /\ s.request = None
      BY <2>3, <3>3 DEF LookUpStorage, HandlerInv, At
    <3>. QED BY <3>1, <3>2, <3>3, <3>4 DEF Goto, Become, HandlerOK
  <2>4. CASE UpdateStorage(h)
    <3>1. Idle \in HandlerRow /\ HandlerOK(Idle) /\ Idle.pc = "idle"
      BY IdleOK
    <3>2. PICK s : s = [handler[h] EXCEPT !.pc = "reload"]
      OBVIOUS
    <3>3. s \in HandlerRow /\ s.pc = "reload" /\ HandlerOK(s)
      BY <1>1, <3>2, GoesOn DEF HandlerPcs, HandlerOK
    <3>. QED BY <2>4, <3>1, <3>2, <3>3 DEF UpdateStorage, Goto, Done, Become
  <2>5. CASE ReadEndpoints(h)
    <3>1. PICK s : s = Doing("store", None, None, None, Active)
      OBVIOUS
    <3>2. s \in HandlerRow /\ s.pc = "store"
      BY <3>1, Starts DEF HandlerPcs, Active
    <3>. QED BY <2>5, <3>1, <3>2 DEF ReadEndpoints, Become, HandlerOK
  <2>6. CASE StoreEndpoints(h)
    BY <2>6, IdleOK DEF StoreEndpoints, Done, Become
  <2>7. CASE \E n \in NodeIds : BeginRemoval(h, n)
    <3>1. PICK n \in NodeIds : BeginRemoval(h, n)
      BY <2>7
    <3>2. PICK s : s = Doing("remove", None, None, n, {})
      OBVIOUS
    <3>3. s \in HandlerRow /\ s.pc = "remove" /\ s.node = n
      BY <3>2, Starts DEF HandlerPcs
    <3>. QED BY <3>1, <3>2, <3>3 DEF BeginRemoval, Become, HandlerOK
  <2>8. CASE \E n \in NodeIds, status \in {"none", "active", "inactive"} :
               AdminSetStorage(h, n, status)
    <3>1. PICK s : s = Doing("reload", None, None, None, {})
      OBVIOUS
    <3>2. s \in HandlerRow /\ s.pc = "reload"
      BY <3>1, Starts DEF HandlerPcs
    <3>. QED BY <2>8, <3>1, <3>2 DEF AdminSetStorage, Become, HandlerOK
  <2>. QED BY <2>1, <2>2, <2>3, <2>4, <2>5, <2>6, <2>7, <2>8
<1>4. storage' \in [NodeIds -> {"none", "active", "inactive"}] /\ endpoints' \subseteq NodeIds
  <2>1. CASE CreateStorage(h)
    BY <2>1 DEF CreateStorage, TypeOK
  <2>2. CASE Deactivate(h)
    BY <2>2 DEF Deactivate, SetInactive, TypeOK
  <2>3. CASE LookUpStorage(h) \/ ReadEndpoints(h)
    BY <2>3 DEF LookUpStorage, ReadEndpoints, TypeOK
  <2>4. CASE UpdateStorage(h)
    <3>1. /\ endpoints' = endpoints
          /\ \/ storage' = storage
             \/ storage' = [storage EXCEPT ![handler[h].node] = "active"]
      BY <2>4 DEF UpdateStorage
    <3>. QED BY <3>1 DEF TypeOK
  <2>5. CASE StoreEndpoints(h)
    BY <2>5, <1>1 DEF StoreEndpoints, HandlerRow, TypeOK
  <2>6. CASE \E n \in NodeIds : BeginRemoval(h, n)
    BY <2>6 DEF BeginRemoval, SetInactive, TypeOK
  <2>7. CASE \E n \in NodeIds, status \in {"none", "active", "inactive"} :
               AdminSetStorage(h, n, status)
    BY <2>7 DEF AdminSetStorage, TypeOK
  <2>. QED BY <2>1, <2>2, <2>3, <2>4, <2>5, <2>6, <2>7
<1>5. TypeOK'
  BY <1>2, <1>3, <1>4 DEF TypeOK, HandlerRow
<1>. QED BY <1>2, <1>3, <1>5, MoveStep

\* A removal whose node could not be marked as removed.
LEMMA NotMarkedStep ==
  ASSUME IInv, NEW h \in Handlers, MarkRemoved(h), UNCHANGED nodes
  PROVE  IInv'
<1>1. PICK s : s = [handler[h] EXCEPT !.pc = "reload"]
  OBVIOUS
<1>2. s \in HandlerRow /\ s.pc = "reload" /\ handler' = [handler EXCEPT ![h] = s]
  <2>1. handler[h] \in HandlerRow /\ "reload" \in HandlerPcs
    BY DEF IInv, TypeOK, HandlerRow, HandlerPcs
  <2>. QED BY <1>1, <2>1, GoesOn DEF MarkRemoved, Goto, Become
<1>3. TypeOK'
  BY <1>2 DEF MarkRemoved, IInv, TypeOK, HandlerRow
<1>. QED BY <1>2, <1>3, MoveStep DEF MarkRemoved, HandlerOK

\* The actions that write a status of os_nodes.
LEMMA NodeStatusSteps ==
  ASSUME IInv, NEW h \in Handlers,
         \/ \E n \in NodeIds : BeginRevoke(h, n)
         \/ MarkRemoved(h) /\ ~ UNCHANGED nodes
  PROVE  IInv'
<1>. USE ProvisioningAssumption DEF IInv
<1>1. PICK n \in NodeIds, status \in {"revoked", "removed"}, s \in HandlerRow :
        /\ Enrolled(n)
        /\ nodes' = [nodes EXCEPT ![n].status = status]
        /\ handler' = [handler EXCEPT ![h] = s]
        /\ s.node = n /\ s.pc \in {"deactivate", "reload"}
  <2>1. ASSUME NEW n \in NodeIds, BeginRevoke(h, n)
        PROVE  \E s \in HandlerRow : /\ Enrolled(n)
                                     /\ nodes' = [nodes EXCEPT ![n].status = "revoked"]
                                     /\ handler' = [handler EXCEPT ![h] = s]
                                     /\ s.node = n /\ s.pc = "deactivate"
    <3>1. PICK s : s = Doing("deactivate", None, None, n, {})
      OBVIOUS
    <3>2. s \in HandlerRow /\ s.node = n /\ s.pc = "deactivate"
      BY <3>1, Starts DEF HandlerPcs
    <3>. QED BY <2>1, <3>1, <3>2 DEF BeginRevoke, Become
  <2>2. ASSUME MarkRemoved(h), ~ UNCHANGED nodes
        PROVE  \E n \in NodeIds, s \in HandlerRow :
                 /\ Enrolled(n)
                 /\ nodes' = [nodes EXCEPT ![n].status = "removed"]
                 /\ handler' = [handler EXCEPT ![h] = s]
                 /\ s.node = n /\ s.pc = "reload"
    <3>1. PICK n \in NodeIds : n = handler[h].node /\ Enrolled(n)
      BY <2>2 DEF MarkRemoved, HandlerInv, At
    <3>2. handler[h] \in HandlerRow /\ "reload" \in HandlerPcs
      BY DEF TypeOK, HandlerRow, HandlerPcs
    <3>3. PICK s : s = [handler[h] EXCEPT !.pc = "reload"]
      OBVIOUS
    <3>4. s \in HandlerRow /\ s.node = n /\ s.pc = "reload"
      BY <3>1, <3>2, <3>3, GoesOn
    <3>. QED BY <2>2, <3>1, <3>3, <3>4 DEF MarkRemoved, Goto, Become
  <2>. QED BY <2>1, <2>2
<1>a. nodes \in [NodeIds -> NodeRow]
  BY DEF TypeOK, NodeRow
<1>2. /\ nodes'[n].status = status /\ nodes'[n].request = nodes[n].request
      /\ \A m \in NodeIds \ {n} : nodes'[m] = nodes[m]
  BY <1>1, <1>a, StatusOnly
<1>3. TypeOK'
  <2>1. nodes' \in [NodeIds -> NodeRow]
    BY <1>1, <1>a, StatusOnly
  <2>2. crl' \subseteq NodeIds
    BY DEF BeginRevoke, MarkRemoved, TypeOK
  <2>3. UNCHANGED <<otps, lapsed, requests, storage, endpoints, second, check, identity>>
    BY DEF BeginRevoke, MarkRemoved
  <2>. QED BY <1>1, <2>1, <2>2, <2>3 DEF TypeOK, NodeRow, HandlerRow
<1>4. UNCHANGED <<otps, requests, identity>>
  BY DEF BeginRevoke, MarkRemoved
<1>5. Grow
  BY <1>1, <1>2, <1>4 DEF Grow, Enrolled
<1>6. NodeInv'
  BY <1>1, <1>2, <1>4 DEF NodeInv, Enrolled
<1>7. HandlerOK(s)'
  BY <1>1, <1>2 DEF HandlerOK, Enrolled
<1>8. HandlerInv' /\ OneApprovalWins'
  BY <1>1, <1>5, <1>7, HandlersKept
<1>. QED BY <1>3, <1>4, <1>5, <1>6, <1>8, TablesKept

\* The actions of nobody's request, and stuttering.
LEMMA EnvironmentStep ==
  ASSUME IInv,
         \/ \E o \in OTPs : Lapse(o)
         \/ \E r \in Requests : CheckEnrollmentStatus(r)
         \/ \E n \in NodeIds, healthy \in BOOLEAN : MonitorCheck(n, healthy)
         \/ MonitorUpdate
         \/ Tick
         \/ UNCHANGED vars
  PROVE  IInv'
<1>. USE ProvisioningAssumption DEF IInv, tables, vars
<1>1. UNCHANGED <<otps, requests, nodes, handler>>
  BY DEF Lapse, CheckEnrollmentStatus, MonitorCheck, MonitorUpdate, Tick
<1>2. Grow
  BY <1>1 DEF Grow, Enrolled
<1>3. TypeOK'
  <2>1. CASE \E o \in OTPs : Lapse(o)
    BY <2>1 DEF Lapse, TypeOK
  <2>2. CASE \E r \in Requests : CheckEnrollmentStatus(r)
    BY <2>2 DEF CheckEnrollmentStatus, TypeOK
  <2>3. CASE \E n \in NodeIds, healthy \in BOOLEAN : MonitorCheck(n, healthy)
    BY <2>3 DEF MonitorCheck, TypeOK
  <2>4. CASE MonitorUpdate
    BY <2>4 DEF MonitorUpdate, NoCheck, TypeOK
  <2>5. CASE Tick
    BY <2>5 DEF Tick, NodeIds, TypeOK
  <2>6. CASE UNCHANGED vars
    BY <2>6 DEF TypeOK
  <2>. QED BY <2>1, <2>2, <2>3, <2>4, <2>5, <2>6
<1>4. ToldItsNode'
  <2>1. CASE \E r \in Requests : CheckEnrollmentStatus(r)
    BY <1>1, <2>1 DEF CheckEnrollmentStatus, ToldItsNode, Enrolled, TypeOK
  <2>2. CASE UNCHANGED identity
    BY <1>2, <2>2, TablesKept
  <2>. QED BY <2>1, <2>2 DEF Lapse, MonitorCheck, MonitorUpdate, Tick
<1>. QED BY <1>1, <1>2, <1>3, <1>4, TablesKept

\* Restart preserves the inductive invariant: handlers forget, tables do not.
LEMMA RestartStep ==
  ASSUME IInv, Restart
  PROVE  IInv'
<1>. USE ProvisioningAssumption DEF IInv, tables
<1>1. UNCHANGED <<otps, requests, nodes, identity>> /\ \A h \in Handlers : handler'[h] = Idle
  BY DEF Restart
<1>2. Grow
  BY <1>1 DEF Grow, Enrolled
<1>3. TypeOK'
  BY IdleOK DEF Restart, TypeOK, HandlerRow, NoCheck, Active
<1>4. HandlerInv' /\ OneApprovalWins'
  BY <1>1, IdleOK DEF HandlerInv, OneApprovalWins, Winner, At
<1>. QED BY <1>1, <1>2, <1>3, <1>4, TablesKept

\* IInv is preserved by every step.
LEMMA NextIInv ==
  ASSUME IInv, [Next]_vars
  PROVE  IInv'
<1>1. CASE \E h \in Handlers : EnrollStep(h)
  <2>1. PICK h \in Handlers : EnrollStep(h)
    BY <1>1
  <2>. QED BY <2>1, BeginSteps, ExpireOTPStep, CreateRequestStep DEF EnrollStep
<1>2. CASE \E h \in Handlers : ApproveStep(h)
  <2>1. PICK h \in Handlers : ApproveStep(h)
    BY <1>2
  <2>. QED BY <2>1, BeginSteps, RegisterNodeStep, ApproveRequestStep, UseOTPStep, StorageSteps
           DEF ApproveStep
<1>3. CASE \E h \in Handlers : NodeStep(h)
  <2>1. PICK h \in Handlers : NodeStep(h)
    BY <1>3
  <2>. QED BY <2>1, BeginSteps, StorageSteps, NodeStatusSteps, NotMarkedStep DEF NodeStep
<1>4. CASE \E o \in OTPs : GenerateOTP(o)
  BY <1>4, GenerateOTPStep
<1>5. CASE \E r \in Requests : Reject(r)
  BY <1>5, RejectStep
<1>6. CASE \/ \E o \in OTPs : Lapse(o)
           \/ \E r \in Requests : CheckEnrollmentStatus(r)
           \/ \E n \in NodeIds, healthy \in BOOLEAN : MonitorCheck(n, healthy)
           \/ MonitorUpdate \/ Tick \/ UNCHANGED vars
  BY <1>6, EnvironmentStep
<1>7. CASE Restart
  BY <1>7, RestartStep
<1>. QED BY <1>1, <1>2, <1>3, <1>4, <1>5, <1>6, <1>7 DEF Next

\* Who writes a row of enrollment_requests: its creation, and the two
\* decisions, which both require status = 'pending'.
LEMMA RequestsStep ==
  ASSUME IInv, [Next]_vars, NEW r \in Requests, requests'[r] # requests[r]
  PROVE  requests[r] = NoRequest \/ Pending(r)
<1>. USE DEF IInv
<1>1. \/ \E h \in Handlers, q \in Requests : CreateRequest(h, q)
      \/ \E h \in Handlers : ApproveRequest(h)
      \/ \E q \in Requests : Reject(q)
  BY DEF Next, EnrollStep, ApproveStep, NodeStep, vars, tables, GenerateOTP, BeginRegister,
     ExpireOTP, BeginApprove, RegisterNode, UseOTP, CreateStorage, CheckEnrollmentStatus,
     ReadEndpoints, StoreEndpoints, BeginRevoke, Deactivate, BeginRemoval, MarkRemoved,
     BeginSelfRegister, LookUpStorage, UpdateStorage, AdminSetStorage, MonitorCheck,
     MonitorUpdate, Lapse, Tick, Restart
<1>2. CASE \E h \in Handlers, q \in Requests : CreateRequest(h, q)
  BY <1>2 DEF CreateRequest, TypeOK
<1>3. CASE \E h \in Handlers : ApproveRequest(h)
  <2>1. PICK h \in Handlers : ApproveRequest(h)
    BY <1>3
  <2>2. handler[h].request \in Requests
    BY <2>1 DEF ApproveRequest, HandlerInv, At
  <2>. QED BY <2>1, <2>2 DEF ApproveRequest, TypeOK
<1>4. CASE \E q \in Requests : Reject(q)
  BY <1>4 DEF Reject, TypeOK
<1>. QED BY <1>1, <1>2, <1>3, <1>4

\* Who writes a row of os_nodes: its creation, revocation and removal.
LEMMA NodesStep ==
  ASSUME IInv, [Next]_vars, NEW n \in NodeIds, Enrolled(n)
  PROVE  /\ nodes'[n].request = nodes[n].request
         /\ nodes'[n] = nodes[n] \/ nodes'[n].status \in {"revoked", "removed"}
         /\ crl \subseteq crl'
<1>. USE DEF IInv
<1>0. nodes \in [NodeIds -> NodeRow] /\ "revoked" \in {"none", "active", "revoked", "removed"}
        /\ "removed" \in {"none", "active", "revoked", "removed"}
  BY DEF TypeOK, NodeRow
<1>1. CASE \E h \in Handlers : RegisterNode(h)
  BY <1>1, <1>0 DEF RegisterNode, Enrolled, TypeOK
<1>2. CASE \E h \in Handlers, m \in NodeIds : BeginRevoke(h, m)
  BY <1>2, <1>0, StatusOnly DEF BeginRevoke
<1>3. CASE \E h \in Handlers : MarkRemoved(h)
  <2>1. PICK h \in Handlers : MarkRemoved(h)
    BY <1>3
  <2>2. handler[h].node \in NodeIds
    BY <2>1 DEF MarkRemoved, HandlerInv, At
  <2>3. CASE nodes' = [nodes EXCEPT ![handler[h].node].status = "removed"]
    BY <2>1, <2>2, <2>3, <1>0, StatusOnly DEF MarkRemoved
  <2>4. CASE UNCHANGED nodes
    BY <2>1, <2>4 DEF MarkRemoved
  <2>. QED BY <2>1, <2>3, <2>4 DEF MarkRemoved
<1>4. CASE UNCHANGED <<nodes, crl>>
  BY <1>4
<1>5. \/ \E h \in Handlers : RegisterNode(h)
      \/ \E h \in Handlers, m \in NodeIds : BeginRevoke(h, m)
      \/ \E h \in Handlers : MarkRemoved(h)
      \/ UNCHANGED <<nodes, crl>>
  BY DEF Next, EnrollStep, ApproveStep, NodeStep, vars, tables, GenerateOTP, BeginRegister,
     ExpireOTP, CreateRequest, BeginApprove, ApproveRequest, UseOTP, CreateStorage, Reject,
     CheckEnrollmentStatus, ReadEndpoints, StoreEndpoints, Deactivate, BeginRemoval,
     BeginSelfRegister, LookUpStorage, UpdateStorage, AdminSetStorage, MonitorCheck,
     MonitorUpdate, Lapse, Tick, Restart
<1>. QED BY <1>1, <1>2, <1>3, <1>4, <1>5

-----------------------------------------------------------------------------
\* The inductive invariant, for any numbers of OTPs, requests and concurrent
\* handlers, and however long the controller runs.
THEOREM Invariant == Spec => []IInv
<1>1. IInv /\ [Next]_vars => IInv'
  BY NextIInv
<1>. QED BY InitIInv, <1>1, PTL DEF Spec

\* The tables and what the handlers hold have their types.
THEOREM TypeCorrect == Spec => []TypeOK
<1>1. IInv => TypeOK
  BY DEF IInv
<1>. QED BY Invariant, <1>1, PTL

\* An approved request always has an enrolled node (provisioning_handlers.go
\* inserts the node before it approves the request).
THEOREM ApprovalHasCertificate == Spec => []ApprovedHasNode
<1>1. IInv => ApprovedHasNode
  BY DEF IInv
<1>. QED BY Invariant, <1>1, PTL

\* The node that a used OTP names was enrolled with it, in an approved request.
THEOREM OTPNamesItsNode == Spec => []UsedOTPNamesItsNode
<1>1. IInv => UsedOTPNamesItsNode
  BY DEF IInv
<1>. QED BY Invariant, <1>1, PTL

\* A machine is told a node of its own request, however many enroll at once.
THEOREM MachinesGetTheirOwn == Spec => []ToldItsNode
<1>1. IInv => ToldItsNode
  BY DEF IInv
<1>. QED BY Invariant, <1>1, PTL

\* Concurrent approvals of one request: one at most consumes the OTP.
THEOREM ApprovalsExclude == Spec => []OneApprovalWins
<1>1. IInv => OneApprovalWins
  BY DEF IInv
<1>. QED BY Invariant, <1>1, PTL

\* A decided request keeps its row for ever.
THEOREM DecisionsAreFinal == Spec => DecisionIsFinal
<1>1. IInv /\ [Next]_vars =>
        [\A r \in Requests :
           requests[r].status \in {"approved", "rejected"} => requests'[r] = requests[r]]_vars
  BY RequestsStep DEF NoRequest, Pending
<1>. QED BY Invariant, <1>1, PTL DEF Spec, DecisionIsFinal

\* A node's id and certificate keep the request that they were made for.
THEOREM IdsAreUnique == Spec => IdNeverReassigned
<1>1. IInv /\ [Next]_vars =>
        [\A n \in NodeIds : Enrolled(n) => nodes'[n].request = nodes[n].request]_vars
  BY NodesStep
<1>. QED BY Invariant, <1>1, PTL DEF Spec, IdNeverReassigned

\* What a handler does next, of the things that can bring a node back.
Harmless(h, n) ==
  /\ n \notin handler[h].list
  /\ handler[h].pc \in {"approve", "use", "storage", "lookup", "update"} => handler[h].node # n

\* Out, with its handlers named.
LEMMA OutHandlers ==
  ASSUME NEW n \in NodeIds
  PROVE  Out(n) <=> /\ Excluded(n) /\ storage[n] # "active" /\ n \notin endpoints
                    /\ \A h \in Handlers : Harmless(h, n)
                    /\ check # [node |-> n, healthy |-> TRUE]
BY DEF Out, Harmless, Admitting

\* A handler that moves does not begin to bring back a node that is out.
LEMMA HandlersStayHarmless ==
  ASSUME IInv, Next, NEW n \in NodeIds, Out(n), NEW g \in Handlers
  PROVE  Harmless(g, n)'
<1>. USE DEF IInv
<1>1. Harmless(g, n) /\ Excluded(n) /\ storage[n] # "active" /\ Enrolled(n)
  BY OutHandlers DEF Excluded, Enrolled
<1>2. handler \in [Handlers -> HandlerRow] /\ n # None
  BY ProvisioningAssumption DEF TypeOK, HandlerRow
<1>3. ASSUME NEW h \in Handlers, EnrollStep(h) PROVE Harmless(g, n)'
  BY <1>1, <1>2, <1>3 DEF EnrollStep, BeginRegister, ExpireOTP, CreateRequest, Become, Done, Idle,
     Doing, Harmless
<1>4. ASSUME NEW h \in Handlers, ApproveStep(h) PROVE Harmless(g, n)'
  <2>1. CASE \E r \in Requests : BeginApprove(h, r)
    BY <2>1, <1>1, <1>2 DEF BeginApprove, Become, Doing, Harmless
  <2>2. CASE RegisterNode(h)
    <3>1. Enrolled(second) \/ second # n
      BY <1>1
    <3>. QED BY <2>2, <3>1, <1>1, <1>2 DEF RegisterNode, Become, Done, Idle, Doing, Harmless
  <2>3. CASE ApproveRequest(h)
    BY <2>3, <1>1, <1>2 DEF ApproveRequest, At, Goto, Become, Done, Idle, Doing, Harmless, HandlerRow
  <2>4. CASE UseOTP(h)
    BY <2>4, <1>1, <1>2 DEF UseOTP, At, Goto, Become, Harmless, HandlerRow
  <2>5. CASE CreateStorage(h)
    BY <2>5, <1>1, <1>2 DEF CreateStorage, Goto, Become, Done, Idle, Doing, Harmless, HandlerRow
  <2>. QED BY <1>4, <2>1, <2>2, <2>3, <2>4, <2>5 DEF ApproveStep
<1>5. ASSUME NEW h \in Handlers, NodeStep(h) PROVE Harmless(g, n)'
  <2>1. CASE \E m \in NodeIds : BeginRevoke(h, m) \/ BeginRemoval(h, m) \/ BeginSelfRegister(h, m)
    BY <2>1, <1>1, <1>2 DEF BeginRevoke, BeginRemoval, BeginSelfRegister, Become, Doing, Harmless,
       Excluded
  <2>2. CASE \E m \in NodeIds, st \in {"none", "active", "inactive"} : AdminSetStorage(h, m, st)
    BY <2>2, <1>1, <1>2 DEF AdminSetStorage, Become, Doing, Harmless
  <2>3. CASE Deactivate(h) \/ MarkRemoved(h) \/ UpdateStorage(h)
    BY <2>3, <1>1, <1>2 DEF Deactivate, MarkRemoved, UpdateStorage, Goto, Become, Done, Idle, Doing,
       Harmless, HandlerRow
  <2>4. CASE LookUpStorage(h)
    BY <2>4, <1>1, <1>2 DEF LookUpStorage, At, Goto, Become, Harmless, HandlerRow
  <2>5. CASE ReadEndpoints(h)
    BY <2>5, <1>1, <1>2 DEF ReadEndpoints, Active, Become, Doing, Harmless
  <2>6. CASE StoreEndpoints(h)
    BY <2>6, <1>1, <1>2 DEF StoreEndpoints, Become, Done, Idle, Doing, Harmless
  <2>. QED BY <1>5, <2>1, <2>2, <2>3, <2>4, <2>5, <2>6 DEF NodeStep
<1>6. CASE Restart
  BY <1>6, <1>2 DEF Restart, Idle, Doing, Harmless
<1>7. CASE UNCHANGED handler
  BY <1>7, <1>1 DEF Harmless
<1>8. \/ \E h \in Handlers : EnrollStep(h) \/ ApproveStep(h) \/ NodeStep(h)
      \/ Restart
      \/ UNCHANGED handler
  BY DEF Next, GenerateOTP, Lapse, Reject, CheckEnrollmentStatus, MonitorCheck, MonitorUpdate, Tick
<1>. QED BY <1>3, <1>4, <1>5, <1>6, <1>7, <1>8

\* Nobody but an administrator activates the row of a node that is out.
LEMMA RowStaysInactive ==
  ASSUME IInv, Next, NEW n \in NodeIds, Out(n),
         ~ \E h \in Handlers : AdminSetStorage(h, n, "active")
  PROVE  storage'[n] # "active"
<1>. USE DEF IInv
<1>1. /\ storage[n] # "active" /\ check # [node |-> n, healthy |-> TRUE]
      /\ \A h \in Handlers : Harmless(h, n)
  BY OutHandlers
<1>2. storage \in [NodeIds -> {"none", "active", "inactive"}]
  BY DEF TypeOK
<1>3. CASE \E h \in Handlers : CreateStorage(h) \/ UpdateStorage(h)
  BY <1>3, <1>1, <1>2 DEF CreateStorage, UpdateStorage, At, Harmless
<1>4. CASE \E h \in Handlers, m \in NodeIds, st \in {"none", "active", "inactive"} :
             AdminSetStorage(h, m, st)
  BY <1>4, <1>1, <1>2 DEF AdminSetStorage
<1>5. CASE MonitorUpdate
  <2>1. check.node = n => check.healthy = FALSE
    BY <1>1 DEF TypeOK
  <2>. QED BY <1>5, <2>1, <1>1, <1>2 DEF MonitorUpdate
<1>6. CASE \E m \in NodeIds : SetInactive(m)
  BY <1>6, <1>1, <1>2 DEF SetInactive
<1>7. CASE UNCHANGED storage
  BY <1>7, <1>1
<1>8. \/ \E h \in Handlers : CreateStorage(h) \/ UpdateStorage(h)
      \/ \E h \in Handlers, m \in NodeIds, st \in {"none", "active", "inactive"} :
           AdminSetStorage(h, m, st)
      \/ MonitorUpdate
      \/ \E h \in Handlers : handler[h].node \in NodeIds /\ SetInactive(handler[h].node)
      \/ \E m \in NodeIds : SetInactive(m)
      \/ UNCHANGED storage
  BY DEF Next, EnrollStep, ApproveStep, NodeStep, tables, GenerateOTP, BeginRegister, ExpireOTP,
     CreateRequest, BeginApprove, RegisterNode, ApproveRequest, UseOTP, Reject,
     CheckEnrollmentStatus, ReadEndpoints, StoreEndpoints, BeginRevoke, Deactivate, BeginRemoval,
     MarkRemoved, BeginSelfRegister, LookUpStorage, MonitorCheck, Lapse, Tick, Restart, HandlerInv, At
<1>. QED BY <1>3, <1>4, <1>5, <1>6, <1>7, <1>8

\* The endpoints are what a handler holds, or what is active at a start.
LEMMA EndpointsStayWithout ==
  ASSUME Next, NEW n \in NodeIds, Out(n)
  PROVE  n \notin endpoints'
<1>1. n \notin endpoints /\ n \notin Active /\ \A h \in Handlers : n \notin handler[h].list
  BY DEF Out, Active
<1>2. \/ UNCHANGED endpoints
      \/ endpoints' = Active
      \/ \E h \in Handlers : endpoints' = handler[h].list
  BY DEF Next, EnrollStep, ApproveStep, NodeStep, GenerateOTP, BeginRegister, ExpireOTP,
     CreateRequest, BeginApprove, RegisterNode, ApproveRequest, UseOTP, CreateStorage, Reject,
     CheckEnrollmentStatus, ReadEndpoints, StoreEndpoints, BeginRevoke, Deactivate, BeginRemoval,
     MarkRemoved, BeginSelfRegister, LookUpStorage, UpdateStorage, AdminSetStorage, MonitorCheck,
     MonitorUpdate, Lapse, Tick, Restart
<1>. QED BY <1>1, <1>2

\* A revoked or removed node that is out comes back only by a health check or
\* an administrator's edit.
THEOREM ExclusionLasts == Spec => ExcludedStaysOut
<1>1. IInv /\ [Next]_vars =>
        [\A n \in NodeIds : Out(n) => \/ Out(n)'
                                      \/ check' = [node |-> n, healthy |-> TRUE]
                                      \/ \E h \in Handlers : AdminSetStorage(h, n, "active")]_vars
  <2>. SUFFICES ASSUME IInv, Next, NEW n \in NodeIds, Out(n),
                       check' # [node |-> n, healthy |-> TRUE],
                       ~ \E h \in Handlers : AdminSetStorage(h, n, "active")
                PROVE  Out(n)'
    OBVIOUS
  <2>1. Excluded(n)'
    BY NodesStep DEF Out, Excluded, Enrolled
  <2>2. storage'[n] # "active" /\ n \notin endpoints' /\ \A h \in Handlers : Harmless(h, n)'
    BY RowStaysInactive, EndpointsStayWithout, HandlersStayHarmless
  <2>. QED BY <2>1, <2>2 DEF Out, Harmless, Admitting
<1>. QED BY Invariant, <1>1, PTL DEF Spec, ExcludedStaysOut
=============================================================================
