----------------------------- MODULE PeerLink -----------------------------
(***************************************************************************)
(* What two connected controllers promise each other.  The administrator   *)
(* of one decides, and every decision issues at most one certificate; the  *)
(* other trusts no certificate that was not issued for its own request,    *)
(* unless somebody posted one: it does not ask who sends an acceptance.    *)
(***************************************************************************)
EXTENDS Naturals

CONSTANTS Tokens   \* a connection request each

VARIABLES
  decisions,   \* how often the request was accepted
  issued,      \* the decisions whose certificates exist
  posted,      \* requests for which an acceptance came that nobody decided
  trusted      \* the decision whose certificate is trusted, if any; 0: a posted one

vars == <<decisions, issued, posted, trusted>>

Init ==
  /\ decisions = [t \in Tokens |-> 0]
  /\ issued = [t \in Tokens |-> {}]
  /\ posted = {}
  /\ trusted = [t \in Tokens |-> {}]

Decide(t) ==
  /\ decisions' = [decisions EXCEPT ![t] = @ + 1]
  /\ UNCHANGED <<issued, posted, trusted>>

Issue(t, c) ==
  /\ c \in 1..decisions[t] /\ c \notin issued[t]
  /\ issued' = [issued EXCEPT ![t] = @ \cup {c}]
  /\ UNCHANGED <<decisions, posted, trusted>>

Post(t) ==
  /\ posted' = posted \cup {t}
  /\ UNCHANGED <<decisions, issued, trusted>>

Trust(t, c) ==
  /\ c \in issued[t] \/ (c = 0 /\ t \in posted)
  /\ trusted' = [trusted EXCEPT ![t] = {c}]
  /\ UNCHANGED <<decisions, issued, posted>>

Distrust(t) ==
  /\ trusted' = [trusted EXCEPT ![t] = {}]
  /\ UNCHANGED <<decisions, issued, posted>>

Next ==
  \E t \in Tokens :
    \/ Decide(t)
    \/ \E c \in 0..decisions[t] : Issue(t, c) \/ Trust(t, c)
    \/ Post(t)
    \/ Distrust(t)

Spec == Init /\ [][Next]_vars
=============================================================================
