-------------------------- MODULE MCNodeEnrollment --------------------------
(* The instance of NodeEnrollment that TLC checks. *)
EXTENDS NodeEnrollment, TLC

CONSTANTS http1, https1, http2, p1

OneEarlier == http1 :> p1 @@ https1 :> None @@ http2 :> None

\* generateControllerHash drops the protocol.
HostDir == http1 :> "host1" @@ https1 :> "host1" @@ http2 :> "host2"
=============================================================================
