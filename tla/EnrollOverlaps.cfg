\* A node that is enrolled with one of two controllers, one of which has two URLs,
\* and two commands more.
SPECIFICATION FairSpec
CONSTANTS
  http1 = http1
  https1 = https1
  http2 = http2
  p1 = p1
  Controllers = {http1, https1, http2}
  Commands = {p1, p2, p3}
  Earlier <- OneEarlier
  Dir <- HostDir
  Monitor = monitor
  None = none
INVARIANTS IInv CredentialsFit
PROPERTIES ListedStays RevocationNoticed
CHECK_DEADLOCK FALSE
