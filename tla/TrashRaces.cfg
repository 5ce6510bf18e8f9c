\* Requests against each other and the cleanup: two nodes, one registered.
SPECIFICATION FairSpec
CONSTANTS
  Files = {f1}
  Nodes = {n1, n2}
  Registered = {n1}
  Foldered = {f1}
  Handlers = {h1, h2}
  Services = {"cleanup"}
  None = none
  Lossy = TRUE
  MaxDisruptions = 1
INVARIANTS IInv OnlyCondemnedLoseData
PROPERTIES NoSilentForget EveryFileHasOneLife UntouchedStays ExpiredRowsGo
