\* The queue of a node under fairness; a running node answers.
SPECIFICATION DrainSpec
CONSTANTS
  Files = {f1}
  Nodes = {n1}
  Registered = {n1}
  Foldered = {}
  Handlers = {h1}
  Services = {"monitor"}
  None = none
  Lossy = FALSE
  MaxDisruptions = 2
INVARIANT CompletedMeansGone
 
