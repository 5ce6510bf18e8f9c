\* The deletion of an upload that two nodes hold.
SPECIFICATION Spec
CONSTANTS
  Files = {f1}
  Nodes = {n1, n2}
  Registered = {n1, n2}
  Foldered = {}
  Handlers = {h1}
  Services = {}
  None = none
  Lossy = FALSE
  MaxDisruptions = 0
SYMMETRY NodeSymmetry
INVARIANT DeletedFromEveryNode
