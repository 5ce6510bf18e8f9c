\* All that can happen to the node of one request.
SPECIFICATION Spec
CONSTANTS
  OTPs = {o1}
  Requests = {r1}
  Handlers = {h1, h2}
  None = none
  Services = {"revoke", "remove", "register", "edit", "monitor"}
  MaxSecond = 1
SYMMETRY Symmetry
INVARIANT IInv
PROPERTY ExcludedStaysOut
