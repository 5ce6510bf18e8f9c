\* One request, two handlers, two acceptances, one acceptance from elsewhere.
SPECIFICATION Spec
CONSTANTS
  Tokens = {t1}
  Handlers = {h1, h2}
  MaxDecisions = 2
  MaxPosted = 1
SYMMETRY Symmetry
INVARIANTS IInv SharingNeedsDecision
PROPERTY Connects
