\* Every code of up to three nodes, two attempts.
SPECIFICATION Spec
CONSTANTS
  Nodes = {n1, n2, n3}
  Peer = peer
  Unknown = unknown
  None = none
  MaxAttempts = 2
SYMMETRY Symmetry
INVARIANTS IInv SurvivesLoss CompleteReadsRight ReportedIsStored
CHECK_DEADLOCK FALSE
