\* Two administrators, two requests with one OTP or two, three seconds.
SPECIFICATION Spec
CONSTANTS
  OTPs = {o1, o2}
  Requests = {r1, r2}
  Handlers = {h1, h2}
  None = none
  Services = {}
  MaxSecond = 3
SYMMETRY Symmetry
INVARIANTS ApprovedHasNode UsedOTPNamesItsNode ToldItsNode OneApprovalWins
PROPERTIES DecisionIsFinal IdNeverReassigned
