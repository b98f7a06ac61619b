\* Two goroutines, panels of every kind, two faults, one expiry.
SPECIFICATION Spec
CONSTANTS
  Callers = {c1, c2}
  p1 = p1
  p2 = p2
  p3 = p3
  p4 = p4
  p5 = p5
  Panels <- MCPanels
  SiteOf <- MCSites
  Good <- MCGood
  Edited <- MCEdited
  Rejecting <- MCRejecting
  LoginPaths = 2
  MaxCalls = 4
  MaxFaults = 2
  MaxExpired = 1
  NoPanel = NoPanel
SYMMETRY Symmetric
INVARIANTS TypeOK SixRequestsAtMost
PROPERTIES KeepsContract QuietExpiryIsHidden
