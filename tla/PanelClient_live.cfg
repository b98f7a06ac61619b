\* Two calls that meet, every kind of panel, with fairness: both return.
SPECIFICATION FairSpec
CONSTANTS
  Callers = {c1, c2}
  p1 = p1
  p2 = p2
  p3 = p3
  p4 = p4
  p5 = p5
  Panels <- MCPanels
  SiteOf <- MCSites
  Good <- MCGood
  Edited <- MCEdited
  Rejecting <- MCRejecting
  LoginPaths = 2
  MaxCalls = 2
  MaxFaults = 1
  MaxExpired = 1
  NoPanel = NoPanel
PROPERTIES CallsReturn
