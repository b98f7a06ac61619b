\* Switching on a user whose name belongs to somebody else's client.
CONSTANTS
  i1 = i1  i2 = i2  gone = gone
  n1 = n1  n2 = n2  other = other
  a = a  b = b  f = f
  x1 = x1  x2 = x2
  s1 = s1  s2 = s2
  Inbounds = {i1, i2}
  UIDs = {a, f}
  Emails = {n1, n2, other}
  SubIDs = {blank, x1, x2}
  BlankSub = blank
  DefaultSub = x1
  NoClient = NoClient
  Workers = {w1}
  Servers = {s1}
  Names = {n1, n2}
  UserUIDs = {a}
  FormSubs = {x2}
  GoneInbounds = {gone}
  Selections <- MCSelections
  Ops = {"create", "toggle"}
  Seed <- MCSeed
  InitServers <- AllActive
  MaxUsers = 1
  MaxOps = 2
  MaxFaults = 0
  MaxEdits = 0
  Delays = FALSE
  NoUser = NoUser
  NoCell = NoCell
SPECIFICATION Spec
PROPERTIES ConflictIsAnotherInbound
