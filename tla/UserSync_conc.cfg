\* Two handlers at once, late requests and restarts.
CONSTANTS
  i1 = i1  i2 = i2  gone = gone
  n1 = n1  n2 = n2  other = other
  a = a  b = b  f = f
  x1 = x1  x2 = x2
  s1 = s1  s2 = s2
  Inbounds = {i1, i2}
  UIDs = {a, f}
  Emails = {n1, n2, other}
  SubIDs = {blank, x1, x2}
  BlankSub = blank
  DefaultSub = x1
  NoClient = NoClient
  Workers = {w1, w2}
  Servers = {s1}
  Names = {n1, n2}
  UserUIDs = {a}
  FormSubs = {blank, x2}
  GoneInbounds = {}
  Selections <- MCSelections
  Ops = {"create", "update", "delete", "toggle", "recreate"}
  Seed <- MCSeed
  InitServers <- AllActive
  MaxUsers = 2
  MaxOps = 4
  MaxFaults = 1
  MaxEdits = 0
  Delays = TRUE
  NoUser = NoUser
  NoCell = NoCell
SPECIFICATION Spec
SYMMETRY Alike
INVARIANTS TypeOK ForeignUntouched StaleDataHarmless NoUnownedClients
PROPERTIES OnlyGrantsCreateClients DeletedRowsStayDeleted ConflictExplained
  AnsweredMeansStored
