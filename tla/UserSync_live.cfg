\* Two handlers under weak fairness, failing calls, restarts, server edits.
CONSTANTS
  i1 = i1  i2 = i2  gone = gone
  n1 = n1  n2 = n2  other = other
  a = a  b = b  f = f
  x1 = x1  x2 = x2
  s1 = s1  s2 = s2
  Inbounds = {i1, i2}
  UIDs = {a, f}
  Emails = {n1, n2, other}
  SubIDs = {blank, x1, x2}
  BlankSub = blank
  DefaultSub = x1
  NoClient = NoClient
  Workers = {w1, w2}
  Servers = {s1, s2}
  Names = {n1}
  UserUIDs = {a}
  FormSubs = {blank, x2}
  GoneInbounds = {gone}
  Selections <- MCSelections
  Ops = {"create", "update", "delete", "toggle", "recreate"}
  Seed <- MCSeed
  InitServers <- SecondToCome
  MaxUsers = 1
  MaxOps = 2
  MaxFaults = 2
  MaxEdits = 1
  Delays = TRUE
  NoUser = NoUser
  NoCell = NoCell
SPECIFICATION FairSpec
PROPERTIES HandlersReturn
