\* Two tabs with pages of any age, two servers ever, five requests.
SPECIFICATION Spec
CONSTANTS
  Tabs = {t1, t2}
  Bases = {x, y}
  Fields = {f1, f2}
  Passwords = {p, q}
  Blank = Blank
  NoServer = NoServer
  MaxID = 2
  MaxOps = 5
  MaxFaults = 1
SYMMETRY Symmetric
INVARIANTS TypeOK
PROPERTIES FormsReachShown BlankKeepsPassword UpdatedMeansStored
