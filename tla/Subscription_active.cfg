\* An inactive server is asked all the same.
SPECIFICATION Spec
CONSTANTS
  Half = 4
  l1 = l1
  l2 = l2
  l3 = l3
  Links = {l1, l2, l3}
  Blank = Blank
  Junk = Junk
  MaxServers = 3
  Tables <- MCTables
  Bodies <- MCBodies
  Headers <- MCHeaders
INVARIANTS OnlyActiveServers
