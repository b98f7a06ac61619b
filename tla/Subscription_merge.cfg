\* Every outcome of up to three servers, fetched in every order.
SPECIFICATION FairSpec
CONSTANTS
  Half = 4
  l1 = l1
  l2 = l2
  l3 = l3
  Links = {l1, l2, l3}
  Blank = Blank
  Junk = Junk
  MaxServers = 3
  Tables <- MCTables
  Bodies <- MCBodies
  Headers <- MCHeaders
INVARIANTS TypeOK SumsAreExact
PROPERTIES KeepsPromise RequestsAnswered
