\* Two handlers, every kind of file, two crashes or failing statements.
SPECIFICATION FairSpec
CONSTANTS
  ann = ann
  bob = bob
  typed = typed
  Usernames = {ann, bob}
  MaxID = 3
  ServerIDs = {1, 2}
  Typed = {typed}
  Blank = Blank
  Legacy = Legacy
  NoUser = NoUser
  NoServer = NoServer
  NoTable = NoTable
  Handlers = {h1, h2}
  InitFiles <- MCFiles
  Grace = 2
  Patience = 3
  MaxFaults = 2
  NoTx = NoTx
INVARIANTS TypeOK StoredUsersSurvive LinksSurvive GraceHonoured IdsStayRetired
PROPERTIES UndisturbedStartServes SignalEnds
