SPECIFICATION Spec
CONSTANTS
  Conns = {1, 2}
  Setups <- MCSetups
  Garbled = {"latin1"}
  Fetching = {"wget"}
  Words <- MCWords
  Userdb <- MCUserdb
  Tree <- MCTree
  MinTry = 2
  MaxTry = 3
  MaxCache = 1
  UploadLimit = 2
  MaxNew = 3
  MaxLag = 1
  MaxSecond = 1
INVARIANTS
  TypeOK
  EventsAttributed
  LogsClosed
  EndtimeKept
  UploadsKept
PROPERTY AllEnd
CHECK_DEADLOCK FALSE
