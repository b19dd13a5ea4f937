SPECIFICATION FairSpec
CONSTANTS
  Flags = {"only-arm-hunter"}
  FileConf <- Shipped
  Pids <- PidSet
  MaxGen = 2
  Paths = {"secret", "key", "other"}
  Tracked = {"secret", "other"}
  KeyOf <- OneKey
  NoKey = "None"
INVARIANTS TypeOK OnlyHoldersKilled
PROPERTIES HolderKilled
