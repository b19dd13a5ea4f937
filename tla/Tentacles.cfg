SPECIFICATION FairSpec
CONSTANTS
  Flags = {}
  FileConf <- ShippedMail
  NFiles = 3
INVARIANTS TypeOK NoFalseAlarm CleanedUp
PROPERTIES UserFilesKept TamperNoticed
