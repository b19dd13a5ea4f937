SPECIFICATION Spec
CONSTANTS
  Scripts <- MCScripts
  Stages <- MCStages
  Tree <- MCTree
  Home <- MCHome
  Payloads = {"p"}
  MaxNew = 3
  MaxTicks = 3
  MaxObjs = 6
INVARIANTS
  TypeOK
  PromptMeansDone
  LastItemRuns
  ExitInTurn
PROPERTIES
  
  NothingDetached
CHECK_DEADLOCK FALSE
