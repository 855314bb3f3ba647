SPECIFICATION Spec
CONSTANTS
  Var <- MCVar
  Name <- MCName
  Version <- MCVersion
  BadVarId = BadVarId
  Scopes <- RivalWorlds
  Tasks <- RivalTasks
INVARIANT
  ModelsMeetAllConflicts
CHECK_DEADLOCK FALSE
