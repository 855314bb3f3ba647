SPECIFICATION Spec
CONSTANTS
  Var <- MCVar
  Name <- MCName
  Version <- MCVersion
  BadVarId = BadVarId
  Scopes <- AskedWorlds
  Tasks <- AskedTasks
INVARIANT
  NeverRemovesWhatIsAskedFor
CHECK_DEADLOCK FALSE
