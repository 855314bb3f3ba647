SPECIFICATION Spec
CONSTANTS
  Var <- MCVar
  Name <- MCName
  Version <- MCVersion
  BadVarId = BadVarId
  Scopes <- RemoveWorlds
  Tasks <- RemoveTasks
INVARIANT
  NeverInstallsWhatIsKeptOut
CHECK_DEADLOCK FALSE
