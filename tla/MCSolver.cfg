SPECIFICATION SolverSpec
CONSTANTS
  Var <- MCVar
  Name <- MCName
  Version <- MCVersion
  BadVarId = BadVarId
  Scopes <- MCWorlds
  Tasks <- MCTasks
INVARIANTS
  SolverTypeOK
  SolverAssertsHold
  UpdatesReplaceOldVersions
  TypeOK
  NoInternalAssertFails
  LiteralsWillBeVisited
  UserTaskHasEntries
  ModelsMeetRequires
  ModelsMeetNewConflicts
PROPERTIES
  ImplementsTaskSolver
  SolverEnds
  BuildEnds
CHECK_DEADLOCK FALSE
