SPECIFICATION SnapshotSpec
CONSTANTS
  RepoLists <- MCRepoLists
  InstalledLists <- MCInstalledLists
INVARIANT
  RangeEndsInside
CHECK_DEADLOCK FALSE
