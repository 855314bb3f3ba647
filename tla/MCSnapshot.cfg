SPECIFICATION SnapshotSpec
CONSTANTS
  RepoLists <- MCRepoLists
  InstalledLists <- MCInstalledLists
INVARIANTS
  SnapshotTypeOK
  PackagesAreKept
  MarkedAreInstalled
  RequiredFilesAreProvided
  SearchedIsSorted
  FindsExactlyThePlaces
  SearchStaysInside
  AnswerIsExact
PROPERTY
  QueryEnds
CHECK_DEADLOCK FALSE
