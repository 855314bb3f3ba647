SPECIFICATION RepositorySpec
CONSTANTS
  Packages <- MCPackages
  SourcePackages <- MCSourcePackages
  Provides <- MCProvides
  Files <- MCFiles
  Refs <- MCRefs
  FileDirs <- MCFileDirs
  Selections <- MCSelections
  ExternalRefs <- MCExternalRefs
  MaxRuns = 3
  MaxCrashes = 0
INVARIANT ProvidesAreRepaired
CHECK_DEADLOCK FALSE
