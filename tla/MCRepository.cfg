SPECIFICATION RepositorySpec
CONSTANTS
  Packages <- MCPackages
  SourcePackages <- MCSourcePackages
  Provides <- MCProvides
  Files <- MCFiles
  Refs <- MCRefs
  FileDirs <- MCFileDirs
  Selections <- MCSelections
  ExternalRefs <- MCExternalRefs
  MaxRuns = 3
  MaxCrashes = 1
INVARIANTS
  IndexTypeOK
  DamageIsNoticed
  ReferencedProvidesAreListed
  ClientLoadsPublished
  QuietClientAccepts
PROPERTY
  ImplementsRepositoryIndex
CHECK_DEADLOCK FALSE
