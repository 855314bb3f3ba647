SPECIFICATION PackageDataSpec
CONSTANTS
  NoUrl = NoUrl
  Hole = Hole
  NoFile = NoFile
  Repos <- MCRepos
  Layouts <- MCLayouts
  Published <- MCPublished
  MaxRuns = 3
  MaxFaults = 1
  Asked <- MCAsked
  Installed = {"app"}
INVARIANTS
  QuietReaderIsServed
  UpdateRepairs
  UrlsPointToPublished
  CalmUpdateSucceeds
CHECK_DEADLOCK FALSE
