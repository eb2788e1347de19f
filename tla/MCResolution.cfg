SPECIFICATION Spec
CONSTANTS
  RootManifests <- MCRoots
  PathManifests <- MCPathManifests
  Commits <- MCCommits
  Heads <- MCHeads
  Universe <- MCUniverse
  Published <- MCPublished
  MaxEdits = 4
CHECK_DEADLOCK FALSE
INVARIANTS
    ResolvedAsRequired
PROPERTIES
    Reproducible
    CommandsSettle
