\* Full runs that overlap, fail and die; incremental runs one at a time
SPECIFICATION FairSpec
CONSTANTS
  Nothing = Nothing
  p1 = p1
  p2 = p2
  r1 = r1
  r2 = r2
  Paths = {p1, p2}
  Contents = {a, b}
  Runs = {r1, r2}
  Deployments <- MCDeployments
  Concurrency = 2
  MaxChanges = 4
  MaxFailures = 1
  MaxCrashes = 2
INVARIANTS TypeOK VersionsLag CheckpointCovers
PROPERTIES SyncConverges
