\* One worker; files come, go and are rejected; errors, a lost index.
CONSTANTS
  Workers = {w1}
  Readme = readme
  Docs = {guide}
  Beside = {spec}
  Pulls = {}
  Issues = {}
  History = commits
  MaxRevision = 3
  Unsafe = {2}
  Blank = {3}
  MayPush <- MixedPush
  PollInterval = 0
  Overlap = 0
  MaxItems = 1
  Forcing = TRUE
  RunLimit = 0
  MaxCommits = 3
  MaxResets = 1
  MaxErrors = 1
  MaxAborts = 0
  MaxRestarts = 0
  MaxLosses = 1
SPECIFICATION FairSpec
INVARIANTS
  TypeOK
  SnapshotPaired
PROPERTY Converges
