\* The refresher and an API request ingest the same repository.
CONSTANTS
  Workers = {w1, w2}
  Readme = readme
  Docs = {}
  Beside = {}
  Pulls = {}
  Issues = {}
  History = commits
  MaxRevision = 2
  Unsafe = {}
  Blank = {}
  MayPush <- ForwardPush
  PollInterval = 0
  Overlap = 0
  MaxItems = 1
  Forcing = FALSE
  RunLimit = 0
  MaxCommits = 3
  MaxResets = 0
  MaxErrors = 0
  MaxAborts = 0
  MaxRestarts = 0
  MaxLosses = 0
SPECIFICATION Spec
INVARIANT UnchangedMeansCurrent
