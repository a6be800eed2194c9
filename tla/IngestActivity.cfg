\* One worker; a pull request and an issue that change at any time.
CONSTANTS
  Workers = {w1}
  Readme = readme
  Docs = {}
  Beside = {}
  Pulls = {pull}
  Issues = {issue}
  History = commits
  MaxRevision = 2
  Unsafe = {2}
  Blank = {}
  MayPush <- AnyPush
  PollInterval = 2
  Overlap = 2
  MaxItems = 1
  Forcing = FALSE
  RunLimit = 1
  MaxCommits = 1
  MaxResets = 0
  MaxErrors = 1
  MaxAborts = 1
  MaxRestarts = 0
  MaxLosses = 0
SPECIFICATION FairSpec
INVARIANT StaleIsPending
PROPERTY Converges
