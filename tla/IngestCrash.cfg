\* One worker that may be aborted and restarted anywhere; files only get newer.
CONSTANTS
  Workers = {w1}
  Readme = readme
  Docs = {guide}
  Beside = {spec}
  Pulls = {}
  Issues = {}
  History = commits
  MaxRevision = 2
  Unsafe = {}
  Blank = {}
  MayPush <- ForwardPush
  PollInterval = 0
  Overlap = 0
  MaxItems = 1
  Forcing = FALSE
  RunLimit = 0
  MaxCommits = 3
  MaxResets = 0
  MaxErrors = 1
  MaxAborts = 2
  MaxRestarts = 2
  MaxLosses = 0
SPECIFICATION FairSpec
INVARIANTS
  CursorNotAhead
  UnchangedMeansCurrent
PROPERTIES Converges UsesItsFiles
