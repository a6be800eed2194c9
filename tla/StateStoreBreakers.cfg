\* Two writers meet the lock directory a crash left behind.
CONSTANTS
  Writers = {w1, w2}
  Repositories = {site, game}
  Commits = {c1}
  NoCommit = NoCommit
  NoRequest = NoRequest
  NoLock = NoLock
  LockTimeout = 1
  LockStale = 2
  HoldLimit = 1
  LockFaults = FALSE
  MaxRefusals = 0
  MaxCrashes = 1
SPECIFICATION Spec
PROPERTY UpdatesAreAtomic
