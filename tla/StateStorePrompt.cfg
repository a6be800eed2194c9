\* Two repositories updated by two prompt writers; the lock never goes stale.
CONSTANTS
  Writers = {w1, w2}
  Repositories = {site, game}
  Commits = {c1}
  NoCommit = NoCommit
  NoRequest = NoRequest
  NoLock = NoLock
  LockTimeout = 1
  LockStale = 3
  HoldLimit = 2
  LockFaults = TRUE
  MaxRefusals = 0
  MaxCrashes = 0
SPECIFICATION Spec
INVARIANTS
  TypeOK
PROPERTY UpdatesAreAtomic
