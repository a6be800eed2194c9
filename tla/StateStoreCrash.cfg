\* The process dies inside an update, or the lock directory cannot be removed;
\* two writers meet what was left behind.
CONSTANTS
  Writers = {w1, w2}
  Repositories = {site}
  Commits = {c1}
  NoCommit = NoCommit
  NoRequest = NoRequest
  NoLock = NoLock
  LockTimeout = 1
  LockStale = 2
  HoldLimit = 1
  LockFaults = FALSE
  MaxRefusals = 1
  MaxCrashes = 2
SPECIFICATION FairSpec
INVARIANT LockIsOwned
PROPERTY CrashDoesNotWedge
