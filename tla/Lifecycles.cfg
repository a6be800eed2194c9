CONSTANTS
  Calls <- FetchCalls
  MaxInflight = 1
  MaxRedirects = 1
  Addresses = {a1, a2, b1}
  Loops = {l1, l2, l3}
  NoLoop = NoLoop
  MaxRuns = 3
  Fetches = {f1, f2}
  Urls = {u1, u2, u3}
  Allowed = {u1, u2}
  Global = {a1, a2}
  Requests = {r1, r2}
  Settings = {s1, s2}
  Title <- EachItsOwn
  Initial = s1
  None = None
  Thread = Thread
  Back = Back
  MaxSeconds = 1
  MaxVersions = 5
  MaxAgain = 2
SPECIFICATION PartsSpec
INVARIANTS OneLoop PermitsBalanced OnlyCheckedTargets
PROPERTIES
  StopEndsEveryLoop
  EveryFetchEnds
  EverySaveIsNew UndoIsAStack
CHECK_DEADLOCK FALSE
