\* Two requests save a page in the same second.
CONSTANTS
  Threads = {t1, t2}
  Requests = {r1, r2}
  Settings = {s1, s2}
  Title <- EachItsOwn
  Initial = s1
  None = None
  MaxSeconds = 1
  MaxVersions = 3
  MaxAgain = 2
SPECIFICATION Spec
PROPERTY EverySaveIsNew
CHECK_DEADLOCK FALSE
