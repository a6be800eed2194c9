CONSTANTS
  Clients = {a, b, c}
  NoClient = NoClient
  Threads = {t1, t2}
  Nobody = Nobody
  Urls = {u1, u2}
  Pulls = {p1, p2, p3, p4}
  Issues = {i1}
  Chunks = {c1, c2, c3}
  OddChunks = {c1, c3}
  Documents = {d1, d2}
  Operators = {o1, o2}
  PerMinute = 2
  MaxClients = 2
  Window = 3
  Second = 2
  MaxTime = 4
  Versions = {1, 2}
  Retries = 1
  MaxEntries = 1
  MaxChanges = 2
  MaxFaults = 1
  Pool = 1
  MaxFilters = 1
  PerPage = 2
  Limit = 3
  MaxPages = 3
  MaxEdits = 3
  MaxRecords = 3
  MaxReleases = 3
  MaxRequests = 2
  MaxCalls = 1
SPECIFICATION ProcessSpec
INVARIANTS
  EachTypeOK
  AtMostPerMinute FullMeansBusy AdviceIsExact
  AnswerIsCurrent NothingSkipped
  AnswersFromTheStore
  OnlyApprovedIsAdmitted OneReleasePerOperator
  SlotIsItsGeneration NothingUnscreenedPasses RecordsAreTrue
SYMMETRY Symmetry
CHECK_DEADLOCK FALSE
