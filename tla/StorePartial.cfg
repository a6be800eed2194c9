\* Appends may be cut short by a full disk or a crash.
CONSTANTS
  Sources = {readme, guide}
  Revisions = {r1, r2}
  Torn = Torn
  Garbled = Garbled
  MinDead = 2
  MaxLog = 4
  MaxPartial = 2
  MaxRestarts = 2
SPECIFICATION Spec
INVARIANTS
  TypeOK
  OneRevisionPerSource
  ChunksMatchDocuments
  ServedContentIsAllowed
  ReloadIsTheLoop
  LossIsBounded
PROPERTIES CompactKeepsView ActsAsView
