\* An append is cut within a character; two lost documents would be expected.
CONSTANTS
  Sources = {readme, guide, pull}
  Revisions = {r1}
  Torn = Torn
  Garbled = Garbled
  MinDead = 2
  MaxLog = 4
  MaxPartial = 1
  MaxRestarts = 1
SPECIFICATION Spec
INVARIANT CutAppendCostsLittle
