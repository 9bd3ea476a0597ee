CONSTANTS
  Nil = Nil
  NoTable = NoTable
  NoOwner = NoOwner
  k1 = k1
  k2 = k2
  k3 = k3
  v1 = v1
  v2 = v2
  Keys <- MCKeys2
  Vals = {v1}
  Hash <- MCHash
  Writers = {w1}
  Readers = {}
  TableIds = {1, 2, 3, 4}
  MinDictSize = 4
  MaxDictWithoutHashSize = 4
  MaxDictSize = 4
  ProbeFuel = 40
  MaxReentry = 0
  NewDictInit = FALSE
  Consumers = {}
  Listers = {l1}
  MaxIterWrites = 0
  SelfUpdate = FALSE
  Comparers = {}
  Other <- MCNoOther
  Reprs = {}
  MaxReprWrites = 0
SPECIFICATION Spec
INVARIANT KeysFit
VIEW DictView
