CONSTANTS
  Nil = Nil
  NoTable = NoTable
  NoOwner = NoOwner
  k1 = k1
  k2 = k2
  k3 = k3
  v1 = v1
  v2 = v2
  Keys <- MCKeys2
  Vals = {v1, v2}
  Hash <- MCHash
  Writers = {w1}
  Readers = {r1}
  TableIds = {1, 2, 3, 4}
  MinDictSize = 4
  MaxDictWithoutHashSize = 8
  MaxDictSize = 8
  ProbeFuel = 40
  MaxReentry = 1
  NewDictInit = FALSE
  Consumers = {}
  Listers = {}
  MaxIterWrites = 0
  SelfUpdate = FALSE
  Comparers = {}
  Other <- MCNoOther
  Reprs = {}
  MaxReprWrites = 0
SPECIFICATION Spec
INVARIANT TypeOK
INVARIANT TableWellFormed
INVARIANT NoPanic
PROPERTY DictRefinesAbstract
PROPERTY WriteTakesEffect
PROPERTY GetReturnsVisibleValue
VIEW DictView
