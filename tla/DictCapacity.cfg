CONSTANTS
  Nil = Nil
  MinDictSize = 4
  MaxDictWithoutHashSize = 8
  MaxDictSize = 1073741824
  ProbeFuel = 40
  SizeMax = 300
SPECIFICATION Spec
INVARIANT RoundCapacityCorrect
