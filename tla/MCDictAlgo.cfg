CONSTANTS
  Nil = Nil
  MinDictSize = 4
  MaxDictWithoutHashSize = 8
  MaxDictSize = 1073741824
  ProbeFuel = 40
  Masks = {7, 15, 31}
  HashMax = 1100
  SizeMax = 300
SPECIFICATION Spec
INVARIANT TypeOK
INVARIANT ProbeCoversTable
INVARIANT RoundCapacityCorrect
