SPECIFICATION WindowSpec
CONSTANTS
  Boot = {b1, b2}
  NoBoot = NoBoot
  W = 8
  MaxSeq = 12
INVARIANTS WindowTypeOK AtMostOnce NoFreshDuplicate LossIsExact ImplementationsAgree
PROPERTIES LossIsFinal
