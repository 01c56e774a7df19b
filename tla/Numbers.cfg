\* 31 is a prime, 3 a generator modulo 31.
CONSTANTS
  p1 = p1  p2 = p2
  SignBit = 32
  Multiplier = 3
  Seeds <- SomeSeeds
  MaxDraws = 33
  ElementBits = 4
  PerWord = 2
  CountBits = 4
  HashFactor = 93
  MixStart = 185
  Platform = {p1, p2}
  Values <- SomeValues
  MaxLen = 4
  MaxKeys = 2
SPECIFICATION Spec
INVARIANT RangesAgree
INVARIANT OrderDoesNotMatter
PROPERTY DrawsAsDocumented
CHECK_DEADLOCK FALSE
