CONSTANTS
  w1 = w1
  w2 = w2
  s1 = s1
  s2 = s2
  a = a
  b = b
  i1 = i1
  i2 = i2
  Workers = {w1, w2}
  Sweeps = {s1, s2}
  Items = {i1, i2}
  Order <- TwoSources
  SourceOf <- OneEach
  Settings <- Cases
SPECIFICATION FairSpec
INVARIANTS
  TypeOK
  AtMostOnce
  NothingSwallowed
PROPERTIES
  ListedIsEmitted
