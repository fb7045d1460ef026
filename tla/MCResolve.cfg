SPECIFICATION Spec
CONSTANTS
  Cluster = {c1, c2}
  Node = {n1, n2, n3, n4, n5}
  PrimName = {b1, b2}
  c1 = c1
  c2 = c2
  n1 = n1
  n2 = n2
  n3 = n3
  n4 = n4
  n5 = n5
  b1 = b1
  b2 = b2
  Index <- MCIndex
  Guess <- MCGuess
  Hash <- MCHash
  Place <- MCPlace
  FakeEnabled = TRUE
  None = None
INVARIANTS
  TypeOK
  FakePathsApart
  FullIsExact
PROPERTIES
  FakeSticky
