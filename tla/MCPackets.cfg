SPECIFICATION Spec
CONSTANTS
  Ids = {0, 1}
  All = 99
  Nodes = {n1, n2, n3}
  MaxLen = 2
  Bytes = {"a", "b"}
SYMMETRY AnyNode
INVARIANTS
  TypeOK
  ListIntact
PROPERTIES
  ImplementsStreams
