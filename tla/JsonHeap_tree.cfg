SPECIFICATION Spec
CONSTANTS
  Nodes = {n1, n2, n3, n4, n5}
  Null = Null
  Ops <- ListOps
SYMMETRY Interchangeable
INVARIANTS
  DoublyLinked
  NothingLost
PROPERTIES
  PlacedAsAsked
  ImplementsTree
