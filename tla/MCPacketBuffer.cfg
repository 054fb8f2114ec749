SPECIFICATION Spec
CONSTANTS
  Node = {n1, n2, n3, n4, n5}
  Null = Null
  Packet <- MCPacket
SYMMETRY NodeSymmetry
INVARIANTS TypeOK QueriesAgree
PROPERTY SortedSpec
