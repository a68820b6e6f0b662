\* A cluster of two nodes.
CONSTANTS
  n1 = n1  n2 = n2  a1 = a1  b1 = b1  b2 = b2
  NoValue = NoValue
  Nodes = {n1, n2}
  OwnerOf <- MCOwnerOf
  Clients = {a1, b1, b2}
  Home <- MCHome
  Modes = {"Partitioned", "Replicated", "NearCache"}
  ChurnModes = {"Partitioned", "Replicated"}
  MaxWrites = 2
  MaxChurn = 2
SPECIFICATION Spec
SYMMETRY Symmetry
INVARIANTS   ReplicasSettle
CHECK_DEADLOCK FALSE
