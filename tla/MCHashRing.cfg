\* Seven nodes join and leave in every order; every lookup in between.
CONSTANTS
  Nodes = {1, 2, 3, 4, 5, 6, 7}
  Keys = {0, 1, 2, 3, 4, 5, 6, 7, 8, 9, 10, 11, 12, 13, 14, 15}
  NumHashes = 16
  VNodes = 2
  KeyHash <- MCKeyHash
  NodeHash <- Scattered
  NoNode = NoNode
SPECIFICATION RingSpec
INVARIANTS OwnerIsMember ReplicasDistinct RingMatchesMembers
PROPERTY OnlyNecessaryMoves
