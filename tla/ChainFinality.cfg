CONSTANTS
  RootNumber = 1
  RootEpoch = 1
  MaxEpoch = 5
  Block <- MCBlock
  Root <- MCRoot
  Parent <- MCParent
  Number <- MCNumber
  Epoch <- MCEpoch
  Chain <- MCChain
  Node = {n1, n2, n3}
  Quorum <- MCQuorum
SYMMETRY Symmetry
SPECIFICATION Spec
INVARIANTS IInv Agreement FinalizedIsOnlyNotarized
CHECK_DEADLOCK FALSE
