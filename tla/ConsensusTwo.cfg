CONSTANTS
  RootNumber = 1
  RootEpoch = 1
  MaxEpoch = 5
  Quorum <- TwoThirds
  Network = "timely"
  Awaits = TRUE
  Block <- MCBlock
  Root <- MCRoot
  Parent <- MCParent
  Number <- MCNumber
  Epoch <- MCEpoch
  Chain <- MCChain
  n1 = n1
  n2 = n2
  n3 = n3
  Node = {n1, n2}
  Nonce = {1}
  Stake <- OneEach
  Evidence <- NoEvidence
  MaxInvalidOnMem = 1
  Proposer <- InTurn
  FlawOn <- AsDrawn
SPECIFICATION Spec
INVARIANTS TypeOK Agreement
PROPERTIES ImplementsFinality
CHECK_DEADLOCK FALSE
