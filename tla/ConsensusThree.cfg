CONSTANTS
  RootNumber = 1
  RootEpoch = 1
  MaxEpoch = 3
  Quorum <- TwoThirds
  Network = "timely"
  Awaits = FALSE
  Block <- MCBlock
  Root <- MCRoot
  Parent <- MCParent
  Number <- MCNumber
  Epoch <- MCEpoch
  Chain <- MCChain
  n1 = n1
  n2 = n2
  n3 = n3
  Node = {n1, n2, n3}
  Nonce = {1}
  Stake <- OneEach
  Evidence <- NoEvidence
  MaxInvalidOnMem = 1
  Proposer <- ByParent
  FlawOn <- AsDrawn
SPECIFICATION InOrderSpec
CONSTRAINT FewAreMissed
INVARIANTS TimelyIInv OnlyRivalsAreBlamed
PROPERTIES ImplementsFinality
CHECK_DEADLOCK FALSE
