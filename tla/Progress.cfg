CONSTANTS
  RootNumber = 1
  RootEpoch = 1
  MaxEpoch = 4
  Quorum <- TwoThirds
  Network = "sync"
  Awaits = FALSE
  Block <- MCBlock
  Root <- MCRoot
  Parent <- MCParent
  Number <- MCNumber
  Epoch <- MCEpoch
  Chain <- MCChain
  n1 = n1
  n2 = n2
  n3 = n3
  Node = {n1, n2, n3}
  Nonce = {1}
  Stake <- OneEach
  Evidence <- NoEvidence
  MaxInvalidOnMem = 1
  Proposer <- InTurn
  FlawOn <- AsDrawn
  ch1 = ch1
  id1 = id1
  id2 = id2
  t1 = t1
  p1 = p1
  p2 = p2
  r1 = r1
  Null = Null
SPECIFICATION ProgressSpec
PROPERTIES ValidatorsFinalize SyncsEnd EverythingSettles
CHECK_DEADLOCK FALSE
