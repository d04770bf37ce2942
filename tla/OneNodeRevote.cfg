CONSTANTS
  RootNumber = 1
  RootEpoch = 1
  MaxEpoch = 5
  Block <- MCForks
  Root <- MCRoot
  Parent <- MCParent
  Number <- MCNumber
  Epoch <- MCEpoch
  Chain <- MCChain
  n1 = n1
  n2 = n2
  n3 = n3
  Node = {n1, n2, n3}
  self = n1
  Nonce = {1, 2}
  Stake <- OneEach
  Proposer <- MCProposer
  FlawOn <- MCFlawOn
  Evidence <- MCEvidence
  MaxInvalidOnMem = 1
  Sent <- MCSent
  Accused <- MCAccused
SPECIFICATION Spec
INVARIANTS NotarizedByMajority
CHECK_DEADLOCK FALSE
