SPECIFICATION Spec
CONSTANTS
  Block <- MCBlock
  Root <- MCRoot
  Parent <- MCParent
  Number <- MCNumber
  Epoch <- MCEpoch
  Chain <- MCChain
  RootNumber = 0
  RootEpoch = 0
  MaxEpoch = 2
  Tx = {t1}
  TempId = {1, 2, 3}
  Blamed <- MCBlamed
INVARIANTS
  TypeOK
  FinalIsOfLastBlock
  PoolIsExact
  NothingIsShared
  FrontIsAsReported
  NothingLeaks
