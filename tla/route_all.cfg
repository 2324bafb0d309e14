SPECIFICATION FairSpec
CONSTANTS
  Configs <- MCConfigs
  Methods = {"GET", "HEAD", "OPTIONS", "PUT"}
  Paths <- MCPaths
  Markers <- NoMarker
  Storing <- MCStoring
  Headers <- MCHeaders
  MaxDepth = 3
INVARIANTS SignedIsProxied CheckedBeforeSigned ProbeNeverProbes BucketNotRead
PROPERTIES ContractSpec EveryRequestAnswered
