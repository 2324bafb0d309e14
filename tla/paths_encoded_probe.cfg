SPECIFICATION Spec
CONSTANTS
  Configs <- MCConfigs
  Tokens <- MCTokens
  MaxLen = 5
INVARIANTS ProbeNamesTheIndexPage
