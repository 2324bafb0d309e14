SPECIFICATION FairSpec
CONSTANTS
  Slash = 2
  Prefix <- MCPrefix
  Keys <- MCKeys
  Token <- MCToken
  PageSizes = {0, 1, 2, 6}
  MaxListPageSize = 5
  PageCap = 3
  Backends = {"aws", "opaque"}
  MaxChanges = 3
INVARIANTS ShownOnce NothingSkipped MarkersAreIssued
PROPERTIES WalkEnds
