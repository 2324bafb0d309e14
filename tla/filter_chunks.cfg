SPECIFICATION FilterSpec
CONSTANTS
  Responses <- MCResponses
  Enabled = TRUE
INVARIANTS EmptyIsSpoiled ManyEntriesPassThrough
