SPECIFICATION Spec
CONSTANTS
  KeyIds <- Setting
  Secrets <- Setting
  Sessions <- Setting
INVARIANTS RunsAsAnnounced Version2Tokenless RoleNeverFromInstance FilesReadable
