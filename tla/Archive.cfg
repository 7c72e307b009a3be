\* Two files in a directory two levels deep, two kills or power failures.
SPECIFICATION ArchiveSpec
CONSTANTS
  LastFile = 2
  Depth = 2
  MaxExits = 2
INVARIANTS
  ArchiveTypeOK EvidenceWhole FailedForCause
PROPERTIES
  EvidenceKept
