\* A job of an older agent version, then a new slot; the clock may be set back while
\* the agent is down.
SPECIFICATION Spec
CONSTANTS
  slot = slot  manual = manual  task = task  f1 = f1  f2 = f2
  NoKey = NoKey
  Keys = {slot, manual}
  ManualKeys = {manual}
  Tasks = {task}
  TaskOf <- MCTaskOf
  Files = {f1, f2}
  RetryTargets <- NoTargets
  LegacyKeys = {manual}
  Undecodable = {}
  CutTexts = {}
  MaxPendingJobs = 2
  ProcessedCapacity = 1
  MaxFilesPerRun = 1
  MaxExits = 1
  ReplaySlots = TRUE
INVARIANTS
  SnapshotFresh NoJobForgotten ManifestBacked
PROPERTIES
  FailuresKept AttentionIsLeftAlone
