\* One file is not UTF-8 text.
SPECIFICATION FairSpec
CONSTANTS
  slot = slot  manual = manual  task = task  f1 = f1  f2 = f2
  NoKey = NoKey
  Keys = {slot, manual}
  ManualKeys = {manual}
  Tasks = {task}
  TaskOf <- MCTaskOf
  Files = {f1}
  RetryTargets <- NoTargets
  LegacyKeys = {}
  Undecodable = {f1}
  CutTexts = {}
  MaxPendingJobs = 2
  ProcessedCapacity = 1
  MaxFilesPerRun = 1
  MaxExits = 0
  ReplaySlots = FALSE
PROPERTIES
  JobSettles
