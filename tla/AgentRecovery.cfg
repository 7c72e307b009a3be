\* One slot and one manual request, two files, one of which cannot be reported; one crash.
SPECIFICATION Spec
CONSTANTS
  slot = slot  manual = manual  task = task  f1 = f1  f2 = f2
  NoKey = NoKey
  Keys = {slot, manual}
  ManualKeys = {manual}
  Tasks = {task}
  TaskOf <- MCTaskOf
  Files = {f1, f2}
  RetryTargets <- NoTargets
  LegacyKeys = {}
  Undecodable = {f2}
  CutTexts = {{f2}}
  MaxPendingJobs = 2
  ProcessedCapacity = 1
  MaxFilesPerRun = 1
  MaxExits = 1
  ReplaySlots = FALSE
INVARIANTS
  TypeOK JobEvidence ReportTellsFailures NoDoublePlan NoQueueFault
PROPERTIES
  RequestsFrozen StageNeverGoesBack
