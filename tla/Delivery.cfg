\* A slot and a manual request, one crash, any loss and repetition.
SPECIFICATION SystemSpec
CONSTANTS
  slot = slot  manual = manual  task = task  f1 = f1  f2 = f2  r1 = r1
  NoKey = NoKey
  Keys = {slot, manual}
  ManualKeys = {manual}
  Tasks = {task}
  TaskOf <- MCTaskOf
  Files = {f1}
  RetryTargets <- NoTargets
  RetryOf <- NoRetries
  Rules = {r1}
  RulesOf <- MCRulesOf
  Unstorable = {}
  LegacyKeys = {}
  Undecodable = {}
  CutTexts = {}
  MaxPendingJobs = 2
  ProcessedCapacity = 1
  MaxFilesPerRun = 1
  MaxExits = 1
  ReplaySlots = FALSE
  MaxSwitches = 0
INVARIANTS
  ProcessedMeansStored ReceiptsMatchJob RunBehindJob
