\* A manual request, one crash, its task disabled and enabled; the records of one file
\* cannot be stored.
SPECIFICATION FairSystemSpec
CONSTANTS
  slot = slot  manual = manual  task = task  f1 = f1  f2 = f2  r1 = r1
  NoKey = NoKey
  Keys = {manual}
  ManualKeys = {manual}
  Tasks = {task}
  TaskOf <- MCTaskOf
  Files = {f1, f2}
  RetryTargets <- NoTargets
  RetryOf <- NoRetries
  Rules = {}
  RulesOf <- MCRulesOf
  Unstorable = {f2}
  LegacyKeys = {}
  Undecodable = {}
  CutTexts = {}
  MaxPendingJobs = 1
  ProcessedCapacity = 1
  MaxFilesPerRun = 1
  MaxExits = 1
  ReplaySlots = FALSE
  MaxSwitches = 2
PROPERTIES
  RunSettles JobSettlesOrStuck
