\* A slot and a manual request, with room for one job in the queue; every record can be
\* stored.
SPECIFICATION FairSystemSpec
CONSTANTS
  slot = slot  manual = manual  task = task  f1 = f1  f2 = f2  r1 = r1
  NoKey = NoKey
  Keys = {slot, manual}
  ManualKeys = {manual}
  Tasks = {task}
  TaskOf <- MCTaskOf
  Files = {f1}
  RetryTargets <- NoTargets
  RetryOf <- NoRetries
  Rules = {r1}
  RulesOf <- MCRulesOf
  Unstorable = {}
  LegacyKeys = {}
  Undecodable = {}
  CutTexts = {}
  MaxPendingJobs = 1
  ProcessedCapacity = 1
  MaxFilesPerRun = 1
  MaxExits = 0
  ReplaySlots = FALSE
  MaxSwitches = 0
PROPERTIES
  RunSettles
