\* A slot, the retry of its failed file, one crash, and the task and its quality rule
\* are switched meanwhile.
SPECIFICATION SystemSpec
CONSTANTS
  slot = slot  manual = manual  task = task  f1 = f1  f2 = f2  r1 = r1
  NoKey = NoKey
  Keys = {slot, manual}
  ManualKeys = {manual}
  Tasks = {task}
  TaskOf <- MCTaskOf
  Files = {f1, f2}
  RetryTargets <- RetryOfOne
  RetryOf <- RetryOfSlot
  Rules = {r1}
  RulesOf <- MCRulesOf
  Unstorable = {}
  LegacyKeys = {}
  Undecodable = {}
  CutTexts = {}
  MaxPendingJobs = 2
  ProcessedCapacity = 2
  MaxFilesPerRun = 1
  MaxExits = 1
  ReplaySlots = FALSE
  MaxSwitches = 2
INVARIANTS
  StartTellsStatus
PROPERTIES
  RefusedForCause LifecycleKept
