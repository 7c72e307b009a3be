\* The clock is set back while the agent is down.
SPECIFICATION SystemSpec
CONSTANTS
  slot = slot  manual = manual  task = task  f1 = f1  f2 = f2  r1 = r1
  NoKey = NoKey
  Keys = {slot}
  ManualKeys = {}
  Tasks = {task}
  TaskOf <- MCTaskOf
  Files = {f1}
  RetryTargets <- NoTargets
  RetryOf <- NoRetries
  Rules = {r1}
  RulesOf <- MCRulesOf
  Unstorable = {}
  LegacyKeys = {}
  Undecodable = {}
  CutTexts = {}
  MaxPendingJobs = 1
  ProcessedCapacity = 1
  MaxFilesPerRun = 1
  MaxExits = 1
  ReplaySlots = TRUE
  MaxSwitches = 0
INVARIANTS
  StartTellsStatus
