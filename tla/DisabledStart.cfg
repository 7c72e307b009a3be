\* The task is disabled while the answer to a scheduled start is lost.
SPECIFICATION SystemSpec
CONSTANTS
  slot = slot  manual = manual  task = task  f1 = f1  f2 = f2  r1 = r1
  NoKey = NoKey
  Keys = {slot}
  ManualKeys = {}
  Tasks = {task}
  TaskOf <- MCTaskOf
  Files = {f1}
  RetryTargets <- NoTargets
  RetryOf <- NoRetries
  Rules = {r1}
  RulesOf <- MCRulesOf
  Unstorable = {}
  LegacyKeys = {}
  Undecodable = {}
  CutTexts = {}
  MaxPendingJobs = 1
  ProcessedCapacity = 1
  MaxFilesPerRun = 1
  MaxExits = 0
  ReplaySlots = FALSE
  MaxSwitches = 1
INVARIANTS
  RunningNotInterrupted
