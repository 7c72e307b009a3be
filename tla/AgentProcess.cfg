\* Two tasks over midnight, one manual request, the clock set once.
SPECIFICATION FairProcessSpec
CONSTANTS
  often = often  daily = daily  broken = broken  request = request
  NoCandidate = NoCandidate
  SearchLimit = 60
  Tasks = {9, 10}
  Versions = {often, daily, broken}
  CronOf <- MCCronOf
  Candidates = {request}
  CandidateTask <- MCCandidateTask
  Configs <- MCConfigs
  Base <- MCBase
  Horizon <- MCHorizon
  MaxClockSteps = 1
INVARIANTS
  ProcessTypeOK SlotOnce SlotKept StopEndsBatch SuccessIsAskedFor
PROPERTIES
  StopEndsProcess
