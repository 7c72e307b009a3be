\* Any request at any time against the operator's commands; and the console, a
\* pull or a call among the requests of two runs.
SPECIFICATION ServiceSpec
CONSTANTS
  slot = slot  manual = manual  retry = retry  task = task  f1 = f1
  source = source  r1 = r1  r2 = r2
  Keys = {slot, manual, retry}
  ManualKeys = {manual, retry}
  Tasks = {task}
  TaskOf <- MCTaskOf
  Files = {f1}
  RetryTargets <- MCRetryTargets
  RetryOf <- MCRetryOf
  Rules = {r1, r2}
  RulesOf <- MCRulesOf
  Unstorable = {}
  MaxSwitches = 2
  Lines = {line}
  Faulty <- MCFaulty
  Entries = {e1, e2, e3}
  FirstId = 9
  Ahead = 1
  Limits = {1}
  Operators = {o1, o2}
  Sources = {source}
  SourceOf <- MCSourceOf
  MaxEdits = 1
  Questions <- MCQuestions
  Large <- MCLarge
  Traffic <- MCTraffic
INVARIANTS
  ControlTypeOK StoredOnce ReceiptsTellEffects PendingIsDue
  WalkComplete PullIsCurrent
PROPERTIES
  RunsEndOnce AlertsKept ExchangeKept
