CONSTANTS
  c1 = c1
  plan = plan
  a = a
  b = b
  c = c
  e1 = e1
  run1 = run1
  run2 = run2
  task = task
  note = note
  Request <- MCRequest
  Config <- MCConfig
  Context = {c1}
  Content = {plan}
  VoteValue = {"APPROVE", "REJECT"}
  None = None
  Trusted <- MCTrusted
  Run = {run1, run2}
  TaskRecord = {task}
  Nobody = Nobody
  Seating <- MCSeating
  Note = {note}
  TheRun = run1
  TheTask = task
  MaxTry = 2
SPECIFICATION ShadowSpec
CONSTRAINT NotBoth
INVARIANTS
  AckedIsKept
  ReportsAreTrue
  DecisionsAreDocumented
  ReturnsMeanProved
PROPERTIES
  FailsClosed
CHECK_DEADLOCK FALSE
