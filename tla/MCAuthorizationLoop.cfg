CONSTANTS
  c1 = c1
  c2 = c2
  plan = plan
  draft = draft
  a = a
  b = b
  c = c
  e1 = e1
  go = go
  l1 = l1
  l2 = l2
  Request <- MCRequest
  Config <- MCConfig
  Context = {c1, c2}
  Content = {plan, draft}
  VoteValue = {"APPROVE", "REJECT", "ABSTAIN"}
  None = None
  Trusted <- MCTrusted
  Loop = {l1, l2}
  Task <- MCTask
  Other = {}
  Action = {"FAKE_NOOP"}
  HardMax = 3
  Requested = {1, 4}
  MaxFixtures = 2
  MaxEpoch = 1
SPECIFICATION LoopSpec
SYMMETRY Symmetry
CONSTRAINT CouncilFirst
INVARIANTS
  RecordsProveThemselves
  ExecutedWasCarried
  ExecutedOnce
  UnusedIsReported
PROPERTY UsedWhileCurrent
CHECK_DEADLOCK FALSE
