CONSTANTS
  d1 = d1
  d2 = d2
  t1 = t1
  EngineFiles = {"ledger", "dispatcher"}
  MaxVersion = 2
  NoFile = NoFile
  Delegation = {d1, d2}
  Role = {"IMPLEMENTER", "VERIFIER"}
  MaxChange = 1
  Content <- EachNew
  MaxStop = 1
  MaxCrash = 0
  Thread = {t1}
  NoThread = NoThread
  Overlap = FALSE
SPECIFICATION Spec
SYMMETRY Delegations
CONSTRAINT FewReleases
CONSTRAINT TurnOpen
ACTION_CONSTRAINT OneOfThem
INVARIANT StopNeverSelfReleases
CHECK_DEADLOCK FALSE
