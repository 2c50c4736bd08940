CONSTANTS
  d1 = d1
  d2 = d2
  t1 = t1
  EngineFiles = {"ledger", "dispatcher"}
  MaxVersion = 2
  NoFile = NoFile
  Delegation = {d1, d2}
  Role = {"IMPLEMENTER", "VERIFIER"}
  MaxChange = 3
  Content <- PutBack
  MaxStop = 1
  MaxCrash = 1
  Thread = {t1}
  NoThread = NoThread
  Overlap = FALSE
SPECIFICATION Spec
SYMMETRY Delegations
CONSTRAINT FewReleases
CONSTRAINT TurnOpen
ACTION_CONSTRAINT OneOfThem
INVARIANTS InstalledIsEnforceable ReceiptsAreTrue RepliesKeepAuthority AllowedWasEarned
CHECK_DEADLOCK FALSE
