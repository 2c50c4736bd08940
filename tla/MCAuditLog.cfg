CONSTANTS
  Thread = {t1, t2}
  NoThread = NoThread
  MaxEntries = 5
  Tear = {"partial", "unterminated"}
SPECIFICATION AuditSpec
SYMMETRY Symmetry
INVARIANTS
  ChainVerifiesUpToDamage
  LoggedIsReadable
CHECK_DEADLOCK FALSE
