CONSTANTS
  Digest = {d1, d2}
  Caller = {c1, c2}
  Reason = {w1, w2}
  Commit = {h1}
  PrNumber = {p1}
  NoOne = NoOne
  NoReason = NoReason
  NoCommit = NoCommit
  NoPr = NoPr
SPECIFICATION StoreSpec
SYMMETRY Symmetry
INVARIANTS
  StoreTypeOK
  PendingIsUnsaved
  MemoryIsSavedOrPending
  AckedIsDurable
  HeldGateIsLive
PROPERTIES
  TerminalIsFinal
  LifecycleSpec
