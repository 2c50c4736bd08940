CONSTANTS
  dFirst = dFirst
  dSecond = dSecond
  base = base
  first = first
  second = second
  Digest = {dFirst}
  Caller = {c1, c2}
  Reason = {"GRANT_REQUEST_FIELD_MISMATCH", "PACKAGE_REJECTED", "REMOTE_HEAD_CHANGED", "AMBIGUOUS_PR", "PR_BASE_MISMATCH", "PR_STATE_MISMATCH"}
  Commit = {base, first, second}
  PrNumber = {}
  NoOne = NoOne
  NoReason = NoReason
  NoCommit = NoCommit
  NoPr = NoPr
  Target <- MCTarget
  Predecessor <- MCPredecessor
  OnBase = {dFirst}
  WantsPr = {}
  MaxOutside = 0
SPECIFICATION BrokerSpec
SYMMETRY Symmetry
INVARIANT PublishedIsNotARace
