CONSTANTS
  dFirst = dFirst
  dSecond = dSecond
  base = base
  first = first
  second = second
  Digest = {dSecond}
  Caller = {c1, c2}
  Reason = {"GRANT_REQUEST_FIELD_MISMATCH", "PACKAGE_REJECTED", "REMOTE_HEAD_CHANGED", "AMBIGUOUS_PR", "PR_BASE_MISMATCH", "PR_STATE_MISMATCH"}
  Commit = {first, second}
  PrNumber = {p1}
  NoOne = NoOne
  NoReason = NoReason
  NoCommit = NoCommit
  NoPr = NoPr
  Target <- MCTarget
  Predecessor <- MCPredecessor
  OnBase = {}
  WantsPr = {dSecond}
  MaxOutside = 0
SPECIFICATION LiveBrokerSpec
PROPERTIES
  RequestsEnd
  RevokesEnd
