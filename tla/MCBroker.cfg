CONSTANTS
  dFirst = dFirst
  dSecond = dSecond
  base = base
  first = first
  second = second
  Digest = {dFirst, dSecond}
  Caller = {c1, c2}
  Reason = {"GRANT_REQUEST_FIELD_MISMATCH", "PACKAGE_REJECTED", "REMOTE_HEAD_CHANGED", "AMBIGUOUS_PR", "PR_BASE_MISMATCH", "PR_STATE_MISMATCH"}
  Commit = {base, first, second}
  PrNumber = {p1, p2}
  NoOne = NoOne
  NoReason = NoReason
  NoCommit = NoCommit
  NoPr = NoPr
  Target <- MCTarget
  Predecessor <- MCPredecessor
  OnBase = {dFirst}
  WantsPr = {dSecond}
  MaxOutside = 2
SPECIFICATION BrokerSpec
SYMMETRY Symmetry
CONSTRAINT Together
INVARIANTS
  AdmittedPhaseIsLive
  MovesAreAuthorized
  PublishedIsTrue
  AnswersAreTrue
  OneOpenPrPerGrant
