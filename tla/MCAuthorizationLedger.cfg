CONSTANTS
  policy = policy
  human = human
  unproven = unproven
  made = made
  other = other
  Caller = {c1, c2}
  Bumper = {b1}
  NoOne = NoOne
  Auth = {policy, human, unproven}
  Context = {made, other}
  Origin <- MCOrigin
  Human = {human}
  Refused = {}
  Unproven = {unproven}
  Submission <- MCSubmission
  NoSub = NoSub
  MaxEpoch = 1
SPECIFICATION LedgerSpec
SYMMETRY Symmetry
INVARIANTS
  ReadersSeeTheEpoch
  ConsumedOnce
  FencedNeverAllowed
  GrantsMatchLedger
PROPERTIES
  GrantsMoveForward
  OneUseSpec
