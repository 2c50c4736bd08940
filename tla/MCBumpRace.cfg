CONSTANTS
  policy = policy
  human = human
  unproven = unproven
  made = made
  other = other
  Caller = {c1}
  Bumper = {b1, b2}
  NoOne = NoOne
  Auth = {policy, human, unproven}
  Context = {made, other}
  Origin <- MCOrigin
  Human = {human}
  Refused = {}
  Unproven = {unproven}
  Submission <- MCSubmission
  NoSub = NoSub
  MaxEpoch = 2
SPECIFICATION LedgerSpec
SYMMETRY Symmetry
PROPERTY BumpsIncrease
