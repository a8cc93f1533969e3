SPECIFICATION ArenaSpec
CONSTANTS
  MaxCaptured = 3
  LargeDiff = 3
  Diffs <- MCDiffs
  text = text
  key = key
  big = big
  bigger = bigger
  Paths = {1, 2, 3}
  Contents = {text, key, big, bigger}
  Absent = Absent
  Hashed = {text, key}
  Meta <- MCMeta
  MaxFiles = 2
  NoEvidence = NoEvidence
  Suites = {s1, s2}
  NoSuite = NoSuite
  Order <- MCOrder
  Spec0 <- MCSpec
  Commands <- MCCommands
  Calls <- MCCalls
  NoCall = NoCall
  Small = {text, key}
  Outside = Outside
  Updates <- MCUpdates
  Secret = {key}
  Modes <- MCModes
  Earlier <- MCEarlier
  ScriptLength = 0
  MaxEdits = 1
  NoScore = NoScore
SYMMETRY MCSymmetry
CHECK_DEADLOCK FALSE
INVARIANT DeltaRebuilds
INVARIANT PassIsReobserved
INVARIANT OutcomesAgree
INVARIANT DeclineIsReported
INVARIANT DiffRecovered
 
