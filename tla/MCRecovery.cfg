SPECIFICATION KeptSpec
CONSTANTS
  Missions = {m1, m2}
  Steps = {s1}
  Files = {f1, f2, f3}
  None = None
  Permits = {"none", "lapses"}
  MaxVersion = 3
  Processes = {"cli", "api"}
  Logged <- MCLogged
  Limits = {1, 3}
  MaxRows = 3
  Anything = "any"
SYMMETRY MCSymmetry
CHECK_DEADLOCK FALSE
INVARIANT VersionsDiffer
INVARIANT VerifiedKept
INVARIANT CheckpointedIsBacked
INVARIANT AuditSound
PROPERTY ConfirmedWasGated
PROPERTY EndedIsFinal
