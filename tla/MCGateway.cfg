SPECIFICATION Spec
CONSTANTS
  tool1 = tool1
  cap = cap
  old = old
  Tools = {tool1}
  NoTool = NoTool
  Offered <- MCOffered
  Threads = {t1, t2}
  MaxEntries = 3
  Known = {cap, old}
  Revoked = {old}
  Rules <- MCRules
  Values <- MCValues
  Schemas <- MCSchemas
  Requires <- MCRequires
  Contexts <- MCContexts
  MaxCalls = 2
  MaxChanges = 2
SYMMETRY MCSymmetry
CHECK_DEADLOCK FALSE
INVARIANT VerifiesUntilPruned
INVARIANT RunsAsAdjudicated
INVARIANT RevokedNeverRuns
INVARIANT RecordNamesWhatRan
PROPERTY RevokedIsTerminal
