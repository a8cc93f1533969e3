SPECIFICATION Spec
CONSTANTS
  Callers = {0, 1, 2, 3}
  Deployments <- MCDeployments
  NoPrice = NoPrice
  Usages <- MCUsages
  Attempts = 2
  Unmeasured = Unmeasured
  Answers <- MCAnswers
  MaxAgents = 3
  MaxSteps = 2
CHECK_DEADLOCK FALSE
INVARIANT BudgetHolds
INVARIANT DepsInContext
INVARIANT NothingLost
INVARIANT InTurnNoRace
PROPERTY SwarmEnds
