SPECIFICATION FairSpec
CONSTANTS
  read = read
  shell = shell
  shell2 = shell2
  load = load
  k = k
  j = j
  Signatures = {read, shell, load}
  NoCall = NoCall
  Tools = {read, shell, load}
  ToolOf <- MCToolOf
  Usable <- MCUsable
  Gated = {shell}
  Watched = {shell}
  Skills = {k}
  Loads <- MCLoads
  Restricted = {k}
  Decisions = {"always", "deny", "defer"}
  MaxSteps = 3
  MaxToolCalls = 3
  MaxFailures = 1
  SeenCap = 4
  SeenKeep = 2
  Verify = TRUE
  MaxBatch = 2
CHECK_DEADLOCK FALSE
INVARIANT WithinLimits
INVARIANT EachCallAnswered
INVARIANT PendingIsCurrent
INVARIANT ThirdCallBlocked
INVARIANT ConsentGiven
INVARIANT RepeatsBounded
PROPERTY ComesToRest
