SPECIFICATION Spec
CONSTANTS
  read = read
  shell = shell
  shell2 = shell2
  load = load
  k = k
  j = j
  Signatures = {shell, shell2, load}
  NoCall = NoCall
  Tools = {shell, load}
  ToolOf <- MCToolOf
  Usable <- MCAllUsable
  Gated = {shell}
  Watched = {shell}
  Skills = {k, j}
  Loads <- MCLoads
  Restricted = {}
  Decisions = {"defer"}
  MaxSteps = 3
  MaxToolCalls = 3
  MaxFailures = 2
  SeenCap = 4
  SeenKeep = 2
  Verify = TRUE
  MaxBatch = 2
CHECK_DEADLOCK FALSE
INVARIANT AlwaysIsScoped
