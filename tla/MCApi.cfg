SPECIFICATION Spec
CONSTANTS
  Requests = {r1, r2}
  key = key
  short = short
  Keys = {key, short}
  NoKey = NoKey
  Quality <- MCQuality
  Loopback = {local}
  local = local
  Remote = Remote
  NotANumber = NotANumber
  Environments <- MCEnvironments
  Clients <- MCClients
  Window = 3
  PingGap = 3
  PongWait = 1
  Silence = 4
  MaxTime = 8
SYMMETRY MCSymmetry
INVARIANT WindowExact
INVARIANT SlotsAreSockets
INVARIANT OverrideHolds
INVARIANT PromptClientKept
