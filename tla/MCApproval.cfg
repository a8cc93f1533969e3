SPECIFICATION Spec
CONSTANTS
  r1 = r1
  r2 = r2
  s1 = s1
  a = a
  Runs = {r1, r2}
  NoRun = NoRun
  Sessions = {s1}
  Handlers = {h1, h2}
  Tools = {a}
  NCalls = 2
  MaxPending = 1
  SessionOf <- MCSessionOf
  ToolOf <- MCToolOf
INVARIANT TypeOK
INVARIANT OneDriver
INVARIANT PendingBounded
INVARIANT OneShotUnlessCrossed
INVARIANT ProtocolInv
PROPERTY ExpiredIsFinal
PROPERTY ImplementsToken
SYMMETRY Symmetry
