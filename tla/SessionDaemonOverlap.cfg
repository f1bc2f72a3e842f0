SPECIFICATION Spec
CONSTANTS
  c1 = c1
  c2 = c2
  c3 = c3
  Client <- ThreeClients
  None = None
  Fresh = {}
  Limit = 1
  Frames <- NoFrames
  MaxDrops = 0
  Flaky = {}
  MaxUpsets = 1
CHECK_DEADLOCK FALSE
SYMMETRY Symmetric
INVARIANT OneExecAtATime
