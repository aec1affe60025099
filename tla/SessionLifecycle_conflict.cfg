SPECIFICATION Spec
CONSTANTS
  Proc = {p1}
  Name = {n1}
  Ref = {r1, r2}
  Pid = {b1, b2}
  None = None
  FaultSets <- OthersOnly
PROPERTY
  CreateSparesUnmanaged
