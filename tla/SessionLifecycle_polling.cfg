SPECIFICATION PollSpec
CONSTANTS
  Proc = {p1, p2}
  Name = {n1}
  Ref = {r1, r2, r3}
  Pid = {b1, b2}
  None = None
  FaultSets <- Polled
PROPERTIES
    
    BridgeComesBack
